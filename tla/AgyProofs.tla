------------------------------ MODULE AgyProofs ------------------------------
(***************************************************************************)
(* Proofs about agy-acp, for every value of the constants: of the process     *)
(* (AgyPeer) first, then of a session (AgySession).                          *)
(*                                                                           *)
(* The process.  Whatever the chunks, the bytes that are buffered and those    *)
(* that are still due are a stream of whole messages with rising numbers      *)
(* (Pipe), so the lines of a chunk come in the order of their messages        *)
(* (LinesInOrder), younger than all that was read before (Heard).  A request   *)
(* that was read has one place until it is answered: a line, a queued         *)
(* reaction, the turn, a session that starts (Placed).  Prompts and cancels    *)
(* keep their order through lines and reactions (Follow).  On the way out a    *)
(* child belongs to a session that is still to be disposed of or is tracked    *)
(* (SessionsLeft), and the answer of the prompt that the disposal ended is     *)
(* queued, written or read (OwedIsKept).                                     *)
(*                                                                           *)
(* A session.  None of its properties is inductive.  A new child is started    *)
(* only when no other is alive because a turn waits for the only one there is  *)
(* (TurnHasIt) and between turns the only one is the driver (DriverIsIt).  A    *)
(* text reaches a fit child because a prompt that is not settled was neither   *)
(* cancelled nor disposed of (OpenPrompt), because a child that is being       *)
(* probed for it is untouched (ProbedIsFresh), and because `live` without      *)
(* `needsRespawn` means what it says (LiveMeansFit).                         *)
(***************************************************************************)
EXTENDS AgyPeer, AgySession, WellFoundedInduction, SequenceTheorems, TLAPS

(* Numbers and recursion: the streams that a client can write are a recursive function of their length *)

\* A set of numbers has a least one.
LEMMA LeastNat ==
    ASSUME NEW S \in SUBSET Nat, S # {}
    PROVE  \E m \in S : \A k \in S : m <= k
<1>1. \E m \in S : \A k \in S : ~ (<<k, m>> \in OpToRel(<, Nat))
  BY WFMin, NatLessThanWellFounded, Zenon
<1>2. PICK m \in S : \A k \in S : ~ (<<k, m>> \in OpToRel(<, Nat))
  BY <1>1
<1>3. \A k \in S : ~ (k < m)
  BY <1>2 DEF OpToRel
<1> QED
  BY <1>3

\* A set of numbers up to n has a greatest one.
LEMMA GreatestBelow ==
    ASSUME NEW n \in Nat, NEW S \in SUBSET (0..n), S # {}
    PROVE  \E m \in S : \A k \in S : k <= m
<1> DEFINE D == {d \in 0..n : n - d \in S}
<1>1. D \in SUBSET Nat /\ D # {}
  <2>1. PICK k \in S : TRUE
    OBVIOUS
  <2>2. k \in 0..n
    OBVIOUS
  <2>3. n - k \in 0..n /\ n - (n - k) = k
    BY <2>2
  <2>4. n - k \in D
    BY <2>3
  <2>5. \A d \in D : d \in Nat
    OBVIOUS
  <2> HIDE DEF D
  <2> QED
    BY <2>4, <2>5
<1>2. PICK d \in D : \A e \in D : d <= e
  BY <1>1, LeastNat
<1>3. \A k \in S : n - k \in D
  <2> TAKE k \in S
  <2>1. n - k \in 0..n /\ n - (n - k) = k
    OBVIOUS
  <2> QED
    BY <2>1
<1>4. n - d \in S /\ \A k \in S : k <= n - d
  BY <1>2, <1>3
<1> QED
  BY <1>4

(* Recursion on numbers: the values up to n exist, agree, and make one function. *)

\* The first n steps of a computation that starts with a.
RunsOf(A, a, step, n) == {g \in [0..n -> A] : g[0] = a /\ \A k \in 0..(n - 1) : g[k + 1] = step[k][g[k]]}

\* A shorter run is the beginning of a longer one.
LEMMA RunsAgree ==
    ASSUME NEW A, NEW a \in A, NEW step \in [Nat -> [A -> A]], NEW n \in Nat, NEW m \in Nat, m <= n,
           NEW g \in RunsOf(A, a, step, n), NEW h \in RunsOf(A, a, step, m)
    PROVE  \A k \in 0..m : g[k] = h[k]
<1> DEFINE D == {k \in 0..m : g[k] # h[k]}
<1>1. SUFFICES ASSUME D # {} PROVE FALSE
  OBVIOUS
<1>2. D \in SUBSET Nat
  OBVIOUS
<1>3. PICK d \in D : \A e \in D : d <= e
  BY <1>1, <1>2, LeastNat
<1>4. d # 0
  BY <1>3 DEF RunsOf
<1>5. d - 1 \in 0..m /\ d - 1 \in 0..(m - 1) /\ d - 1 \in 0..(n - 1) /\ (d - 1) + 1 = d /\ d - 1 \notin D
  BY <1>3, <1>4
<1>6. g[d - 1] = h[d - 1]
  BY <1>5
<1>7. g[d] = step[d - 1][g[d - 1]] /\ h[d] = step[d - 1][h[d - 1]]
  BY <1>5 DEF RunsOf
<1> QED
  BY <1>3, <1>6, <1>7

\* There is a run of every length.
LEMMA RunsExist ==
    ASSUME NEW A, NEW a \in A, NEW step \in [Nat -> [A -> A]]
    PROVE  \A n \in Nat : RunsOf(A, a, step, n) # {}
<1> DEFINE D == {n \in Nat : RunsOf(A, a, step, n) = {}}
<1>1. SUFFICES ASSUME D # {} PROVE FALSE
  OBVIOUS
<1>2. PICK d \in D : \A e \in D : d <= e
  BY <1>1, LeastNat
<1>3. d # 0
  <2>1. [k \in 0..0 |-> a] \in RunsOf(A, a, step, 0)
    BY DEF RunsOf
  <2> QED
    BY <2>1, <1>2
<1>4. d - 1 \in Nat /\ d - 1 \notin D
  BY <1>2, <1>3
<1>5. PICK g \in RunsOf(A, a, step, d - 1) : TRUE
  BY <1>4
<1> DEFINE h == [k \in 0..d |-> IF k = d THEN step[d - 1][g[d - 1]] ELSE g[k]]
<1>6. g \in [0..(d - 1) -> A] /\ g[0] = a /\ \A k \in 0..((d - 1) - 1) : g[k + 1] = step[k][g[k]]
  BY <1>5 DEF RunsOf
<1>7. g[d - 1] \in A /\ step[d - 1] \in [A -> A]
  BY <1>4, <1>6
<1>8. step[d - 1][g[d - 1]] \in A
  BY <1>7
<1>9. h \in [0..d -> A] /\ h[0] = a
  BY <1>3, <1>4, <1>6, <1>8
<1>10. ASSUME NEW k \in 0..(d - 1) PROVE h[k + 1] = step[k][h[k]]
  <2>1. CASE k = d - 1
    BY <2>1, <1>4
  <2>2. CASE k # d - 1
    <3>1. k \in 0..((d - 1) - 1) /\ k + 1 \in 0..d /\ k + 1 # d /\ k # d /\ k \in 0..d
      BY <2>2, <1>4
    <3> QED
      BY <3>1, <1>6
  <2> QED
    BY <2>1, <2>2
<1>11. h \in RunsOf(A, a, step, d)
  <2> HIDE DEF h
  <2> QED
    BY <1>9, <1>10 DEF RunsOf
<1> QED
  BY <1>2, <1>11

\* The whole computation.
Steps(h, A, a, step) == h \in [Nat -> A] /\ h[0] = a /\ \A n \in Nat : h[n + 1] = step[n][h[n]]

\* What is defined step by step exists.
LEMMA Recursion ==
    ASSUME NEW A, NEW a, a \in A, NEW step, step \in [Nat -> [A -> A]]
    PROVE  \E h : Steps(h, A, a, step)
<1> DEFINE run(n) == CHOOSE g : g \in RunsOf(A, a, step, n)
           h == [n \in Nat |-> run(n)[n]]
<1>1. \A n \in Nat : run(n) \in RunsOf(A, a, step, n)
  BY RunsExist
<1>2. \A n \in Nat : run(n) \in [0..n -> A]
  BY <1>1 DEF RunsOf
<1>3. h \in [Nat -> A]
  BY <1>2
<1>4. h[0] = a
  BY <1>1 DEF RunsOf
<1>5. ASSUME NEW n \in Nat PROVE h[n + 1] = step[n][h[n]]
  <2>1. run(n + 1) \in RunsOf(A, a, step, n + 1) /\ run(n) \in RunsOf(A, a, step, n)
    BY <1>1
  <2>2. run(n + 1)[n] = run(n)[n]
    <3> HIDE DEF run
    <3> QED
      BY <2>1, RunsAgree
  <2>3. run(n + 1)[n + 1] = step[n][run(n + 1)[n]]
    <3> HIDE DEF run
    <3> n \in 0..((n + 1) - 1)
      OBVIOUS
    <3> QED
      BY <2>1 DEF RunsOf
  <2> QED
    BY <2>2, <2>3
<1> QED
  BY <1>3, <1>4, <1>5 DEF Steps

(* Streams of messages *)

\* What a byte of the stream may be; Marks: of the messages there are.
Bytes == [type : Types \cup {"LF", "CR", "filler"}, id : Nat]
Marks == [type : Types, id : Requests] \cup {LF, CR, Filler}

\* Whole messages, numbered after from up to last, each at the start of a line.
Flow(w, from, last) ==
    /\ w \in Seq(Marks)
    /\ w # <<>> => w[Len(w)] = LF
    /\ \A i \in 1..Len(w) : w[i].id > 0 => w[i].id \in (from + 1)..last /\ (i = 1 \/ w[i - 1] = LF)
    /\ \A i, j \in 1..Len(w) : i < j /\ w[i].id > 0 /\ w[j].id > 0 => w[i].id < w[j].id

\* The newline, the "\r" and the filler are no messages; what has a number is one.
LEMMA MarkFacts ==
    /\ LF \in Marks /\ CR \in Marks /\ Filler \in Marks
    /\ LF.id = 0 /\ CR.id = 0 /\ Filler.id = 0 /\ LF # CR /\ LF # Filler /\ CR # Filler
    /\ \A m \in Marks : m \in Bytes /\ m.id \in Nat /\ (m.id > 0 => m.type \in Types /\ m.id \in Requests /\ m # LF /\ m # CR)
    /\ \A m \in Marks : m.type \in Types => m.id \in Requests
BY PeerAssumption DEF Marks, LF, CR, Filler, Message, Types, Methods, Requests, Bytes

\* A frame is made of bytes.
LEMMA EncodingTypes ==
    ASSUME NEW id \in Nat, NEW f \in Encodings(id)
    PROVE  f \in Seq(Bytes)
<1>1. \A t \in Types : Message(t, id) \in Bytes
  BY DEF Message, Bytes
<1>2. LF \in Bytes /\ CR \in Bytes /\ Filler \in Bytes
  BY DEF LF, CR, Filler, Message, Bytes
<1>3. \A m \in Bytes, n \in Nat : Padded(m, n) \in Seq(Bytes)
  <2> TAKE m \in Bytes, n \in Nat
  <2>1. [i \in 1..n |-> Filler] \in Seq(Bytes) /\ <<m>> \in Seq(Bytes)
    BY <1>2
  <2> QED
    BY <2>1 DEF Padded
<1>4. CASE \E t \in Types : f = <<Message(t, id), LF>>
  BY <1>4, <1>1, <1>2
<1>5. MaxFrame - 1 \in Nat /\ MaxFrame \in Nat
  BY PeerAssumption
<1>6. CASE f = Padded(Message("session/prompt", id), MaxFrame - 1) \o <<CR, LF>>
  <2>1. Padded(Message("session/prompt", id), MaxFrame - 1) \in Seq(Bytes)
    BY <1>1, <1>3, <1>5 DEF Types, Methods
  <2>2. <<CR, LF>> \in Seq(Bytes)
    BY <1>2
  <2> QED
    BY <1>6, <2>1, <2>2
<1>7. CASE f = Padded(Message("garbage", id), MaxFrame) \o <<LF>>
  <2>1. Padded(Message("garbage", id), MaxFrame) \in Seq(Bytes)
    BY <1>1, <1>3, <1>5 DEF Types, Methods
  <2>2. <<LF>> \in Seq(Bytes)
    BY <1>2
  <2> QED
    BY <1>7, <2>1, <2>2
<1> QED
  BY <1>4, <1>6, <1>7 DEF Encodings

\* What a padded message looks like.
LEMMA PaddedFacts ==
    ASSUME NEW m, NEW n \in Nat
    PROVE  /\ Len(Padded(m, n)) = n + 1 /\ Padded(m, n)[1] = m
           /\ \A i \in 2..(n + 1) : Padded(m, n)[i] = Filler
           /\ \A S : m \in S /\ Filler \in S => Padded(m, n) \in Seq(S)
<1> DEFINE p == [i \in 1..n |-> Filler]
<1>1. p \in Seq({Filler}) /\ Len(p) = n /\ \A i \in 1..n : p[i] = Filler
  OBVIOUS
<1>2. \A S : Filler \in S => p \in Seq(S)
  OBVIOUS
<1> HIDE DEF p
<1>3. <<m>> \in Seq({m}) /\ Len(<<m>>) = 1 /\ <<m>>[1] = m
  OBVIOUS
<1>4. <<m>> \in Seq({m, Filler}) /\ p \in Seq({m, Filler})
  BY <1>2
<1>5. Len(<<m>> \o p) = n + 1 /\ (<<m>> \o p)[1] = m /\ \A i \in 2..(n + 1) : (<<m>> \o p)[i] = p[i - 1]
  BY <1>1, <1>3, <1>4
<1>6. \A i \in 2..(n + 1) : i - 1 \in 1..n
  OBVIOUS
<1>7. \A S : m \in S /\ Filler \in S => (<<m>> \o p) \in Seq(S)
  BY <1>2
<1> QED
  BY <1>1, <1>5, <1>6, <1>7 DEF Padded, p

\* A frame is a stream of one message.
LEMMA FlowFrame ==
    ASSUME NEW id \in Requests, NEW f \in Encodings(id)
    PROVE  Flow(f, id - 1, id)
<1> DEFINE Framed(g) == /\ g \in Seq(Marks) /\ Len(g) > 0 /\ g[Len(g)] = LF /\ g[1].id = id
                        /\ \A i \in 2..Len(g) : g[i].id = 0
<1>0. id \in Nat /\ id > 0 /\ \A t \in Types : Message(t, id) \in Marks /\ Message(t, id).id = id
  BY DEF Requests, Marks, Message
<1>1. MaxFrame - 1 \in Nat /\ MaxFrame \in Nat
  BY PeerAssumption
<1>2. ASSUME \E t \in Types : f = <<Message(t, id), LF>> PROVE Framed(f)
  <2>1. PICK t \in Types : f = <<Message(t, id), LF>>
    BY <1>2
  <2> DEFINE m == Message(t, id)
  <2>2. m \in Marks /\ m.id = id
    BY <1>0
  <2> HIDE DEF m
  <2>3. <<m, LF>> \in Seq(Marks) /\ Len(<<m, LF>>) = 2 /\ <<m, LF>>[1] = m /\ <<m, LF>>[2] = LF
    BY <2>2, MarkFacts
  <2>4. \A i \in 2..2 : i = 2
    OBVIOUS
  <2> QED
    BY <2>1, <2>2, <2>3, <2>4, MarkFacts DEF m
<1>3. ASSUME f = Padded(Message("session/prompt", id), MaxFrame - 1) \o <<CR, LF>> PROVE Framed(f)
  <2> DEFINE m == Message("session/prompt", id)
             p == Padded(m, MaxFrame - 1)
  <2>1. m \in Marks /\ m.id = id
    BY <1>0 DEF Types, Methods
  <2> HIDE DEF m
  <2>2. Len(p) = MaxFrame /\ p[1] = m /\ (\A i \in 2..MaxFrame : p[i] = Filler) /\ p \in Seq(Marks)
    BY <1>1, <2>1, PaddedFacts, MarkFacts
  <2> HIDE DEF p
  <2>3. <<CR, LF>> \in Seq(Marks) /\ Len(<<CR, LF>>) = 2 /\ <<CR, LF>>[1] = CR /\ <<CR, LF>>[2] = LF
    BY MarkFacts
  <2>4. /\ p \o <<CR, LF>> \in Seq(Marks) /\ Len(p \o <<CR, LF>>) = MaxFrame + 2
        /\ \A i \in 1..MaxFrame : (p \o <<CR, LF>>)[i] = p[i]
        /\ (p \o <<CR, LF>>)[MaxFrame + 1] = CR /\ (p \o <<CR, LF>>)[MaxFrame + 2] = LF
    BY <2>2, <2>3, <1>1
  <2>5. f \in Seq(Marks) /\ Len(f) = MaxFrame + 2 /\ f[Len(f)] = LF
    BY <1>3, <2>4 DEF p, m
  <2>6. 1 \in 1..MaxFrame
    BY <1>1
  <2>7. f[1].id = id
    BY <1>3, <2>1, <2>2, <2>4, <2>6 DEF p, m
  <2>8. ASSUME NEW i \in 2..Len(f) PROVE f[i].id = 0
    <3>1. i \in 2..MaxFrame \/ i = MaxFrame + 1 \/ i = MaxFrame + 2
      BY <2>5, <1>1
    <3>2. i \in 2..MaxFrame => i \in 1..MaxFrame
      BY <1>1
    <3> QED
      BY <1>3, <2>2, <2>4, <3>1, <3>2, MarkFacts DEF p, m
  <2> QED
    BY <2>5, <2>7, <2>8, <1>1
<1>4. ASSUME f = Padded(Message("garbage", id), MaxFrame) \o <<LF>> PROVE Framed(f)
  <2> DEFINE m == Message("garbage", id)
             p == Padded(m, MaxFrame)
  <2>1. m \in Marks /\ m.id = id
    BY <1>0 DEF Types, Methods
  <2> HIDE DEF m
  <2>2. Len(p) = MaxFrame + 1 /\ p[1] = m /\ (\A i \in 2..(MaxFrame + 1) : p[i] = Filler) /\ p \in Seq(Marks)
    BY <1>1, <2>1, PaddedFacts, MarkFacts
  <2> HIDE DEF p
  <2>3. <<LF>> \in Seq(Marks) /\ Len(<<LF>>) = 1 /\ <<LF>>[1] = LF
    BY MarkFacts
  <2>4. /\ p \o <<LF>> \in Seq(Marks) /\ Len(p \o <<LF>>) = MaxFrame + 2
        /\ \A i \in 1..(MaxFrame + 1) : (p \o <<LF>>)[i] = p[i]
        /\ (p \o <<LF>>)[MaxFrame + 2] = LF
    BY <2>2, <2>3, <1>1
  <2>5. f \in Seq(Marks) /\ Len(f) = MaxFrame + 2 /\ f[Len(f)] = LF
    BY <1>4, <2>4 DEF p, m
  <2>6. 1 \in 1..(MaxFrame + 1)
    BY <1>1
  <2>7. f[1].id = id
    BY <1>4, <2>1, <2>2, <2>4, <2>6 DEF p, m
  <2>8. ASSUME NEW i \in 2..Len(f) PROVE f[i].id = 0
    <3>1. i \in 2..(MaxFrame + 1) \/ i = MaxFrame + 2
      BY <2>5, <1>1
    <3>2. i \in 2..(MaxFrame + 1) => i \in 1..(MaxFrame + 1)
      BY <1>1
    <3> QED
      BY <1>4, <2>2, <2>4, <3>1, <3>2, MarkFacts DEF p, m
  <2> QED
    BY <2>5, <2>7, <2>8, <1>1
<1>5. Framed(f)
  BY <1>2, <1>3, <1>4 DEF Encodings
<1>6. \A i \in 1..Len(f) : f[i].id > 0 => i = 1 /\ f[i].id = id
  <2> TAKE i \in 1..Len(f)
  <2>1. i = 1 \/ i \in 2..Len(f)
    BY <1>5
  <2> QED
    BY <2>1, <1>5
<1>7. id \in ((id - 1) + 1)..id
  BY <1>0
<1> HIDE DEF Framed
<1>8. f \in Seq(Marks) /\ f[Len(f)] = LF
  BY <1>5 DEF Framed
<1> QED
  BY <1>6, <1>7, <1>8 DEF Flow

\* Streams that follow each other are one.
LEMMA FlowJoin ==
    ASSUME NEW a \in Nat, NEW b \in Nat, NEW c \in Nat, a <= b, b <= c,
           NEW v, NEW w, Flow(v, a, b), Flow(w, b, c)
    PROVE  Flow(v \o w, a, c)
<1> DEFINE u == v \o w
<1>1. v \in Seq(Marks) /\ w \in Seq(Marks)
  BY DEF Flow
<1>2. /\ u \in Seq(Marks) /\ Len(u) = Len(v) + Len(w) /\ Len(v) \in Nat /\ Len(w) \in Nat
      /\ \A i \in 1..Len(v) : u[i] = v[i]
      /\ \A i \in 1..Len(w) : u[Len(v) + i] = w[i]
  BY <1>1
<1> HIDE DEF u
<1>3. \A i \in 1..Len(u) : i \in 1..Len(v) \/ (i > Len(v) /\ i - Len(v) \in 1..Len(w) /\ u[i] = w[i - Len(v)])
  <2> TAKE i \in 1..Len(u)
  <2>1. CASE i <= Len(v)
    BY <2>1, <1>2
  <2>2. CASE i > Len(v)
    <3>1. i - Len(v) \in 1..Len(w) /\ Len(v) + (i - Len(v)) = i
      BY <2>2, <1>2
    <3> QED
      BY <3>1, <2>2, <1>2
  <2> QED
    BY <2>1, <2>2, <1>2
<1>4. \A i \in 1..Len(u) : u[i].id \in Nat
  BY <1>2, MarkFacts
<1>5. /\ \A i \in 1..Len(v) : v[i].id > 0 => v[i].id \in (a + 1)..b /\ (i = 1 \/ v[i - 1] = LF)
      /\ \A i, j \in 1..Len(v) : i < j /\ v[i].id > 0 /\ v[j].id > 0 => v[i].id < v[j].id
      /\ (v # <<>> => v[Len(v)] = LF)
  BY DEF Flow
<1>6. /\ \A i \in 1..Len(w) : w[i].id > 0 => w[i].id \in (b + 1)..c /\ (i = 1 \/ w[i - 1] = LF)
      /\ \A i, j \in 1..Len(w) : i < j /\ w[i].id > 0 /\ w[j].id > 0 => w[i].id < w[j].id
      /\ (w # <<>> => w[Len(w)] = LF)
  BY DEF Flow
<1>7. u # <<>> => u[Len(u)] = LF
  <2>1. CASE w = <<>>
    <3>1. Len(w) = 0 /\ u = v
      BY <2>1, <1>1 DEF u
    <3> QED
      BY <3>1, <1>5
  <2>2. CASE w # <<>>
    <3>1. Len(w) > 0
      BY <2>2, <1>1
    <3>2. Len(w) \in 1..Len(w)
      BY <3>1, <1>2
    <3> QED
      BY <2>2, <3>2, <1>2, <1>6
  <2> QED
    BY <2>1, <2>2
<1>8. ASSUME NEW i \in 1..Len(u), u[i].id > 0
      PROVE  u[i].id \in (a + 1)..c /\ (i = 1 \/ u[i - 1] = LF)
  <2>1. CASE i \in 1..Len(v)
    <3>1. v[i].id \in (a + 1)..b /\ (i = 1 \/ v[i - 1] = LF)
      BY <1>2, <1>5, <1>8, <2>1
    <3>2. i # 1 => i - 1 \in 1..Len(v)
      BY <2>1
    <3> QED
      BY <3>1, <3>2, <1>2, <2>1
  <2>2. CASE i > Len(v) /\ i - Len(v) \in 1..Len(w) /\ u[i] = w[i - Len(v)]
    <3>1. w[i - Len(v)].id \in (b + 1)..c /\ (i - Len(v) = 1 \/ w[(i - Len(v)) - 1] = LF)
      BY <1>6, <1>8, <2>2
    <3>2. u[i].id \in (a + 1)..c
      BY <3>1, <2>2
    <3>3. CASE i - Len(v) = 1
      <4>1. i - 1 = Len(v) /\ i # 1 => v # <<>> /\ Len(v) \in 1..Len(v)
        BY <3>3, <1>2
      <4>2. i - 1 = Len(v)
        BY <3>3, <1>2
      <4> QED
        BY <4>1, <4>2, <3>2, <1>2, <1>5
    <3>4. CASE i - Len(v) # 1
      <4>1. (i - Len(v)) - 1 \in 1..Len(w) /\ Len(v) + ((i - Len(v)) - 1) = i - 1
        BY <3>4, <2>2, <1>2
      <4>2. u[i - 1] = w[(i - Len(v)) - 1]
        BY <4>1, <1>2
      <4> QED
        BY <4>2, <3>1, <3>2, <3>4
    <3> QED
      BY <3>3, <3>4
  <2> QED
    BY <2>1, <2>2, <1>3
<1>9. ASSUME NEW i \in 1..Len(u), NEW j \in 1..Len(u), i < j, u[i].id > 0, u[j].id > 0
      PROVE  u[i].id < u[j].id
  <2>1. CASE j \in 1..Len(v)
    <3>1. i \in 1..Len(v)
      BY <2>1, <1>9, <1>2
    <3> QED
      BY <3>1, <2>1, <1>9, <1>2, <1>5
  <2>2. CASE i \in 1..Len(v) /\ j > Len(v) /\ j - Len(v) \in 1..Len(w) /\ u[j] = w[j - Len(v)]
    <3>1. u[i].id \in (a + 1)..b /\ u[j].id \in (b + 1)..c
      BY <2>2, <1>9, <1>2, <1>5, <1>6
    <3> QED
      BY <3>1
  <2>3. CASE i > Len(v) /\ i - Len(v) \in 1..Len(w) /\ u[i] = w[i - Len(v)]
    <3>1. j > Len(v)
      BY <2>3, <1>9, <1>2
    <3>2. j - Len(v) \in 1..Len(w) /\ u[j] = w[j - Len(v)]
      BY <3>1, <1>3, <1>2
    <3>3. i - Len(v) < j - Len(v)
      BY <1>9, <1>2
    <3> QED
      BY <2>3, <3>2, <3>3, <1>6, <1>9
  <2> QED
    BY <2>1, <2>2, <2>3, <1>3
<1> QED
  BY <1>2, <1>7, <1>8, <1>9 DEF Flow, u

\* The streams of S, each followed by every frame of the next message.
Grown(from, k, S) == {some \o f : some \in S, f \in Encodings(from + k)}

\* Where such a stream comes from.
LEMMA GrownMembers ==
    ASSUME NEW from, NEW k, NEW S, NEW v \in Grown(from, k, S)
    PROVE  \E some \in S, f \in Encodings(from + k) : v = some \o f
BY SMT DEF Grown

\* It is made of bytes.
LEMMA GrownType ==
    ASSUME NEW from \in Nat, NEW k \in Nat, NEW S \in SUBSET Seq(Bytes)
    PROVE  Grown(from, k, S) \in SUBSET Seq(Bytes)
<1>1. from + k \in Nat
  OBVIOUS
<1>2. \A f \in Encodings(from + k) : f \in Seq(Bytes)
  BY <1>1, EncodingTypes
<1>3. \A some \in S, f \in Encodings(from + k) : some \o f \in Seq(Bytes)
  BY <1>2
<1>4. ASSUME NEW v \in Grown(from, k, S) PROVE v \in Seq(Bytes)
  <2>1. PICK some \in S, f \in Encodings(from + k) : v = some \o f
    BY GrownMembers
  <2> QED
    BY <2>1, <1>3
<1> QED
  BY <1>4

\* w[k] holds the streams of k messages.
Counted(from, n, w) == w = [k \in 0..n |-> IF k = 0 THEN {<<>>} ELSE Grown(from, k, w[k - 1])]

\* The function in Written is one: it is defined step by step.
LEMMA CountedExists ==
    ASSUME NEW from \in Nat, NEW n \in Nat
    PROVE  \E w : Counted(from, n, w)
<1> DEFINE A == SUBSET Seq(Bytes)
           a == {<<>>}
           step == [k \in Nat |-> [S \in A |-> Grown(from, k + 1, S)]]
<1>1. a \in A
  OBVIOUS
<1>3. step \in [Nat -> [A -> A]]
  <2>1. \A k \in Nat, S \in A : Grown(from, k + 1, S) \in A
    BY GrownType
  <2> HIDE DEF A
  <2> QED
    BY <2>1
<1>4. \E h : Steps(h, A, a, step)
  <2> HIDE DEF A, a, step
  <2> QED
    BY <1>1, <1>3, Recursion
<1>5. PICK h : h \in [Nat -> A] /\ h[0] = a /\ \A k \in Nat : h[k + 1] = step[k][h[k]]
  BY <1>4 DEF Steps
<1>6. Counted(from, n, [k \in 0..n |-> h[k]])
  <2> DEFINE g == [k \in 0..n |-> h[k]]
  <2>1. \A k \in Nat : h[k] \in A
    <3> HIDE DEF A
    <3> QED
      BY <1>5
  <2>2. \A k \in Nat : h[k + 1] = Grown(from, k + 1, h[k])
    <3> HIDE DEF A
    <3> QED
      BY <1>5, <2>1
  <2>3. ASSUME NEW k \in 0..n PROVE h[k] = IF k = 0 THEN {<<>>} ELSE Grown(from, k, g[k - 1])
    <3>1. CASE k = 0
      BY <3>1, <1>5
    <3>2. CASE k # 0
      <4>1. k - 1 \in Nat /\ k - 1 \in 0..n /\ (k - 1) + 1 = k
        BY <3>2
      <4>2. h[k] = Grown(from, k, h[k - 1])
        BY <4>1, <2>2
      <4>3. g[k - 1] = h[k - 1]
        BY <4>1
      <4> QED
        BY <3>2, <4>2, <4>3
    <3> QED
      BY <3>1, <3>2
  <2>4. g = [k \in 0..n |-> IF k = 0 THEN {<<>>} ELSE Grown(from, k, g[k - 1])]
    BY <2>3
  <2> QED
    BY <2>4 DEF Counted
<1> QED
  BY <1>6

\* What the client writes is a stream of whole messages.
LEMMA FlowWritten ==
    ASSUME NEW from \in Nat, NEW n \in Nat, from + n <= MaxMessages, NEW more \in Written(from, n)
    PROVE  Flow(more, from, from + n)
<1> DEFINE w == CHOOSE g : Counted(from, n, g)
<1>7. Counted(from, n, w)
  BY CountedExists
<1>8. Written(from, n) = w[n]
  BY DEF Written, Counted, Grown
<1>9. w[0] = {<<>>} /\ \A k \in 1..n : w[k] = Grown(from, k, w[k - 1])
  <2> HIDE DEF w
  <2>1. w = [k \in 0..n |-> IF k = 0 THEN {<<>>} ELSE Grown(from, k, w[k - 1])]
    BY <1>7 DEF Counted
  <2>2. \A k \in 1..n : k \in 0..n /\ k # 0
    OBVIOUS
  <2>3. 0 \in 0..n
    OBVIOUS
  <2> QED
    BY <2>1, <2>2, <2>3
<1> HIDE DEF w
<1> DEFINE D == {k \in 0..n : \E v \in w[k] : ~ Flow(v, from, from + k)}
<1>10. D = {}
  <2>1. SUFFICES ASSUME D # {} PROVE FALSE
    OBVIOUS
  <2>2. D \in SUBSET Nat
    OBVIOUS
  <2>3. PICK d \in D : \A e \in D : d <= e
    BY <2>1, <2>2, LeastNat
  <2>4. d # 0
    <3>1. Flow(<<>>, from, from + 0)
      BY DEF Flow
    <3> QED
      BY <3>1, <2>3, <1>9
  <2>5. d \in 1..n /\ d - 1 \in 0..n /\ d - 1 \notin D
    BY <2>3, <2>4
  <2>6. PICK v \in w[d] : ~ Flow(v, from, from + d)
    BY <2>3
  <2>7. PICK some \in w[d - 1], f \in Encodings(from + d) : v = some \o f
    <3> DEFINE S == w[d - 1]
    <3>1. v \in Grown(from, d, S)
      BY <2>5, <2>6, <1>9
    <3> HIDE DEF S
    <3>2. \E some \in S, f \in Encodings(from + d) : v = some \o f
      BY <3>1, GrownMembers
    <3> QED
      BY <3>2 DEF S
  <2>8. Flow(some, from, from + (d - 1))
    BY <2>5, <2>7
  <2>9. from + d \in Requests /\ (from + d) - 1 = from + (d - 1)
    BY <2>5, PeerAssumption DEF Requests
  <2>10. Flow(f, from + (d - 1), from + d)
    BY <2>9, <2>7, FlowFrame
  <2>11. from + (d - 1) \in Nat /\ from + d \in Nat /\ from <= from + (d - 1) /\ from + (d - 1) <= from + d
    BY <2>5
  <2> HIDE DEF D
  <2>12. Flow(v, from, from + d)
    BY <2>7, <2>8, <2>10, <2>11, FlowJoin
  <2> QED
    BY <2>6, <2>12
<1>11. n \in 0..n /\ more \in w[n]
  BY <1>8
<1> QED
  BY <1>10, <1>11

(* Lines *)

\* The line that byte j ends begins at one place.
LEMMA StartFacts ==
    ASSUME NEW bytes \in Seq(Marks), NEW j \in 1..(Len(bytes) + 1)
    PROVE  /\ Start(bytes, j) \in 1..j
           /\ Start(bytes, j) = 1 \/ bytes[Start(bytes, j) - 1] = LF
           /\ \A k \in Start(bytes, j)..(j - 1) : bytes[k] # LF
<1> DEFINE Begins(i) == (i = 1 \/ bytes[i - 1] = LF) /\ \A k \in i..(j - 1) : bytes[k] # LF
<1>1. SUFFICES \E i \in 1..j : Begins(i)
  BY DEF Start
<1> DEFINE S == {i \in 0..j : i \in 1..j /\ (i = 1 \/ bytes[i - 1] = LF)}
<1>2. S \in SUBSET (0..j) /\ 1 \in S /\ j \in Nat
  OBVIOUS
<1>3. PICK m \in S : \A k \in S : k <= m
  BY <1>2, GreatestBelow
<1>4. m \in 1..j /\ (m = 1 \/ bytes[m - 1] = LF)
  BY <1>3
<1>5. ASSUME NEW k \in m..(j - 1), bytes[k] = LF PROVE FALSE
  <2>1. k + 1 \in 0..j /\ k + 1 \in 1..j /\ (k + 1) - 1 = k /\ k + 1 > m
    BY <1>4
  <2>2. k + 1 \in S
    BY <2>1, <1>5
  <2> QED
    BY <2>1, <2>2, <1>3
<1> QED
  BY <1>4, <1>5

\* The place where a line begins is known by what is there.
LEMMA StartIsUnique ==
    ASSUME NEW bytes \in Seq(Marks), NEW j \in 1..(Len(bytes) + 1), NEW i \in 1..j,
           i = 1 \/ bytes[i - 1] = LF, \A k \in i..(j - 1) : bytes[k] # LF
    PROVE  Start(bytes, j) = i
<1> DEFINE s == Start(bytes, j)
<1>1. s \in 1..j /\ (s = 1 \/ bytes[s - 1] = LF) /\ \A k \in s..(j - 1) : bytes[k] # LF
  BY StartFacts
<1> HIDE DEF s
<1>2. ~ (s < i)
  <2>1. SUFFICES ASSUME s < i PROVE FALSE
    OBVIOUS
  <2>2. i # 1 /\ i - 1 \in s..(j - 1)
    BY <1>1, <2>1
  <2> QED
    BY <2>2, <1>1
<1>3. ~ (i < s)
  <2>1. SUFFICES ASSUME i < s PROVE FALSE
    OBVIOUS
  <2>2. s # 1 /\ s - 1 \in i..(j - 1)
    BY <1>1, <2>1
  <2> QED
    BY <2>2, <1>1
<1> QED
  BY <1>1, <1>2, <1>3 DEF s

\* The ends of the lines that are too long.
Long(bytes) ==
    {j \in Ends(bytes) : Size(bytes, j) > MaxFrame} \cup {j \in {Len(bytes) + 1} : Len(Rest(bytes)) > MaxFrame}

\* What a line may be to handleLine.
LineMessages == [type : Types, id : Requests] \cup {Message("garbage", 0), TooLong}

\* A line is what it begins with, or garbage.
LEMMA ParsedFacts ==
    ASSUME NEW m \in Marks
    PROVE  /\ Parsed(m) \in LineMessages /\ Parsed(m) # TooLong
           /\ Parsed(m).id > 0 => Parsed(m) = m
           /\ m.id > 0 => Parsed(m) = m
<1>1. m.id > 0 => m.type \in Types
  BY MarkFacts
<1>2. m.type \in Types => m \in [type : Types, id : Requests]
  BY MarkFacts DEF Marks, LF, CR, Filler, Message, Types, Methods
<1>3. Message("garbage", 0).id = 0 /\ Message("garbage", 0) # TooLong
  BY DEF Message, TooLong
<1>4. m.type \in Types => m # TooLong
  <2>1. TooLong.type = "oversized" /\ "oversized" \notin Types
    BY DEF TooLong, Message, Types, Methods
  <2> QED
    BY <2>1
<1> QED
  BY <1>1, <1>2, <1>3, <1>4 DEF Parsed, LineMessages

\* A decoded line is a whole one that ends before the first that is too long, or is that one.
LEMMA DecodedMembers ==
    ASSUME NEW bytes \in Seq(Marks), NEW l \in Decoded(bytes)
    PROVE  \/ /\ l.at \in Ends(bytes) /\ Size(bytes, l.at) > 0 /\ \A k \in Long(bytes) : l.at < k
              /\ l = [at |-> l.at, message |-> Parsed(bytes[Start(bytes, l.at)])]
           \/ /\ l.at \in Long(bytes) /\ l = [at |-> l.at, message |-> TooLong]
              /\ \A k \in Long(bytes) : l.at <= k
<1> DEFINE Whole == {j \in Ends(bytes) : Size(bytes, j) > 0 /\ \A k \in Long(bytes) : j < k}
           First == {m \in Long(bytes) : \A k \in Long(bytes) : m <= k}
<1>1. Decoded(bytes) = {[at |-> j, message |-> Parsed(bytes[Start(bytes, j)])] : j \in Whole}
                       \cup {[at |-> j, message |-> TooLong] : j \in First}
  BY DEF Decoded, Long
<1>2. CASE l \in {[at |-> j, message |-> Parsed(bytes[Start(bytes, j)])] : j \in Whole}
  <2>1. PICK j \in Whole : l = [at |-> j, message |-> Parsed(bytes[Start(bytes, j)])]
    BY <1>2
  <2>2. l.at = j
    BY <2>1
  <2> QED
    BY <2>1, <2>2
<1>3. CASE l \in {[at |-> j, message |-> TooLong] : j \in First}
  <2>1. PICK j \in First : l = [at |-> j, message |-> TooLong]
    BY <1>3
  <2>2. l.at = j
    BY <2>1
  <2> QED
    BY <2>1, <2>2
<1> QED
  BY <1>1, <1>2, <1>3

\* And these are all there.
LEMMA DecodedHas ==
    ASSUME NEW bytes, NEW j
    PROVE  /\ j \in Ends(bytes) /\ Size(bytes, j) > 0 /\ (\A k \in Long(bytes) : j < k)
              => [at |-> j, message |-> Parsed(bytes[Start(bytes, j)])] \in Decoded(bytes)
           /\ j \in Long(bytes) /\ (\A k \in Long(bytes) : j <= k)
              => [at |-> j, message |-> TooLong] \in Decoded(bytes)
<1> DEFINE Whole == {i \in Ends(bytes) : Size(bytes, i) > 0 /\ \A k \in Long(bytes) : i < k}
           First == {m \in Long(bytes) : \A k \in Long(bytes) : m <= k}
<1>1. Decoded(bytes) = {[at |-> i, message |-> Parsed(bytes[Start(bytes, i)])] : i \in Whole}
                       \cup {[at |-> i, message |-> TooLong] : i \in First}
  BY DEF Decoded, Long
<1>2. j \in Whole => [at |-> j, message |-> Parsed(bytes[Start(bytes, j)])] \in Decoded(bytes)
  BY <1>1
<1>3. j \in First => [at |-> j, message |-> TooLong] \in Decoded(bytes)
  BY <1>1
<1> QED
  BY <1>2, <1>3

\* Where lines end, there is a newline or the end of what was read.
LEMMA LongFacts ==
    ASSUME NEW bytes \in Seq(Marks)
    PROVE  /\ Ends(bytes) \subseteq 1..Len(bytes) /\ Long(bytes) \subseteq 1..(Len(bytes) + 1)
           /\ \A j \in Ends(bytes) : bytes[j] = LF /\ Start(bytes, j) \in 1..j
<1>1. DOMAIN bytes = 1..Len(bytes) /\ Len(bytes) \in Nat
  OBVIOUS
<1>2. Ends(bytes) \subseteq 1..Len(bytes)
  BY <1>1 DEF Ends
<1>3. Long(bytes) \subseteq 1..(Len(bytes) + 1)
  <2>1. Long(bytes) \subseteq Ends(bytes) \cup {Len(bytes) + 1}
    BY DEF Long
  <2>2. Len(bytes) + 1 \in 1..(Len(bytes) + 1) /\ 1..Len(bytes) \subseteq 1..(Len(bytes) + 1)
    BY <1>1
  <2> QED
    BY <2>1, <2>2, <1>2
<1>4. \A j \in Ends(bytes) : j \in 1..(Len(bytes) + 1) /\ bytes[j] = LF
  BY <1>1, <1>2 DEF Ends
<1> QED
  BY <1>2, <1>3, <1>4, StartFacts

\* A message that is not the first has a newline before it.
Lined(bytes) ==
    /\ \A i \in 1..Len(bytes) : bytes[i].id > 0 => i = 1 \/ bytes[i - 1] = LF
    /\ \A i, j \in 1..Len(bytes) : i < j /\ bytes[i].id > 0 /\ bytes[j].id > 0 => bytes[i].id < bytes[j].id

\* Lines come in the order of their messages, and a line with a number is the message with that number.
LEMMA DecodedInOrder ==
    ASSUME NEW bytes \in Seq(Marks), Lined(bytes)
    PROVE  /\ Decoded(bytes) \subseteq [at : Nat, message : LineMessages]
           /\ \A k, l \in Decoded(bytes) : k.at = l.at => k = l
           /\ \A k, l \in Decoded(bytes) :
                 k.at < l.at /\ k.message.id > 0 /\ l.message.id > 0 => k.message.id < l.message.id
           /\ \A l \in Decoded(bytes) : l.message.id > 0 =>
                 /\ l.at \in Ends(bytes) /\ Start(bytes, l.at) \in 1..Len(bytes) /\ Start(bytes, l.at) <= l.at
                 /\ bytes[Start(bytes, l.at)] = l.message
<1>0. /\ \A i \in 1..Len(bytes) : bytes[i] \in Marks
      /\ Len(bytes) \in Nat /\ TooLong.id = 0 /\ TooLong \in LineMessages
  BY DEF TooLong, Message, LineMessages
<1>1. ASSUME NEW l \in Decoded(bytes) PROVE l \in [at : Nat, message : LineMessages]
  <2>1. CASE l.at \in Ends(bytes) /\ l = [at |-> l.at, message |-> Parsed(bytes[Start(bytes, l.at)])]
    <3>1. l.at \in Nat /\ Start(bytes, l.at) \in 1..Len(bytes)
      BY <2>1, LongFacts
    <3>2. Parsed(bytes[Start(bytes, l.at)]) \in LineMessages
      BY <3>1, <1>0, ParsedFacts
    <3> QED
      BY <2>1, <3>1, <3>2
  <2>2. CASE l.at \in Long(bytes) /\ l = [at |-> l.at, message |-> TooLong]
    <3>1. l.at \in Nat
      BY <2>2, LongFacts
    <3> QED
      BY <2>2, <3>1, <1>0
  <2> QED
    BY <2>1, <2>2, DecodedMembers
<1>2. ASSUME NEW k \in Decoded(bytes), NEW l \in Decoded(bytes), k.at = l.at PROVE k = l
  <2>1. l.at \in Ends(bytes) \/ l.at \in Long(bytes) => l.at \in Nat
    BY LongFacts
  <2> QED
    BY <2>1, <1>2, DecodedMembers
<1>3. ASSUME NEW l \in Decoded(bytes), l.message.id > 0
      PROVE  /\ l.at \in Ends(bytes) /\ Start(bytes, l.at) \in 1..Len(bytes) /\ Start(bytes, l.at) <= l.at
             /\ bytes[Start(bytes, l.at)] = l.message
  <2>1. l # [at |-> l.at, message |-> TooLong]
    BY <1>3, <1>0
  <2>2. l.at \in Ends(bytes) /\ l = [at |-> l.at, message |-> Parsed(bytes[Start(bytes, l.at)])]
    BY <2>1, DecodedMembers
  <2>3. Start(bytes, l.at) \in 1..Len(bytes) /\ Start(bytes, l.at) <= l.at
    BY <2>2, LongFacts
  <2>4. bytes[Start(bytes, l.at)] \in Marks /\ l.message = Parsed(bytes[Start(bytes, l.at)])
    BY <2>2, <2>3, <1>0
  <2> QED
    BY <2>2, <2>3, <2>4, <1>3, ParsedFacts
<1>4. ASSUME NEW k \in Decoded(bytes), NEW l \in Decoded(bytes),
             k.at < l.at, k.message.id > 0, l.message.id > 0
      PROVE  k.message.id < l.message.id
  <2> DEFINE a == Start(bytes, k.at)
             b == Start(bytes, l.at)
  <2>1. /\ k.at \in Ends(bytes) /\ a \in 1..Len(bytes) /\ a <= k.at /\ bytes[a] = k.message
        /\ l.at \in Ends(bytes) /\ b \in 1..Len(bytes) /\ b <= l.at /\ bytes[b] = l.message
    BY <1>3, <1>4
  <2>2. l.at \in 1..(Len(bytes) + 1) /\ k.at \in 1..Len(bytes) /\ l.at \in Nat /\ bytes[k.at] = LF
    BY <2>1, LongFacts
  <2>3. \A i \in b..(l.at - 1) : bytes[i] # LF
    BY <2>2, StartFacts
  <2> HIDE DEF a, b
  <2>4. k.at < b
    <3>1. SUFFICES ASSUME ~ (k.at < b) PROVE FALSE
      OBVIOUS
    <3>2. k.at \in b..(l.at - 1)
      BY <3>1, <2>1, <2>2, <1>4
    <3> QED
      BY <3>2, <2>2, <2>3
  <2>5. a < b
    BY <2>1, <2>2, <2>4
  <2> QED
    BY <2>1, <2>5, <1>4 DEF Lined
<1> QED
  BY <1>1, <1>2, <1>3, <1>4

\* Unless the stream ends, every message that a newline follows is a line.
LEMMA DecodedAll ==
    ASSUME NEW bytes \in Seq(Marks), Lined(bytes), \A l \in Decoded(bytes) : l.message # TooLong,
           NEW i \in 1..Len(bytes), bytes[i].id > 0, NEW e \in i..Len(bytes), bytes[e] = LF
    PROVE  \E l \in Decoded(bytes) : l.message = bytes[i]
<1>1. Long(bytes) = {}
  <2>1. SUFFICES ASSUME Long(bytes) # {} PROVE FALSE
    OBVIOUS
  <2>2. Long(bytes) \in SUBSET Nat
    BY LongFacts
  <2>3. PICK j \in Long(bytes) : \A k \in Long(bytes) : j <= k
    BY <2>1, <2>2, LeastNat
  <2>4. [at |-> j, message |-> TooLong] \in Decoded(bytes)
    BY <2>3, DecodedHas
  <2> QED
    BY <2>4
<1> DEFINE S == {k \in i..Len(bytes) : bytes[k] = LF}
<1>2. S \in SUBSET Nat /\ e \in S
  OBVIOUS
<1>3. PICK j \in S : \A k \in S : j <= k
  BY <1>2, LeastNat
<1>4. bytes[i] \in Marks /\ bytes[i] # LF /\ bytes[i] # CR /\ Len(bytes) \in Nat
  <2>1. bytes[i] \in Marks
    OBVIOUS
  <2> QED
    BY <2>1, MarkFacts
<1>5. j \in i..Len(bytes) /\ bytes[j] = LF /\ j > i /\ j \in 1..(Len(bytes) + 1) /\ i \in 1..j
  BY <1>3, <1>4
<1>6. \A k \in i..(j - 1) : bytes[k] # LF
  <2> TAKE k \in i..(j - 1)
  <2>1. k \in i..Len(bytes) /\ k < j
    BY <1>5, <1>4
  <2> QED
    BY <2>1, <1>3
<1>7. i = 1 \/ bytes[i - 1] = LF
  BY DEF Lined
<1>8. Start(bytes, j) = i
  BY <1>5, <1>6, <1>7, StartIsUnique
<1>9. Size(bytes, j) > 0
  <2>1. Size(bytes, j) = j - i - (IF i < j /\ bytes[j - 1] = CR THEN 1 ELSE 0)
    BY <1>8 DEF Size, WithoutCR
  <2>2. CASE j - 1 = i
    BY <2>1, <2>2, <1>4, <1>5
  <2>3. CASE j - 1 # i
    <3>1. j - i >= 2 /\ j \in Nat /\ i \in Nat
      BY <2>3, <1>5
    <3> QED
      BY <3>1, <2>1
  <2> QED
    BY <2>2, <2>3
<1>10. j \in Ends(bytes)
  BY <1>5 DEF Ends
<1>11. [at |-> j, message |-> Parsed(bytes[i])] \in Decoded(bytes)
  BY <1>1, <1>8, <1>9, <1>10, DecodedHas
<1> QED
  BY <1>11, <1>4, ParsedFacts

\* What begins as a stream does has its messages at the start of lines.
LEMMA FlowIsLined ==
    ASSUME NEW w, NEW from \in Nat, NEW last, Flow(w, from, last), NEW bytes \in Seq(Marks), Len(bytes) <= Len(w),
           \A i \in 1..Len(bytes) : bytes[i] = w[i]
    PROVE  Lined(bytes)
<1>1. w \in Seq(Marks) /\ Len(w) \in Nat /\ Len(bytes) \in Nat
  BY DEF Flow
<1>2. \A i \in 1..Len(bytes) : i \in 1..Len(w) /\ (i = 1 \/ i - 1 \in 1..Len(bytes))
  BY <1>1
<1> QED
  BY <1>1, <1>2 DEF Lined, Flow

\* The elements of two sequences that are put together.
LEMMA JoinFacts ==
    ASSUME NEW S, NEW v \in Seq(S), NEW w \in Seq(S)
    PROVE  /\ v \o w \in Seq(S) /\ Len(v \o w) = Len(v) + Len(w) /\ Len(v) \in Nat /\ Len(w) \in Nat
           /\ \A i \in 1..Len(v) : (v \o w)[i] = v[i]
           /\ \A i \in 1..Len(w) : (v \o w)[Len(v) + i] = w[i]
OBVIOUS

\* What is left behind the last newline.
LEMMA RestFacts ==
    ASSUME NEW bytes \in Seq(Marks)
    PROVE  LET s == Start(bytes, Len(bytes) + 1)
           IN  /\ s \in 1..(Len(bytes) + 1) /\ (s = 1 \/ bytes[s - 1] = LF)
               /\ \A k \in s..Len(bytes) : bytes[k] # LF
               /\ Rest(bytes) \in Seq(Marks) /\ Len(Rest(bytes)) = Len(bytes) + 1 - s
               /\ \A i \in 1..Len(Rest(bytes)) : Rest(bytes)[i] = bytes[s - 1 + i]
<1> DEFINE s == Start(bytes, Len(bytes) + 1)
<1>1. Len(bytes) \in Nat /\ Len(bytes) + 1 \in 1..(Len(bytes) + 1) /\ (Len(bytes) + 1) - 1 = Len(bytes)
  OBVIOUS
<1>2. s \in 1..(Len(bytes) + 1) /\ (s = 1 \/ bytes[s - 1] = LF) /\ \A k \in s..Len(bytes) : bytes[k] # LF
  BY <1>1, StartFacts
<1> HIDE DEF s
<1> DEFINE r == SubSeq(bytes, s, Len(bytes))
<1>3. r \in Seq(Marks) /\ Len(r) = Len(bytes) + 1 - s
  BY <1>1, <1>2
<1>4. \A i \in 1..Len(r) : r[i] = bytes[s - 1 + i]
  BY <1>1, <1>2
<1> QED
  BY <1>2, <1>3, <1>4 DEF Rest, s

\* What is left of a stream behind a newline is one.
LEMMA FlowRest ==
    ASSUME NEW w, NEW last \in Nat, Flow(w, 0, last), NEW all \in Seq(Marks), NEW rest \in Seq(Marks),
           w = all \o rest, rest = <<>> \/ rest[Len(rest)] = LF
    PROVE  /\ Flow(Rest(all) \o rest, 0, last)
           /\ \A i \in 1..Len(Rest(all)) : Rest(all)[i] # LF
           /\ rest = <<>> => Rest(all) = <<>>
<1> DEFINE s == Start(all, Len(all) + 1)
           left == Rest(all)
           v == left \o rest
<1>1. /\ s \in 1..(Len(all) + 1) /\ (s = 1 \/ all[s - 1] = LF)
      /\ \A k \in s..Len(all) : all[k] # LF
      /\ left \in Seq(Marks) /\ Len(left) = Len(all) + 1 - s
      /\ \A i \in 1..Len(left) : left[i] = all[s - 1 + i]
  BY RestFacts
<1>2. Len(all) \in Nat /\ Len(rest) \in Nat
  OBVIOUS
<1> HIDE DEF s, left
<1>3. /\ w \in Seq(Marks) /\ Len(w) = Len(all) + Len(rest)
      /\ \A i \in 1..Len(all) : w[i] = all[i]
      /\ \A i \in 1..Len(rest) : w[Len(all) + i] = rest[i]
  OBVIOUS
<1>4. /\ v \in Seq(Marks) /\ Len(v) = Len(left) + Len(rest)
      /\ \A i \in 1..Len(left) : v[i] = left[i]
      /\ \A i \in 1..Len(rest) : v[Len(left) + i] = rest[i]
  <2>1. left \in Seq(Marks) /\ rest \in Seq(Marks)
    BY <1>1
  <2> QED
    BY <2>1, JoinFacts
<1> HIDE DEF v
<1>5. ASSUME NEW i \in 1..Len(v) PROVE s - 1 + i \in 1..Len(w) /\ v[i] = w[s - 1 + i]
  <2>1. s - 1 + i \in 1..Len(w)
    BY <1>1, <1>2, <1>3, <1>4
  <2>2. CASE i <= Len(left)
    <3>1. s - 1 + i \in 1..Len(all)
      BY <2>2, <1>1, <1>2
    <3> QED
      BY <3>1, <2>1, <2>2, <1>1, <1>3, <1>4
  <2>3. CASE i > Len(left)
    <3> DEFINE j == i - Len(left)
    <3>1. j \in 1..Len(rest) /\ Len(left) + j = i /\ Len(all) + j = s - 1 + i
      BY <2>3, <1>1, <1>2, <1>4
    <3> HIDE DEF j
    <3>2. v[Len(left) + j] = rest[j] /\ w[Len(all) + j] = rest[j]
      BY <3>1, <1>3, <1>4
    <3> QED
      BY <3>1, <3>2, <2>1
  <2> QED
    BY <2>2, <2>3, <1>1, <1>4
<1>6. /\ \A i \in 1..Len(w) : w[i].id > 0 => w[i].id \in (0 + 1)..last /\ (i = 1 \/ w[i - 1] = LF)
      /\ \A i, j \in 1..Len(w) : i < j /\ w[i].id > 0 /\ w[j].id > 0 => w[i].id < w[j].id
      /\ (w # <<>> => w[Len(w)] = LF)
  BY DEF Flow
<1>7. rest = <<>> => left = <<>>
  <2>1. SUFFICES ASSUME rest = <<>>, left # <<>> PROVE FALSE
    OBVIOUS
  <2>2. Len(rest) = 0 /\ Len(left) > 0
    BY <2>1, <1>1
  <2>3. Len(all) \in s..Len(all) /\ Len(w) = Len(all) /\ Len(all) \in 1..Len(all)
    BY <2>2, <1>1, <1>2, <1>3
  <2>4. w # <<>>
    BY <2>3
  <2> QED
    BY <2>3, <2>4, <1>1, <1>3, <1>6
<1>8. v # <<>> => v[Len(v)] = LF
  <2>1. CASE rest = <<>>
    <3>1. Len(v) = 0
      BY <2>1, <1>4, <1>7
    <3> QED
      BY <3>1, <1>4
  <2>2. CASE rest # <<>>
    <3>1. Len(rest) \in 1..Len(rest)
      BY <2>2, <1>2
    <3> QED
      BY <3>1, <2>2, <1>4
  <2> QED
    BY <2>1, <2>2
<1>9. ASSUME NEW i \in 1..Len(v), v[i].id > 0 PROVE v[i].id \in (0 + 1)..last /\ (i = 1 \/ v[i - 1] = LF)
  <2>1. s - 1 + i \in 1..Len(w) /\ v[i] = w[s - 1 + i] /\ w[s - 1 + i].id > 0
    BY <1>5, <1>9
  <2>2. w[s - 1 + i].id \in (0 + 1)..last /\ (s - 1 + i = 1 \/ w[(s - 1 + i) - 1] = LF)
    BY <2>1, <1>6
  <2>3. i # 1 => i - 1 \in 1..Len(v) /\ s - 1 + (i - 1) = (s - 1 + i) - 1 /\ s - 1 + i # 1
    BY <1>1
  <2> QED
    BY <2>1, <2>2, <2>3, <1>5
<1>10. ASSUME NEW i \in 1..Len(v), NEW j \in 1..Len(v), i < j, v[i].id > 0, v[j].id > 0
       PROVE  v[i].id < v[j].id
  <2>1. s - 1 + i < s - 1 + j
    BY <1>1, <1>10
  <2> QED
    BY <2>1, <1>5, <1>6, <1>10
<1>11. Flow(v, 0, last)
  BY <1>4, <1>8, <1>9, <1>10 DEF Flow
<1>12. \A i \in 1..Len(left) : left[i] # LF
  <2> TAKE i \in 1..Len(left)
  <2>1. s - 1 + i \in s..Len(all)
    BY <1>1, <1>2
  <2> QED
    BY <2>1, <1>1
<1> QED
  BY <1>7, <1>11, <1>12 DEF v, left

\* What is left is younger than what a newline follows.
LEMMA RestIsYounger ==
    ASSUME NEW bytes \in Seq(Marks), Lined(bytes), NEW i \in 1..Len(bytes), bytes[i].id > 0,
           NEW e \in i..Len(bytes), bytes[e] = LF, NEW k \in 1..Len(Rest(bytes)), Rest(bytes)[k].id > 0
    PROVE  bytes[i].id < Rest(bytes)[k].id
<1> DEFINE s == Start(bytes, Len(bytes) + 1)
<1>1. /\ s \in 1..(Len(bytes) + 1) /\ \A j \in s..Len(bytes) : bytes[j] # LF
      /\ Len(Rest(bytes)) = Len(bytes) + 1 - s
      /\ \A j \in 1..Len(Rest(bytes)) : Rest(bytes)[j] = bytes[s - 1 + j]
  BY RestFacts
<1> HIDE DEF s
<1>2. Len(bytes) \in Nat
  OBVIOUS
<1>3. e < s
  BY <1>1, <1>2
<1>4. s - 1 + k \in 1..Len(bytes) /\ i < s - 1 + k
  BY <1>1, <1>2, <1>3
<1> QED
  BY <1>1, <1>4 DEF Lined

\* r was written, and is older than what of a message is kept.
OlderThan(r, kept, last) == r <= last /\ \A i \in 1..Len(kept) : kept[i].id > 0 => r < kept[i].id

\* Putting together is associative.
LEMMA Joins ==
    ASSUME NEW u \in Seq(Marks), NEW v \in Seq(Marks), NEW w \in Seq(Marks)
    PROVE  (u \o v) \o w = u \o (v \o w)
BY ConcatAssociative

\* What was kept, what was due and what is written now are a stream; so is what the chunk leaves.
ChunkGives(kept, due, from, n, more, cut) ==
    LET bytes == due \o more
        all == kept \o SubSeq(bytes, 1, Len(bytes) - cut)
        rest == SubSeq(bytes, Len(bytes) - cut + 1, Len(bytes))
    IN  /\ Flow(kept \o bytes, 0, from + n) /\ all \o rest = kept \o bytes
        /\ bytes \in Seq(Marks) /\ all \in Seq(Marks) /\ rest \in Seq(Marks)
        /\ rest = <<>> \/ rest[Len(rest)] = LF

\* Wherever the chunk is cut.
LEMMA ChunkIsAFlow ==
    ASSUME NEW kept \in Seq(Marks), NEW due \in Seq(Marks), NEW from \in Nat, NEW n \in Nat, from + n <= MaxMessages,
           Flow(kept \o due, 0, from), NEW more \in Written(from, n),
           NEW cut \in Nat, cut < Len(due \o more)
    PROVE  ChunkGives(kept, due, from, n, more, cut)
<1> DEFINE bytes == due \o more
           chunk == SubSeq(bytes, 1, Len(bytes) - cut)
           all == kept \o chunk
           rest == SubSeq(bytes, Len(bytes) - cut + 1, Len(bytes))
<1>1. Flow(more, from, from + n) /\ more \in Seq(Marks)
  BY FlowWritten DEF Flow
<1>2. bytes \in Seq(Marks)
  BY <1>1
<1>3. (kept \o due) \o more = kept \o bytes
  <2>1. more \in Seq(Marks)
    BY <1>1
  <2> QED
    BY <2>1, Joins, Zenon
<1>4. Flow(kept \o bytes, 0, from + n)
  <2>1. from + n \in Nat /\ 0 \in Nat /\ 0 <= from /\ from <= from + n
    OBVIOUS
  <2>2. Flow((kept \o due) \o more, 0, from + n)
    BY <1>1, <2>1, FlowJoin
  <2> QED
    BY <2>2, <1>3
<1> HIDE DEF bytes
<1>5. Len(bytes) \in Nat /\ Len(bytes) - cut \in 1..Len(bytes)
  BY <1>2 DEF bytes
<1>6. chunk \in Seq(Marks) /\ Len(chunk) = Len(bytes) - cut /\ rest \in Seq(Marks) /\ Len(rest) = cut
  BY <1>2, <1>5
<1>7. chunk \o rest = bytes
  <2>1. chunk \o rest = SubSeq(bytes, 1, Len(bytes))
    <3>1. 1 \in 1..(Len(bytes) + 1) /\ Len(bytes) - cut \in (1 - 1)..Len(bytes) /\ Len(bytes) \in (Len(bytes) - cut)..Len(bytes)
      BY <1>5
    <3> QED
      BY <3>1, <1>2, ConcatAdjacentSubSeq
  <2> QED
    BY <2>1, <1>2, SubSeqFull
<1>8. all \o rest = kept \o bytes
  <2> HIDE DEF chunk, rest
  <2>1. (kept \o chunk) \o rest = kept \o (chunk \o rest)
    BY <1>6, ConcatAssociative
  <2> QED
    BY <2>1, <1>7
<1>9. rest = <<>> \/ rest[Len(rest)] = LF
  <2> DEFINE w == kept \o bytes
  <2>1. Len(w) = Len(kept) + Len(bytes) /\ \A i \in 1..Len(bytes) : w[Len(kept) + i] = bytes[i]
    BY <1>2
  <2>2. w # <<>> /\ Len(bytes) \in 1..Len(bytes)
    BY <2>1, <1>2, <1>5
  <2>3. w[Len(w)] = LF
    BY <1>4, <2>2 DEF Flow
  <2>4. bytes[Len(bytes)] = LF
    BY <2>1, <2>2, <2>3
  <2>5. ASSUME cut > 0 PROVE rest[Len(rest)] = LF
    <3> DEFINE b == Len(bytes) - cut + 1
    <3>3. b \in 1..(Len(bytes) + 1) /\ Len(bytes) \in (b - 1)..Len(bytes) /\ cut \in 1..(Len(bytes) - b + 1)
      BY <1>5, <2>5
    <3>1. rest[cut] = bytes[b + cut - 1]
      <4> HIDE DEF b
      <4>1. SubSeq(bytes, b, Len(bytes))[cut] = bytes[b + cut - 1]
        BY <1>2, <3>3, SubSeqProperties
      <4> QED
        BY <4>1 DEF b
    <3>2. b + cut - 1 = Len(bytes)
      BY <1>5
    <3> QED
      BY <3>1, <3>2, <2>4, <1>6
  <2>6. cut = 0 => rest = <<>>
    BY <1>6
  <2> QED
    BY <2>5, <2>6
<1>10. all \in Seq(Marks)
  BY <1>6
<1> QED
  BY <1>2, <1>4, <1>6, <1>8, <1>9, <1>10 DEF bytes, ChunkGives

\* What was older than what was kept is older than all that is read.
LEMMA ChunkIsYounger ==
    ASSUME NEW kept \in Seq(Marks), NEW due \in Seq(Marks), NEW from \in Nat, NEW last, NEW more,
           Flow(more, from, last), \A i \in 1..Len(due) : due[i].id = 0,
           NEW all \in Seq(Marks), NEW rest \in Seq(Marks), all \o rest = kept \o (due \o more),
           NEW r \in Nat, OlderThan(r, kept, from)
    PROVE  \A i \in 1..Len(all) : all[i].id > 0 => r < all[i].id
<1> DEFINE bytes == due \o more
           w == kept \o bytes
<1>1. /\ more \in Seq(Marks) /\ bytes \in Seq(Marks) /\ Len(bytes) = Len(due) + Len(more)
      /\ Len(due) \in Nat /\ Len(more) \in Nat /\ Len(kept) \in Nat /\ Len(all) \in Nat /\ Len(rest) \in Nat
      /\ \A i \in 1..Len(due) : bytes[i] = due[i]
      /\ \A i \in 1..Len(more) : bytes[Len(due) + i] = more[i]
  <2>1. more \in Seq(Marks)
    BY DEF Flow
  <2> QED
    BY <2>1, JoinFacts
<1> HIDE DEF bytes
<1>2. /\ Len(w) = Len(kept) + Len(bytes)
      /\ \A i \in 1..Len(kept) : w[i] = kept[i]
      /\ \A i \in 1..Len(bytes) : w[Len(kept) + i] = bytes[i]
  <2>1. bytes \in Seq(Marks)
    BY <1>1
  <2> QED
    BY <2>1, JoinFacts
<1>3. /\ Len(w) = Len(all) + Len(rest) /\ \A i \in 1..Len(all) : w[i] = all[i]
  <2>1. w = all \o rest
    BY DEF bytes
  <2> HIDE DEF w
  <2> QED
    BY <2>1, JoinFacts
<1> HIDE DEF w
<1>4. \A i \in 1..Len(more) : more[i].id > 0 => more[i].id > from
  <2>1. \A i \in 1..Len(more) : more[i].id > 0 => more[i].id \in (from + 1)..last
    BY DEF Flow
  <2> QED
    BY <2>1
<1> TAKE i \in 1..Len(all)
<1>5. HAVE all[i].id > 0
<1>6. i \in 1..Len(w) /\ w[i] = all[i]
  <2>1. Len(all) \in Nat /\ Len(rest) \in Nat
    BY <1>1
  <2>2. \A k \in 1..Len(all) : k \in 1..(Len(all) + Len(rest))
    BY <2>1
  <2> QED
    BY <1>3, <2>2
<1>7. CASE i <= Len(kept)
  BY <1>2, <1>5, <1>6, <1>7 DEF OlderThan
<1>8. CASE i > Len(kept) /\ i - Len(kept) <= Len(due)
  <2>1. i - Len(kept) \in 1..Len(due) /\ i - Len(kept) \in 1..Len(bytes) /\ Len(kept) + (i - Len(kept)) = i
    BY <1>1, <1>8
  <2>2. w[i] = due[i - Len(kept)]
    BY <1>1, <1>2, <2>1
  <2>3. all[i].id = 0
    BY <2>1, <2>2, <1>6
  <2> QED
    BY <2>3, <1>5
<1>9. CASE i - Len(kept) > Len(due)
  <2> DEFINE j == i - Len(kept) - Len(due)
  <2>1. j \in 1..Len(more) /\ Len(due) + j \in 1..Len(bytes) /\ Len(kept) + (Len(due) + j) = i
    BY <1>1, <1>2, <1>6, <1>9
  <2>2. w[i] = more[j]
    BY <1>1, <1>2, <2>1
  <2>3. more[j].id > from
    BY <2>1, <2>2, <1>4, <1>5, <1>6
  <2>4. more[j].id \in Nat
    <3>1. more[j] \in Marks
      BY <1>1, <2>1
    <3> QED
      BY <3>1, MarkFacts
  <2> QED
    BY <2>2, <2>3, <2>4, <1>6 DEF OlderThan
<1> QED
  BY <1>1, <1>7, <1>8, <1>9

(* The state of the process *)

\* What is acted upon in order; JobTypes, Jobs: the queued reactions; Frames: what is written.
Acts     == {"session/prompt", "session/cancel"}
JobTypes == {"session/new", "session/prompt", "session/cancel", "chosen", "result", "error", "unserializable"}
Jobs     == [type : JobTypes, id : Requests]
Frames   == [type : {"call", "result", "error"}, id : {0} \cup Requests]

\* The types of the sessions, and of the turn.
RegistryTypes ==
    /\ session \in [Sessions -> {"none", "starting", "live", "ending", "abandoned"}] /\ session[0] # "starting"
    /\ \A s \in Sessions : session[s] = "abandoned" => s = 0
    /\ turn \in {0} \cup Requests /\ busy \in {0} \cup Requests /\ turnOpen \in BOOLEAN
    /\ turnAt \in {"none", "replacing", "probing", "dropping", "chosen", "sent", "puttingAway"}
    /\ registered \in Seq(Sessions) /\ toDispose \in Seq(Sessions) /\ tracked \subseteq Sessions

\* The types of the variables.
PeerTypes ==
    /\ written \in 0..MaxMessages /\ unread \in Seq(Marks) /\ buffered \in Seq(Marks)
    /\ lines \subseteq [at : Nat, message : LineMessages] /\ jobs \in Seq(Jobs)
    /\ input \in {"open", "ended"} /\ closed \in BOOLEAN /\ broken \in BOOLEAN
    /\ (closed => input = "ended")
    /\ call \in {"none", "pending"} /\ (call = "pending" => input = "open")
    /\ out \subseteq Frames /\ RegistryTypes
    /\ phase \in {"up", "cleaning", "sweeping", "flushing", "exited"}
    /\ forced \in BOOLEAN /\ flushed \in BOOLEAN
    /\ unanswered \subseteq Requests /\ twice \in BOOLEAN
    /\ handled \in {0} \cup Requests /\ owed \subseteq Requests /\ late \subseteq Sessions

\* What is kept and what is due are a stream; what is kept has no newline, and what is due begins no message.
Pipe ==
    /\ Flow(buffered \o unread, 0, written)
    /\ \A i \in 1..Len(buffered) : buffered[i] # LF
    /\ \A i \in 1..Len(unread) : unread[i].id = 0

\* The lines of the chunk are in the order of their messages.
LinesInOrder ==
    /\ \A k, l \in lines : k.at = l.at => k = l
    /\ \A k, l \in lines : k.at < l.at /\ k.message.id > 0 /\ l.message.id > 0 => k.message.id < l.message.id

\* The lines that want an answer.
Asks(ls) == {l \in ls : l.message.type \in Methods}

\* Only requests, and what else has a number, have one that is not 0.
LEMMA LineMessageFacts ==
    ASSUME NEW m \in LineMessages
    PROVE  m.id \in Nat /\ m.id \in Sessions /\ (m.type \in Methods => m.id \in Requests /\ m.id > 0)
<1>1. CASE m \in [type : Types, id : Requests]
  BY <1>1 DEF Requests, Sessions
<1>2. CASE m = Message("garbage", 0)
  <2>1. m.type = "garbage" /\ m.id = 0 /\ "garbage" \notin Methods
    BY <1>2 DEF Message, Methods
  <2> QED
    BY <2>1 DEF Sessions
<1>3. CASE m = TooLong
  <2>1. m.type = "oversized" /\ m.id = 0 /\ "oversized" \notin Methods
    BY <1>3 DEF Message, Methods, TooLong
  <2>2. m.type \notin Methods
    BY <2>1
  <2>3. 0 \in Sessions
    BY DEF Sessions
  <2>4. m.id \in Nat
    BY <2>1
  <2>5. m.id \in Sessions
    BY <2>1, <2>3
  <2> QED
    BY <2>2, <2>4, <2>5
<1> QED
  BY <1>1, <1>2, <1>3 DEF LineMessages

\* The requests of the whole lines of a chunk are its requests; the rest is younger.
LEMMA ReadsLines ==
    ASSUME NEW all \in Seq(Marks), Lined(all), NEW ids, NEW ls,
           ls = Decoded(all),
           ids = {all[i].id : i \in {k \in Begun(all) : /\ all[k].type \in Methods
                                                        /\ \E j \in k..Len(all) : all[j] = LF}}
    PROVE  /\ ids \subseteq Requests
           /\ \A l \in Asks(ls) : l.message.id \in ids
           /\ (\A l \in ls : l.message # TooLong) => \A r \in ids : \E l \in Asks(ls) : l.message.id = r
           /\ \A r \in ids, k \in 1..Len(Rest(all)) : Rest(all)[k].id > 0 => r < Rest(all)[k].id
           /\ \A l \in ls, k \in 1..Len(Rest(all)) : Rest(all)[k].id > 0 => l.message.id < Rest(all)[k].id
<1> DEFINE Heads == {k \in Begun(all) : all[k].type \in Methods /\ \E j \in k..Len(all) : all[j] = LF}
<1>1. /\ \A i \in 1..Len(all) : all[i] \in Marks
      /\ Len(all) \in Nat /\ DOMAIN all = 1..Len(all)
  OBVIOUS
<1>2. \A i \in Heads : i \in 1..Len(all) /\ all[i].id > 0 /\ all[i].type \in Methods /\ \E j \in i..Len(all) : all[j] = LF
  BY <1>1 DEF Begun
<1>3. \A r \in ids : \E i \in Heads : r = all[i].id
  OBVIOUS
<1>4. \A i \in Heads : all[i].id \in ids
  OBVIOUS
<1>5. ASSUME NEW r \in ids PROVE r \in Requests
  <2>1. PICK i \in Heads : r = all[i].id
    BY <1>3
  <2>2. all[i] \in Marks /\ all[i].id > 0
    BY <1>1, <1>2
  <2> HIDE DEF Heads
  <2> QED
    BY <2>1, <2>2, MarkFacts
<1>6. ASSUME NEW l \in ls, l.message.id > 0
      PROVE  /\ Start(all, l.at) \in 1..Len(all) /\ l.at \in Start(all, l.at)..Len(all) /\ all[l.at] = LF
             /\ all[Start(all, l.at)] = l.message
  <2>1. /\ l.at \in Ends(all) /\ Start(all, l.at) \in 1..Len(all) /\ Start(all, l.at) <= l.at
        /\ all[Start(all, l.at)] = l.message
    BY <1>6, DecodedInOrder
  <2>2. l.at \in 1..Len(all) /\ all[l.at] = LF
    BY <2>1, LongFacts
  <2> QED
    BY <2>1, <2>2
<1>7. \A l \in Asks(ls) : l \in ls /\ l.message.id \in Requests /\ l.message.id > 0 /\ l.message.type \in Methods
  <2> TAKE l \in Asks(ls)
  <2>1. l \in ls /\ l.message.type \in Methods
    BY DEF Asks
  <2>2. l.message \in LineMessages
    BY <2>1, DecodedInOrder
  <2> QED
    BY <2>1, <2>2, LineMessageFacts
<1>8. ASSUME NEW l \in Asks(ls) PROVE l.message.id \in ids
  <2> DEFINE b == Start(all, l.at)
  <2>1. b \in 1..Len(all) /\ l.at \in b..Len(all) /\ all[l.at] = LF /\ all[b] = l.message
    BY <1>6, <1>7
  <2> HIDE DEF b
  <2>2. b \in Heads
    BY <1>1, <1>7, <2>1 DEF Begun
  <2> QED
    BY <1>4, <2>1, <2>2
<1>9. ASSUME \A l \in ls : l.message # TooLong, NEW r \in ids PROVE \E l \in Asks(ls) : l.message.id = r
  <2>1. PICK i \in Heads : r = all[i].id
    BY <1>3
  <2>2. PICK j \in i..Len(all) : all[j] = LF
    BY <1>2
  <2>3. \E l \in Decoded(all) : l.message = all[i]
    <3>1. i \in 1..Len(all) /\ all[i].id > 0
      BY <1>2
    <3> HIDE DEF Heads
    <3> QED
      BY <3>1, <2>2, <1>9, DecodedAll
  <2>4. PICK l \in ls : l.message = all[i]
    BY <2>3
  <2> QED
    BY <2>1, <2>4, <1>2 DEF Asks
<1> HIDE DEF Heads
<1>10. ASSUME NEW r \in ids, NEW k \in 1..Len(Rest(all)), Rest(all)[k].id > 0 PROVE r < Rest(all)[k].id
  <2>1. PICK i \in Heads : r = all[i].id
    BY <1>3
  <2>2. PICK j \in i..Len(all) : all[j] = LF
    BY <1>2
  <2> QED
    BY <2>1, <2>2, <1>2, <1>10, RestIsYounger
<1>11. ASSUME NEW l \in ls, NEW k \in 1..Len(Rest(all)), Rest(all)[k].id > 0 PROVE l.message.id < Rest(all)[k].id
  <2>1. CASE l.message.id > 0
    <3> DEFINE b == Start(all, l.at)
    <3>1. b \in 1..Len(all) /\ l.at \in b..Len(all) /\ all[l.at] = LF /\ all[b] = l.message
      BY <1>6, <2>1
    <3> HIDE DEF b
    <3>2. all[b].id < Rest(all)[k].id
      BY <3>1, <2>1, <1>11, RestIsYounger
    <3> QED
      BY <3>1, <3>2
  <2>2. CASE ~ (l.message.id > 0)
    <3>1. l \in [at : Nat, message : LineMessages]
      BY DecodedInOrder
    <3>2. l.message.id \in Nat
      BY <3>1, LineMessageFacts
    <3>3. Rest(all) \in Seq(Marks)
      BY RestFacts
    <3>4. Rest(all)[k].id \in Nat
      BY <3>3, MarkFacts
    <3> QED
      BY <3>2, <3>4, <2>2, <1>11
  <2> QED
    BY <2>1, <2>2
<1> QED
  BY <1>5, <1>8, <1>9, <1>10, <1>11

\* r has been read: it is older than all that will be.
Before(r) == OlderThan(r, buffered, written)

\* What a chunk brings: its lines come in the order of their messages, and these are younger than all that was there.
ChunkBrings ==
    /\ written' \in 0..MaxMessages /\ unread' \in Seq(Marks) /\ buffered' \in Seq(Marks)
    /\ Pipe' /\ LinesInOrder' /\ lines' \subseteq [at : Nat, message : LineMessages]
    /\ \A r \in Nat : Before(r) => /\ OlderThan(r, buffered', written')
                                   /\ \A l \in lines' : l.message.id > 0 => r < l.message.id
    /\ \A l \in lines' : OlderThan(l.message.id, buffered', written')
    /\ unanswered \subseteq unanswered' /\ unanswered' \subseteq Requests
    /\ \A r \in unanswered' : r \in unanswered \/ OlderThan(r, buffered', written')
    /\ \A l \in Asks(lines') : l.message.id \in unanswered'
    /\ (\A l \in lines' : l.message # TooLong) =>
          \A r \in unanswered' : r \in unanswered \/ \E l \in Asks(lines') : l.message.id = r

\* A read of n more messages, of which cut bytes are not in the chunk.
ReadsSo(n, more, cut) ==
    LET bytes == unread \o more
        chunk == SubSeq(bytes, 1, Len(bytes) - cut)
        rest  == SubSeq(bytes, Len(bytes) - cut + 1, Len(bytes))
        all   == buffered \o chunk
    IN /\ cut < Len(bytes) /\ Begun(rest) = {}
       /\ written' = written + n /\ unread' = rest
       /\ lines' = Decoded(all) /\ buffered' = Rest(all)
       /\ unanswered' = unanswered \cup {all[i].id : i \in {k \in Begun(all) : /\ all[k].type \in Methods
                                                                      /\ \E j \in k..Len(all) : all[j] = LF}}

\* Every read does that.
LEMMA ReadsBrings ==
    ASSUME PeerTypes, Pipe, Reads
    PROVE  ChunkBrings
<1>0. PICK n \in {k \in 0..MaxPerChunk : written + k <= MaxMessages} :
        \E more \in Written(written, n), cut \in 0..MaxFrame + 1 : ReadsSo(n, more, cut)
  BY DEF Reads, ReadsSo
<1>1. PICK more \in Written(written, n), cut \in 0..MaxFrame + 1 : ReadsSo(n, more, cut)
  BY <1>0
<1>2. n \in Nat /\ written + n <= MaxMessages /\ written \in Nat /\ cut \in Nat /\ MaxMessages \in Nat
  BY PeerAssumption DEF PeerTypes, RegistryTypes
<1> DEFINE bytes == unread \o more
           chunk == SubSeq(bytes, 1, Len(bytes) - cut)
           rest  == SubSeq(bytes, Len(bytes) - cut + 1, Len(bytes))
           all   == buffered \o chunk
           ids   == {all[i].id : i \in {k \in Begun(all) : /\ all[k].type \in Methods
                                                           /\ \E j \in k..Len(all) : all[j] = LF}}
<1>3. /\ cut < Len(bytes) /\ Begun(rest) = {} /\ written' = written + n /\ unread' = rest
      /\ lines' = Decoded(all) /\ buffered' = Rest(all) /\ unanswered' = unanswered \cup ids
  BY <1>1 DEF ReadsSo
<1>4. /\ Flow(buffered \o bytes, 0, written + n) /\ all \o rest = buffered \o bytes
      /\ bytes \in Seq(Marks) /\ all \in Seq(Marks) /\ rest \in Seq(Marks)
      /\ rest = <<>> \/ rest[Len(rest)] = LF
  <2>1. buffered \in Seq(Marks) /\ unread \in Seq(Marks) /\ Flow(buffered \o unread, 0, written)
    BY DEF PeerTypes, RegistryTypes, Pipe
  <2>2. cut < Len(unread \o more)
    BY <1>3
  <2>3. ChunkGives(buffered, unread, written, n, more, cut)
    BY <1>2, <2>1, <2>2, ChunkIsAFlow
  <2> QED
    BY <2>3 DEF ChunkGives
<1>5. Flow(more, written, written + n)
  BY <1>2, FlowWritten
<1>6. \A r \in Nat : OlderThan(r, buffered, written) => \A i \in 1..Len(all) : all[i].id > 0 => r < all[i].id
  <2> TAKE r \in Nat
  <2> HAVE OlderThan(r, buffered, written)
  <2>1. /\ buffered \in Seq(Marks) /\ unread \in Seq(Marks) /\ written \in Nat
        /\ \A i \in 1..Len(unread) : unread[i].id = 0
    BY <1>2 DEF PeerTypes, RegistryTypes, Pipe
  <2>2. all \o rest = buffered \o (unread \o more)
    BY <1>4
  <2>3. all \in Seq(Marks) /\ rest \in Seq(Marks)
    BY <1>4
  <2> HIDE DEF all, rest
  <2> QED
    BY <1>5, <2>1, <2>2, <2>3, ChunkIsYounger
<1> HIDE DEF rest, all, bytes
<1>7. Flow(all \o rest, 0, written + n) /\ written + n \in Nat /\ written + n \in 0..MaxMessages
  BY <1>2, <1>4
<1>8. Lined(all)
  <2>1. /\ all \o rest \in Seq(Marks) /\ Len(all) <= Len(all \o rest)
        /\ \A i \in 1..Len(all) : all[i] = (all \o rest)[i]
    <3>1. all \in Seq(Marks) /\ rest \in Seq(Marks)
      BY <1>4
    <3>2. /\ all \o rest \in Seq(Marks) /\ Len(all \o rest) = Len(all) + Len(rest) /\ Len(all) \in Nat /\ Len(rest) \in Nat
          /\ \A i \in 1..Len(all) : (all \o rest)[i] = all[i]
      BY <3>1, JoinFacts
    <3> QED
      BY <3>2
  <2> DEFINE w == all \o rest
  <2> HIDE DEF w
  <2>2. Flow(w, 0, written + n) /\ Len(all) <= Len(w) /\ \A i \in 1..Len(all) : all[i] = w[i]
    BY <2>1, <1>7 DEF w
  <2> QED
    BY <2>2, <1>4, FlowIsLined
<1>9. /\ Rest(all) \in Seq(Marks) /\ \A i \in 1..Len(Rest(all)) : Rest(all)[i] # LF
      /\ Flow(Rest(all) \o rest, 0, written + n)
  BY <1>4, <1>7, RestFacts, FlowRest
<1>10. \A i \in 1..Len(rest) : rest[i].id = 0
  <2>1. \A i \in 1..Len(rest) : rest[i] \in Marks /\ i \in DOMAIN rest
    BY <1>4
  <2>2. \A i \in 1..Len(rest) : rest[i].id \in Nat
    BY <2>1, MarkFacts
  <2> QED
    BY <2>1, <2>2, <1>3 DEF Begun
<1>11. Pipe'
  BY <1>3, <1>9, <1>10 DEF Pipe
<1>12. /\ Decoded(all) \subseteq [at : Nat, message : LineMessages]
       /\ \A k, l \in Decoded(all) : k.at = l.at => k = l
       /\ \A k, l \in Decoded(all) :
                 k.at < l.at /\ k.message.id > 0 /\ l.message.id > 0 => k.message.id < l.message.id
  BY <1>4, <1>8, DecodedInOrder
<1>13. LinesInOrder'
  BY <1>3, <1>12 DEF LinesInOrder
<1>14. /\ ids \subseteq Requests
       /\ \A l \in Asks(lines') : l.message.id \in ids
       /\ (\A l \in lines' : l.message # TooLong) => \A r \in ids : \E l \in Asks(lines') : l.message.id = r
       /\ \A r \in ids, k \in 1..Len(buffered') : buffered'[k].id > 0 => r < buffered'[k].id
       /\ \A l \in lines', k \in 1..Len(buffered') : buffered'[k].id > 0 => l.message.id < buffered'[k].id
  <2> DEFINE ls == Decoded(all)
             new == Rest(all)
  <2>1. /\ ids \subseteq Requests
        /\ \A l \in Asks(ls) : l.message.id \in ids
        /\ (\A l \in ls : l.message # TooLong) => \A r \in ids : \E l \in Asks(ls) : l.message.id = r
        /\ \A r \in ids, k \in 1..Len(new) : new[k].id > 0 => r < new[k].id
        /\ \A l \in ls, k \in 1..Len(new) : new[k].id > 0 => l.message.id < new[k].id
    BY <1>4, <1>8, ReadsLines
  <2>2. lines' = ls /\ buffered' = new
    BY <1>3
  <2> HIDE DEF ids, ls, new
  <2> QED
    BY <2>1, <2>2 DEF Asks
<1>15. \A i \in 1..Len(all) : all[i].id > 0 => all[i].id \in 1..(written + n)
  <2> TAKE i \in 1..Len(all)
  <2>1. Len(all \o rest) = Len(all) + Len(rest) /\ Len(all) \in Nat /\ Len(rest) \in Nat /\ (all \o rest)[i] = all[i]
    BY <1>4, JoinFacts
  <2>2. i \in 1..Len(all \o rest)
    BY <2>1
  <2>3. (all \o rest)[i].id > 0 => (all \o rest)[i].id \in (0 + 1)..(written + n)
    BY <1>7, <2>2 DEF Flow
  <2> QED
    BY <2>1, <2>3
<1>16. \A l \in lines' : l.message.id > 0 => \E i \in 1..Len(all) : all[i] = l.message
  BY <1>3, <1>4, <1>8, DecodedInOrder
<1>17. \A l \in lines' : l.message.id \in Nat
  <2>1. \A l \in Decoded(all) : l.message \in LineMessages
    BY <1>12
  <2> QED
    BY <2>1, <1>3, LineMessageFacts
<1>18. \A l \in lines' : l.message.id <= written'
  BY <1>3, <1>7, <1>15, <1>16, <1>17
<1>19. \A l \in lines' : OlderThan(l.message.id, buffered', written')
  BY <1>14, <1>18 DEF OlderThan
<1>20. \A r \in ids : r <= written'
  <2> TAKE r \in ids
  <2>1. PICK i \in Begun(all) : r = all[i].id
    OBVIOUS
  <2>2. i \in 1..Len(all) /\ all[i].id > 0
    BY <2>1, <1>4 DEF Begun
  <2> QED
    BY <2>1, <2>2, <1>15, <1>3
<1>21. \A r \in ids : OlderThan(r, buffered', written')
  BY <1>14, <1>20 DEF OlderThan
<1>22. ASSUME NEW r \in Nat, Before(r)
       PROVE  OlderThan(r, buffered', written') /\ \A l \in lines' : l.message.id > 0 => r < l.message.id
  <2>1. \A i \in 1..Len(all) : all[i].id > 0 => r < all[i].id
    BY <1>6, <1>22 DEF Before
  <2>2. \A l \in lines' : l.message.id > 0 => r < l.message.id
    BY <2>1, <1>16
  <2>3. r <= written'
    BY <1>2, <1>3, <1>22 DEF Before, OlderThan
  <2>4. \A k \in 1..Len(buffered') : buffered'[k].id > 0 => r < buffered'[k].id
    <3> TAKE k \in 1..Len(buffered')
    <3>1. PICK i \in 1..Len(all) : buffered'[k] = all[i]
      <4> DEFINE s == Start(all, Len(all) + 1)
      <4>1. /\ s \in 1..(Len(all) + 1) /\ Len(Rest(all)) = Len(all) + 1 - s
            /\ \A i \in 1..Len(Rest(all)) : Rest(all)[i] = all[s - 1 + i]
        BY <1>4, RestFacts
      <4>2. Len(all) \in Nat
        BY <1>4
      <4> HIDE DEF s
      <4>3. s - 1 + k \in 1..Len(all)
        BY <4>1, <4>2, <1>3
      <4> QED
        BY <4>1, <4>3, <1>3
    <3> QED
      BY <3>1, <2>1
  <2> QED
    BY <2>2, <2>3, <2>4 DEF OlderThan
<1> HIDE DEF ids
<1>23. unanswered \subseteq unanswered' /\ unanswered' \subseteq Requests
  BY <1>3, <1>14 DEF PeerTypes, RegistryTypes
<1>24. \A r \in unanswered' : r \in unanswered \/ r \in ids
  BY <1>3
<1>25. \A l \in Asks(lines') : l.message.id \in unanswered'
  BY <1>3, <1>14
<1>26. written' \in 0..MaxMessages /\ unread' \in Seq(Marks) /\ buffered' \in Seq(Marks)
  BY <1>3, <1>4, <1>7, <1>9
<1>27. lines' \subseteq [at : Nat, message : LineMessages]
  BY <1>3, <1>12
<1> QED
  BY <1>11, <1>13, <1>14, <1>19, <1>21, <1>22, <1>23, <1>24, <1>25, <1>26, <1>27 DEF ChunkBrings

(* Queues *)

\* The handler of x gives an answer in the end.
Works(x) == x.type \notin {"session/cancel", "chosen"}

\* Prompts and cancels stand in the order of their messages, and none is older than what was acted upon.
Ordered(q, h) ==
    /\ \A i \in 1..Len(q) : q[i].type \in Acts => h <= q[i].id
    /\ \A i, j \in 1..Len(q) : i < j /\ q[i].type \in Acts /\ q[j].type \in Acts => q[i].id <= q[j].id

\* No request is queued twice.
Distinct(q) == \A i, j \in 1..Len(q) : i # j /\ Works(q[i]) /\ Works(q[j]) => q[i].id # q[j].id

\* What a queue holds when one is put behind.
LEMMA RangeAppend ==
    ASSUME NEW S, NEW q \in Seq(S), NEW x \in S
    PROVE  Append(q, x) \in Seq(S) /\ Range(Append(q, x)) = Range(q) \cup {x}
<1> DEFINE p == Append(q, x)
<1>1. p \in Seq(S) /\ Len(p) = Len(q) + 1 /\ Len(q) \in Nat /\ p[Len(q) + 1] = x /\ \A i \in 1..Len(q) : p[i] = q[i]
  OBVIOUS
<1>2. DOMAIN p = 1..Len(p) /\ DOMAIN q = 1..Len(q)
  BY <1>1
<1> HIDE DEF p
<1>3. ASSUME NEW y \in Range(p) PROVE y \in Range(q) \cup {x}
  <2>1. PICK i \in 1..Len(p) : y = p[i]
    BY <1>2 DEF Range
  <2>2. i \in 1..Len(q) \/ i = Len(q) + 1
    BY <1>1
  <2> QED
    BY <2>1, <2>2, <1>1, <1>2 DEF Range
<1>4. ASSUME NEW y \in Range(q) \cup {x} PROVE y \in Range(p)
  <2>1. CASE y \in Range(q)
    <3>1. PICK i \in 1..Len(q) : y = q[i]
      BY <1>2, <2>1 DEF Range
    <3>2. i \in 1..Len(p) /\ y = p[i]
      BY <1>1, <3>1
    <3> QED
      BY <3>2, <1>2 DEF Range
  <2>2. CASE y = x
    <3>1. Len(q) + 1 \in 1..Len(p)
      BY <1>1
    <3> QED
      BY <2>2, <3>1, <1>1, <1>2 DEF Range
  <2> QED
    BY <2>1, <2>2
<1> QED
  BY <1>1, <1>3, <1>4 DEF p

\* The first of a queue, and the rest.
LEMMA TailFacts ==
    ASSUME NEW S, NEW q \in Seq(S), q # <<>>
    PROVE  /\ Head(q) \in S /\ Head(q) = q[1] /\ 1 \in 1..Len(q)
           /\ Tail(q) \in Seq(S) /\ Len(Tail(q)) = Len(q) - 1 /\ Len(q) \in Nat
           /\ \A i \in 1..Len(Tail(q)) : Tail(q)[i] = q[i + 1] /\ i + 1 \in 1..Len(q)
<1>1. Len(q) \in Nat /\ Len(q) > 0
  OBVIOUS
<1>2. Tail(q) \in Seq(S) /\ Len(Tail(q)) = Len(q) - 1 /\ \A i \in 1..Len(Tail(q)) : Tail(q)[i] = q[i + 1]
  BY <1>1
<1> QED
  BY <1>1, <1>2

\* A queue holds its first and what the rest holds.
LEMMA RangeTail ==
    ASSUME NEW S, NEW q \in Seq(S), q # <<>>
    PROVE  Head(q) \in Range(q) /\ Range(q) = Range(Tail(q)) \cup {Head(q)}
<1> DEFINE p == Tail(q)
<1>1. /\ Head(q) \in S /\ Head(q) = q[1] /\ 1 \in 1..Len(q)
      /\ p \in Seq(S) /\ Len(p) = Len(q) - 1 /\ Len(q) \in Nat
      /\ \A i \in 1..Len(p) : p[i] = q[i + 1] /\ i + 1 \in 1..Len(q)
  BY TailFacts
<1> HIDE DEF p
<1>2. DOMAIN p = 1..Len(p) /\ DOMAIN q = 1..Len(q)
  BY <1>1
<1>3. ASSUME NEW y \in Range(q) PROVE y \in Range(p) \cup {Head(q)}
  <2>1. PICK i \in 1..Len(q) : y = q[i]
    BY <1>2 DEF Range
  <2>2. CASE i = 1
    BY <2>1, <2>2, <1>1
  <2>3. CASE i # 1
    <3>1. i - 1 \in 1..Len(p) /\ (i - 1) + 1 = i
      BY <2>3, <1>1
    <3>2. y = p[i - 1]
      BY <3>1, <2>1, <1>1
    <3> QED
      BY <3>1, <3>2, <1>2 DEF Range
  <2> QED
    BY <2>2, <2>3
<1>4. ASSUME NEW y \in Range(p) \cup {Head(q)} PROVE y \in Range(q)
  <2>1. CASE y \in Range(p)
    <3>1. PICK i \in 1..Len(p) : y = p[i]
      BY <1>2, <2>1 DEF Range
    <3> QED
      BY <3>1, <1>1, <1>2 DEF Range
  <2>2. CASE y = Head(q)
    BY <2>2, <1>1, <1>2 DEF Range
  <2> QED
    BY <2>1, <2>2
<1> QED
  BY <1>3, <1>4 DEF p

\* Order stays when a younger one is put behind.
LEMMA OrderedAppend ==
    ASSUME NEW q \in Seq(Jobs), NEW h, NEW x \in Jobs, Ordered(q, h),
           x.type \in Acts => h <= x.id /\ \A y \in Range(q) : y.type \in Acts => y.id <= x.id
    PROVE  Ordered(Append(q, x), h)
<1> DEFINE p == Append(q, x)
<1>1. Len(p) = Len(q) + 1 /\ Len(q) \in Nat /\ p[Len(q) + 1] = x /\ \A i \in 1..Len(q) : p[i] = q[i]
  OBVIOUS
<1>2. \A i \in 1..Len(q) : q[i] \in Range(q)
  BY DEF Range
<1> HIDE DEF p
<1>3. \A i \in 1..Len(p) : i \in 1..Len(q) \/ i = Len(q) + 1
  BY <1>1
<1>4. \A i, j \in 1..Len(p) : i < j => i \in 1..Len(q)
  BY <1>1
<1> QED
  BY <1>1, <1>2, <1>3, <1>4 DEF Ordered, p

\* Order stays when the first goes, and that is not younger than the rest.
LEMMA OrderedTail ==
    ASSUME NEW q \in Seq(Jobs), q # <<>>, NEW h, Ordered(q, h)
    PROVE  /\ Ordered(Tail(q), h)
           /\ Head(q).type \in Acts => Ordered(Tail(q), Head(q).id) /\ h <= Head(q).id
<1> DEFINE p == Tail(q)
<1>1. /\ Head(q) = q[1] /\ 1 \in 1..Len(q)
      /\ Len(p) = Len(q) - 1 /\ Len(q) \in Nat
      /\ \A i \in 1..Len(p) : p[i] = q[i + 1] /\ i + 1 \in 1..Len(q)
  BY TailFacts
<1> HIDE DEF p
<1>2. \A i \in 1..Len(p) : 1 < i + 1
  BY <1>1
<1>3. \A i, j \in 1..Len(p) : i < j => i + 1 < j + 1
  BY <1>1
<1> QED
  BY <1>1, <1>2, <1>3 DEF Ordered, p

\* No request is queued twice if a new one is put behind.
LEMMA DistinctAppend ==
    ASSUME NEW q \in Seq(Jobs), NEW x \in Jobs, Distinct(q),
           Works(x) => \A y \in Range(q) : Works(y) => y.id # x.id
    PROVE  Distinct(Append(q, x))
<1> DEFINE p == Append(q, x)
<1>1. Len(p) = Len(q) + 1 /\ Len(q) \in Nat /\ p[Len(q) + 1] = x /\ \A i \in 1..Len(q) : p[i] = q[i]
  OBVIOUS
<1>2. \A i \in 1..Len(q) : q[i] \in Range(q)
  BY DEF Range
<1> HIDE DEF p
<1>3. \A i \in 1..Len(p) : i \in 1..Len(q) \/ i = Len(q) + 1
  BY <1>1
<1> QED
  BY <1>1, <1>2, <1>3 DEF Distinct, p

\* Nor when the first goes, which the rest does not hold.
LEMMA DistinctTail ==
    ASSUME NEW q \in Seq(Jobs), q # <<>>, Distinct(q)
    PROVE  /\ Distinct(Tail(q))
           /\ Works(Head(q)) => \A y \in Range(Tail(q)) : Works(y) => y.id # Head(q).id
<1> DEFINE p == Tail(q)
<1>1. /\ Head(q) = q[1] /\ 1 \in 1..Len(q) /\ p \in Seq(Jobs)
      /\ Len(p) = Len(q) - 1 /\ Len(q) \in Nat
      /\ \A i \in 1..Len(p) : p[i] = q[i + 1] /\ i + 1 \in 1..Len(q)
  BY TailFacts
<1> HIDE DEF p
<1>2. \A i \in 1..Len(p) : 1 # i + 1
  BY <1>1
<1>3. \A i, j \in 1..Len(p) : i # j => i + 1 # j + 1
  BY <1>1
<1>4. Distinct(p)
  BY <1>1, <1>3 DEF Distinct
<1>5. \A y \in Range(p) : \E i \in 1..Len(p) : y = p[i]
  BY <1>1 DEF Range
<1>6. Works(Head(q)) => \A y \in Range(p) : Works(y) => y.id # Head(q).id
  BY <1>1, <1>2, <1>5 DEF Distinct
<1> QED
  BY <1>4, <1>6 DEF p

\* What a queue holds has its type.
LEMMA RangeJobs ==
    ASSUME NEW S, NEW q \in Seq(S)
    PROVE  Range(q) \subseteq S /\ (q = <<>> => Range(q) = {})
BY DEF Range

\* Each request that was read and not answered is at one place: a line, a reaction, the turn t, or a session of S
\* that starts; of ls the lines, q the reactions, and u the requests not answered.  Once nothing is sent (c), u stays.
Placed(c, ls, q, t, S, u) ==
    /\ Distinct(q)
    /\ \A x \in Range(q) : Works(x) => x.id \in u /\ x.id # t /\ x.id \notin S /\ \A l \in Asks(ls) : l.message.id # x.id
    /\ \A l \in Asks(ls) : l.message.id \in u /\ l.message.id # t /\ l.message.id \notin S
    /\ t \notin S /\ (t # 0 => t \in u) /\ S \subseteq u
    /\ ~ c /\ (\A l \in ls : l.message # TooLong) =>
          \A r \in u : \/ r = t \/ r \in S
                       \/ \E l \in Asks(ls) : l.message.id = r
                       \/ \E x \in Range(q) : Works(x) /\ x.id = r

\* The outcome of the turn, or of a session that starts, is queued: the request moves.
LEMMA PlacedAppend ==
    ASSUME NEW c \in BOOLEAN, NEW ls, NEW q \in Seq(Jobs), NEW t, NEW S, NEW u, Placed(c, ls, q, t, S, u), 0 \notin S, 0 \notin u,
           NEW x \in Jobs
    PROVE  /\ ~ Works(x) => Placed(c, ls, Append(q, x), t, S, u)
           /\ Works(x) /\ x.id = t => Placed(c, ls, Append(q, x), 0, S, u)
           /\ Works(x) /\ x.id \in S => Placed(c, ls, Append(q, x), t, S \ {x.id}, u)
<1> DEFINE p == Append(q, x)
<1>1. Range(p) = Range(q) \cup {x}
  BY RangeAppend
<1>2. (Works(x) => \A y \in Range(q) : Works(y) => y.id # x.id) => Distinct(p)
  BY DistinctAppend DEF Placed
<1>3. x.id # 0
  BY DEF Jobs, Requests
<1> HIDE DEF p
<1>4. ASSUME ~ Works(x) PROVE Placed(c, ls, p, t, S, u)
  BY <1>1, <1>2, <1>4 DEF Placed
<1>5. ASSUME Works(x), x.id = t PROVE Placed(c, ls, p, 0, S, u)
  <2>1. Distinct(p)
    BY <1>2, <1>5 DEF Placed
  <2>2. \A y \in Range(q) : Works(y) => y.id # 0
    BY DEF Placed
  <2>3. \A l \in Asks(ls) : l.message.id # 0
    BY DEF Placed
  <2> QED
    BY <1>1, <1>3, <1>5, <2>1, <2>2, <2>3 DEF Placed
<1>6. ASSUME Works(x), x.id \in S PROVE Placed(c, ls, p, t, S \ {x.id}, u)
  <2>1. Distinct(p)
    BY <1>2, <1>6 DEF Placed
  <2> QED
    BY <1>1, <1>3, <1>6, <2>1 DEF Placed
<1> QED
  BY <1>4, <1>5, <1>6 DEF p

\* The first reaction runs: its request is answered, starts a session, or becomes the turn.
LEMMA PlacedHead ==
    ASSUME NEW c \in BOOLEAN, NEW ls, NEW q \in Seq(Jobs), q # <<>>, NEW t, NEW S, NEW u, Placed(c, ls, q, t, S, u), 0 \notin S, 0 \notin u
    PROVE  /\ ~ Works(Head(q)) => Placed(c, ls, Tail(q), t, S, u)
           /\ Works(Head(q)) => /\ Head(q).id \in u
                                /\ Placed(c, ls, Tail(q), t, S, u \ {Head(q).id})
                                /\ Placed(c, ls, Tail(q), t, S \cup {Head(q).id}, u)
                                /\ t = 0 => Placed(c, ls, Tail(q), Head(q).id, S, u)
<1> DEFINE h == Head(q)
           p == Tail(q)
<1>1. p \in Seq(Jobs) /\ h \in Range(q) /\ h \in Jobs /\ Range(q) = Range(p) \cup {h}
  BY RangeTail, TailFacts
<1>2. Distinct(p) /\ (Works(h) => \A y \in Range(p) : Works(y) => y.id # h.id)
  BY DistinctTail DEF Placed
<1> HIDE DEF h, p
<1>3. h.id # 0
  BY <1>1 DEF Jobs, Requests
<1>4. ASSUME ~ Works(h) PROVE Placed(c, ls, p, t, S, u)
  BY <1>1, <1>2, <1>4 DEF Placed
<1>5. ASSUME Works(h) PROVE h.id \in u
  BY <1>1, <1>5 DEF Placed
<1>6. ASSUME Works(h) PROVE Placed(c, ls, p, t, S, u \ {h.id})
  BY <1>1, <1>2, <1>3, <1>6 DEF Placed
<1>7. ASSUME Works(h) PROVE Placed(c, ls, p, t, S \cup {h.id}, u)
  BY <1>1, <1>2, <1>3, <1>7 DEF Placed
<1>8. ASSUME Works(h), t = 0 PROVE Placed(c, ls, p, h.id, S, u)
  BY <1>1, <1>2, <1>3, <1>8 DEF Placed
<1> QED
  BY <1>4, <1>5, <1>6, <1>7, <1>8 DEF h, p

\* A line is handled: its request is answered or queued.
LEMMA PlacedLine ==
    ASSUME NEW c \in BOOLEAN, NEW ls, NEW q \in Seq(Jobs), NEW t, NEW S, NEW u, Placed(c, ls, q, t, S, u), 0 \notin S, 0 \notin u,
           NEW l \in ls, l.message # TooLong
    PROVE  /\ l.message.type \notin Methods => Placed(c, ls \ {l}, q, t, S, u)
           /\ l.message.type \in Methods /\ (\A k \in Asks(ls) : k # l => k.message.id # l.message.id) =>
                 /\ l.message.id \in u
                 /\ Placed(c, ls \ {l}, q, t, S, u \ {l.message.id})
                 /\ \A x \in Jobs : Works(x) /\ x.id = l.message.id => Placed(c, ls \ {l}, Append(q, x), t, S, u)
<1>1. Asks(ls \ {l}) = Asks(ls) \ {l} /\ (l.message.type \in Methods <=> l \in Asks(ls))
  BY DEF Asks
<1>2. (\A k \in ls \ {l} : k.message # TooLong) => \A k \in ls : k.message # TooLong
  OBVIOUS
<1>3. ASSUME l.message.type \notin Methods PROVE Placed(c, ls \ {l}, q, t, S, u)
  <2>1. Asks(ls \ {l}) = Asks(ls)
    BY <1>1, <1>3
  <2> QED
    BY <1>2, <2>1 DEF Placed
<1>4. ASSUME l.message.type \in Methods, \A k \in Asks(ls) : k # l => k.message.id # l.message.id
      PROVE  /\ l.message.id \in u
             /\ Placed(c, ls \ {l}, q, t, S, u \ {l.message.id})
             /\ \A x \in Jobs : Works(x) /\ x.id = l.message.id => Placed(c, ls \ {l}, Append(q, x), t, S, u)
  <2> DEFINE a == l.message.id
  <2>1. a \in u /\ a # t /\ a \notin S /\ a # 0 /\ \A y \in Range(q) : Works(y) => y.id # a
    BY <1>1, <1>4 DEF Placed
  <2>2. \A k \in Asks(ls \ {l}) : k \in Asks(ls) /\ k.message.id # a
    BY <1>1, <1>4
  <2>3. \A k \in Asks(ls) : k = l \/ k \in Asks(ls \ {l})
    BY <1>1
  <2> DEFINE ks == ls \ {l}
  <2>4. ~ c /\ (\A k \in ks : k.message # TooLong) =>
          \A r \in u : r = t \/ r \in S \/ r = a \/ (\E k \in Asks(ks) : k.message.id = r)
                       \/ \E y \in Range(q) : Works(y) /\ y.id = r
    BY <1>2, <2>3 DEF Placed
  <2> HIDE DEF a, ks
  <2>5. Placed(c, ks, q, t, S, u \ {a})
    BY <2>1, <2>2, <2>4 DEF Placed, ks
  <2>6. ASSUME NEW x \in Jobs, Works(x), x.id = a PROVE Placed(c, ks, Append(q, x), t, S, u)
    <3>1. Range(Append(q, x)) = Range(q) \cup {x}
      BY RangeAppend
    <3>2. Distinct(Append(q, x))
      BY <2>1, <2>6, DistinctAppend DEF Placed
    <3> DEFINE p == Append(q, x)
    <3> HIDE DEF p
    <3>3. Range(p) = Range(q) \cup {x} /\ Distinct(p)
      BY <3>1, <3>2 DEF p
    <3>4. Placed(c, ks, p, t, S, u)
      BY <3>3, <2>1, <2>2, <2>4, <2>6 DEF Placed, ks
    <3> QED
      BY <3>4 DEF p
  <2> QED
    BY <2>1, <2>5, <2>6 DEF a, ks
<1> QED
  BY <1>3, <1>4

\* Once nothing is sent, a request that loses its place is still not answered.
LEMMA PlacedSilent ==
    ASSUME NEW ls, NEW q, NEW t, NEW S, NEW u, NEW r, r \in u, Placed(TRUE, ls, q, t, S, u \ {r})
    PROVE  Placed(TRUE, ls, q, t, S, u)
BY DEF Placed

\* No request for a session of D, which is open, or was, is still to be handled.
Opened(ls, q, S, D) ==
    /\ D \cap S = {}
    /\ \A s \in D : Message("session/new", s) \notin Range(q) /\ \A l \in ls : l.message # Message("session/new", s)

\* A request for a session is queued only from its line.
LEMMA OpenedAppend ==
    ASSUME NEW ls, NEW q \in Seq(Jobs), NEW S, NEW D, Opened(ls, q, S, D), NEW x \in Jobs,
           x.type # "session/new" \/ \E l \in ls : l.message = x
    PROVE  Opened(ls, Append(q, x), S, D)
<1>1. Range(Append(q, x)) = Range(q) \cup {x}
  BY RangeAppend
<1>2. \A s : Message("session/new", s).type = "session/new"
  BY DEF Message
<1> QED
  BY <1>1, <1>2 DEF Opened

\* When it is handled, its session is none of those that were open.
LEMMA OpenedHead ==
    ASSUME NEW ls, NEW q \in Seq(Jobs), q # <<>>, NEW S, NEW D, Opened(ls, q, S, D)
    PROVE  /\ Opened(ls, Tail(q), S, D)
           /\ Head(q).type = "session/new" => Opened(ls, Tail(q), S \cup {Head(q).id}, D)
<1>1. Range(q) = Range(Tail(q)) \cup {Head(q)} /\ Head(q) \in Jobs
  BY RangeTail, TailFacts
<1>2. Head(q).type = "session/new" => Head(q) = Message("session/new", Head(q).id)
  BY <1>1 DEF Jobs, Message
<1> QED
  BY <1>1, <1>2 DEF Opened

\* The prompts and cancels among the lines come after those among the reactions, and after the one acted upon last.
Follow(ls, q, h) ==
    /\ Ordered(q, h)
    /\ \A l \in ls : l.message.id > 0 => h <= l.message.id /\ \A x \in Range(q) : x.type \in Acts => x.id <= l.message.id

\* An outcome disturbs no order.
LEMMA FollowAppend ==
    ASSUME NEW ls, NEW q \in Seq(Jobs), NEW h, Follow(ls, q, h), NEW x \in Jobs, x.type \notin Acts
    PROVE  Follow(ls, Append(q, x), h)
<1>1. Ordered(Append(q, x), h)
  BY OrderedAppend DEF Follow
<1>2. Range(Append(q, x)) = Range(q) \cup {x}
  BY RangeAppend
<1> QED
  BY <1>1, <1>2 DEF Follow

\* The first prompt or cancel is not older than the one acted upon last.
LEMMA FollowHead ==
    ASSUME NEW ls, NEW q \in Seq(Jobs), q # <<>>, NEW h, Follow(ls, q, h)
    PROVE  /\ Follow(ls, Tail(q), h)
           /\ Head(q).type \in Acts => Follow(ls, Tail(q), Head(q).id) /\ h <= Head(q).id
<1>1. Ordered(Tail(q), h) /\ (Head(q).type \in Acts => Ordered(Tail(q), Head(q).id) /\ h <= Head(q).id)
  BY OrderedTail DEF Follow
<1>2. Range(q) = Range(Tail(q)) \cup {Head(q)}
  BY RangeTail
<1> QED
  BY <1>1, <1>2 DEF Follow

\* The least line may be queued behind all.
LEMMA FollowLine ==
    ASSUME NEW ls, NEW q \in Seq(Jobs), NEW h, Follow(ls, q, h), NEW l \in ls,
           \A k \in ls : k # l /\ k.message.id > 0 /\ l.message.id > 0 => l.message.id <= k.message.id
    PROVE  /\ Follow(ls \ {l}, q, h)
           /\ \A x \in Jobs : x.id = l.message.id => Follow(ls \ {l}, Append(q, x), h)
<1>1. Follow(ls \ {l}, q, h)
  BY DEF Follow
<1>2. ASSUME NEW x \in Jobs, x.id = l.message.id PROVE Follow(ls \ {l}, Append(q, x), h)
  <2>1. Range(Append(q, x)) = Range(q) \cup {x}
    BY RangeAppend
  <2>2. l.message.id > 0
    BY <1>2 DEF Jobs, Requests
  <2>3. Ordered(Append(q, x), h)
    BY <1>2, <2>2, OrderedAppend DEF Follow
  <2> QED
    BY <1>1, <1>2, <2>1, <2>2, <2>3 DEF Follow
<1> QED
  BY <1>1, <1>2

(* The invariant *)

\* What a handler comes to.
Outcomes == {"result", "error", "unserializable"}

\* The sessions that are open, or are to be disposed of.
Open == Range(registered) \cup Range(toDispose)

\* The sessions whose start has no outcome yet.
Starting == {s \in Sessions : session[s] = "starting"}

\* All that is known of a message was read.
Heard ==
    /\ \A l \in lines : Before(l.message.id)
    /\ \A x \in Range(jobs) : Before(x.id)
    /\ \A s \in Starting : Before(s)
    /\ \A r \in unanswered : Before(r)
    /\ \A s \in Open : Before(s)
    /\ Before(turn) /\ Before(handled)

\* The invariant of the process while it runs.
PeerRuns ==
    /\ Pipe /\ Heard /\ LinesInOrder /\ Follow(lines, jobs, handled)
    /\ Placed(closed, lines, jobs, turn, Starting, unanswered) /\ Opened(lines, jobs, Starting, Open)

\* Which sessions can have a child, at every stage of the way out.
SessionsLeft ==
    /\ phase = "up" => /\ toDispose = <<>> /\ ~forced /\ 0 \in Range(registered)
                       /\ \A s \in Sessions : /\ session[s] \notin {"ending", "abandoned"}
                                              /\ session[s] = "live" => s \in Range(registered)
    /\ phase = "cleaning" => /\ ~forced
                             /\ \A s \in Sessions : session[s] \in {"live", "ending"} => s \in Range(toDispose) \cup tracked
    /\ phase \in {"sweeping", "flushing", "exited"} /\ ~forced =>
           /\ toDispose = <<>>
           /\ \A s \in Sessions \ late : session[s] \in {"none", "starting"} \/ (s = 0 /\ session[s] = "abandoned")

\* What came to a prompt is to be told,
Queued(r) == \E x \in Range(jobs) : x.type \in Outcomes /\ x.id = r

\* or is waited for, with the child, before the disposal goes on.
Waited(r) == turn = r /\ session[0] = "ending" /\ 0 \in Range(toDispose)

\* The answer of r is on its way, or was read.
Kept(r) ==
    \/ r \in delivered
    \/ phase = "cleaning" /\ Waited(r)
    \/ phase \notin {"flushing", "exited"} /\ Queued(r)
    \/ phase # "exited" /\ ~(phase = "flushing" /\ flushed) /\ \E f \in out : f.id = r

\* The answer that the disposal owes is not lost, unless the deadline fires, nobody reads or nothing is sent.
OwedIsKept ==
    /\ phase = "up" => owed = {}
    /\ ~closed /\ ~broken /\ ~forced /\ (phase = "exited" => flushed) => \A r \in owed : Kept(r)

\* That runTurn has its child is queued once, and nothing else happens to the turn until then.
ChosenOnce(q, where) ==
    /\ \A i, j \in 1..Len(q) : q[i].type = "chosen" /\ q[j].type = "chosen" => i = j
    /\ \A i \in 1..Len(q) : q[i].type = "chosen" => where = "chosen"

\* While a turn has not returned, the session takes no other prompt.
TurnHeld ==
    /\ turn \in {0, busy} /\ (turnAt = "none" <=> turn = 0)
    /\ ChosenOnce(jobs, turnAt)

\* The inductive invariant.
PeerInv == PeerTypes /\ SessionsLeft /\ OwedIsKept /\ TurnHeld /\ ~twice /\ (Running => PeerRuns)

\* What is queued besides leaves that as it is, and may be behind it.
LEMMA ChosenAppend ==
    ASSUME NEW q \in Seq(Jobs), NEW x \in Jobs, NEW where, ChosenOnce(q, where)
    PROVE  /\ x.type # "chosen" => ChosenOnce(Append(q, x), where)
           /\ where # "chosen" => ChosenOnce(Append(q, x), "chosen")
<1> DEFINE p == Append(q, x)
<1>1. Len(p) = Len(q) + 1 /\ Len(q) \in Nat /\ p[Len(q) + 1] = x /\ \A i \in 1..Len(q) : p[i] = q[i]
  OBVIOUS
<1> HIDE DEF p
<1>2. \A i \in 1..Len(p) : i \in 1..Len(q) \/ i = Len(q) + 1
  BY <1>1
<1> QED
  BY <1>1, <1>2 DEF ChosenOnce, p

\* Where none is queued, it does not matter where the turn is.
LEMMA NoneChosen ==
    ASSUME NEW q, NEW where, where # "chosen", ChosenOnce(q, where), NEW other
    PROVE  ChosenOnce(q, other)
BY DEF ChosenOnce

\* When it is the first, it is not queued again.
LEMMA ChosenTail ==
    ASSUME NEW q \in Seq(Jobs), q # <<>>, NEW where, ChosenOnce(q, where)
    PROVE  /\ ChosenOnce(Tail(q), where)
           /\ Head(q).type = "chosen" => where = "chosen" /\ \A other : ChosenOnce(Tail(q), other)
<1> DEFINE p == Tail(q)
<1>1. /\ Head(q) = q[1] /\ 1 \in 1..Len(q)
      /\ Len(p) = Len(q) - 1 /\ Len(q) \in Nat
      /\ \A i \in 1..Len(p) : p[i] = q[i + 1] /\ i + 1 \in 1..Len(q)
  BY TailFacts
<1> HIDE DEF p
<1>2. \A i \in 1..Len(p) : 1 # i + 1
  BY <1>1
<1>3. \A i, j \in 1..Len(p) : i + 1 = j + 1 => i = j
  BY <1>1
<1> QED
  BY <1>1, <1>2, <1>3 DEF ChosenOnce, p

\* A turn that nothing touches is held on,
LEMMA StillHeld ==
    ASSUME TurnHeld, UNCHANGED <<turn, turnAt, busy>>,
           \/ jobs' = jobs
           \/ jobs \in Seq(Jobs) /\ \E x \in Jobs : x.type # "chosen" /\ jobs' = Append(jobs, x)
    PROVE  TurnHeld'
BY ChosenAppend DEF TurnHeld

\* and one that returned is none.
LEMMA HeldNoMore ==
    ASSUME TurnHeld, jobs \in Seq(Jobs), turnAt # "chosen", NEW x \in Jobs, x.type # "chosen", jobs' = Append(jobs, x),
           turn' = 0, turnAt' = "none", busy' = busy
    PROVE  TurnHeld'
<1>1. ChosenOnce(Append(jobs, x), turnAt)
  BY ChosenAppend DEF TurnHeld
<1>2. ChosenOnce(Append(jobs, x), "none")
  BY <1>1, NoneChosen
<1> QED
  BY <1>2 DEF TurnHeld

\* 0 names no request.
LEMMA NoRequestIsZero ==
    ASSUME PeerTypes
    PROVE  0 \notin Starting /\ 0 \notin unanswered /\ handled \in Nat /\ turn \in Nat /\ written \in Nat
           /\ Starting \subseteq Nat /\ unanswered \subseteq Nat /\ Starting \subseteq Requests
BY DEF PeerTypes, RegistryTypes, Starting, Requests, Sessions

\* Everything that names a message is a number.
LEMMA IdsAreNumbers ==
    ASSUME PeerTypes
    PROVE  /\ \A l \in lines : l.message.id \in Nat
           /\ \A x \in Range(jobs) : x.id \in Nat
           /\ \A s \in Starting : s \in Nat
           /\ \A r \in unanswered : r \in Nat
           /\ \A s \in Open : s \in Nat
           /\ turn \in Nat /\ handled \in Nat
<1>1. \A l \in lines : l.message \in LineMessages
  BY DEF PeerTypes, RegistryTypes
<1>2. \A l \in lines : l.message.id \in Nat
  BY <1>1, LineMessageFacts
<1>3. Range(jobs) \subseteq Jobs /\ Range(registered) \subseteq Sessions /\ Range(toDispose) \subseteq Sessions
  BY RangeJobs DEF PeerTypes, RegistryTypes
<1>4. \A x \in Range(jobs) : x.id \in Nat
  BY <1>3 DEF Jobs, Requests
<1>5. \A s \in Open : s \in Nat
  BY <1>3 DEF Open, Sessions, Requests
<1> QED
  BY <1>2, <1>4, <1>5, NoRequestIsZero

\* What was older stays so when the buffers are left, or emptied.
LEMMA PipeStays ==
    ASSUME PeerTypes, Pipe, UNCHANGED inputVars \/ (unread' = <<>> /\ buffered' = <<>> /\ written' = written)
    PROVE  /\ Pipe' /\ written' = written
           /\ \A r \in Nat : Before(r) => Before(r)'
           /\ Before(0)'
<1>1. CASE UNCHANGED inputVars
  <2>1. Pipe' /\ \A r \in Nat : Before(r) => Before(r)'
    BY <1>1 DEF Pipe, Before, OlderThan, inputVars
  <2>2. Before(0)
    BY DEF PeerTypes, RegistryTypes, Before, OlderThan
  <2> QED
    BY <1>1, <2>1, <2>2 DEF inputVars
<1>2. CASE unread' = <<>> /\ buffered' = <<>> /\ written' = written
  <2>1. <<>> \in Seq(Marks) /\ <<>> \o <<>> \in Seq(Marks) /\ Len(<<>> \o <<>>) = 0 /\ Len(<<>>) = 0
    OBVIOUS
  <2>2. <<>> \o <<>> = <<>>
    OBVIOUS
  <2>3. Flow(<<>>, 0, written)
    BY DEF Flow
  <2>4. Pipe'
    BY <1>2, <2>1, <2>2, <2>3 DEF Pipe
  <2>5. 0 <= written /\ written \in Nat
    BY DEF PeerTypes, RegistryTypes
  <2> QED
    BY <1>2, <2>1, <2>4, <2>5 DEF Before, OlderThan
<1> QED
  BY <1>1, <1>2

\* What an event leaves alone that reads nothing and answers nothing; it may end the input, or all.
Steady ==
    /\ UNCHANGED inputVars \/ (unread' = <<>> /\ buffered' = <<>> /\ written' = written)
    /\ UNCHANGED <<handled, unanswered>> /\ closed' \in BOOLEAN /\ (closed => closed')
    /\ lines' = lines \/ (closed' /\ \E l \in lines : l.message = TooLong /\ lines' = lines \ {l})

\* What such an event leaves of the invariant.
LEMMA SteadyRuns ==
    ASSUME PeerTypes, PeerRuns, Steady
    PROVE  /\ Pipe' /\ LinesInOrder' /\ lines' \subseteq lines
           /\ \A r \in Nat : Before(r) => Before(r)'
           /\ Before(0)'
           /\ \A q, h : Follow(lines, q, h) => Follow(lines', q, h)
           /\ \A q, S, D : Opened(lines, q, S, D) => Opened(lines', q, S, D)
           /\ \A q, t, S, u : Placed(closed, lines, q, t, S, u) => Placed(closed', lines', q, t, S, u)
<1>1. Pipe' /\ (\A r \in Nat : Before(r) => Before(r)') /\ Before(0)'
  BY PipeStays DEF PeerRuns, Steady
<1>2. lines' \subseteq lines
  BY DEF Steady
<1>3. LinesInOrder'
  BY <1>2 DEF PeerRuns, LinesInOrder
<1>4. \A q, h : Follow(lines, q, h) => Follow(lines', q, h)
  BY <1>2 DEF Follow
<1>5. \A q, S, D : Opened(lines, q, S, D) => Opened(lines', q, S, D)
  BY <1>2 DEF Opened
<1>6. ASSUME NEW q, NEW t, NEW S, NEW u, Placed(closed, lines, q, t, S, u)
      PROVE  Placed(closed', lines', q, t, S, u)
  <2>1. Asks(lines') \subseteq Asks(lines)
    BY <1>2 DEF Asks
  <2>2. ~ closed' => ~ closed /\ lines' = lines
    BY DEF Steady
  <2> QED
    BY <1>6, <2>1, <2>2 DEF Placed
<1> QED
  BY <1>1, <1>2, <1>3, <1>4, <1>5, <1>6

\* And of all of it, if it touches neither the reactions nor the turn.
LEMMA StillRuns ==
    ASSUME PeerTypes, PeerRuns, Steady, UNCHANGED <<jobs, turn>>, Starting' = Starting, Open' \subseteq Open
    PROVE  PeerRuns'
<1>1. Pipe' /\ LinesInOrder' /\ lines' \subseteq lines /\ (\A r \in Nat : Before(r) => Before(r)')
  BY SteadyRuns
<1>2. UNCHANGED <<jobs, turn, handled, unanswered>>
  BY DEF Steady
<1>3. Heard'
  <2>1. /\ \A l \in lines : l.message.id \in Nat
        /\ \A x \in Range(jobs) : x.id \in Nat
        /\ \A s \in Starting : s \in Nat
        /\ \A r \in unanswered : r \in Nat
        /\ \A s \in Open : s \in Nat
        /\ turn \in Nat /\ handled \in Nat
    BY IdsAreNumbers
  <2> QED
    BY <1>1, <1>2, <2>1 DEF PeerRuns, Heard
<1>4. Follow(lines, jobs, handled)'
  BY <1>2, SteadyRuns DEF PeerRuns
<1>5. Placed(closed, lines, jobs, turn, Starting, unanswered)'
  BY <1>2, SteadyRuns DEF PeerRuns
<1>6. Opened(lines, jobs, Starting, Open)'
  <2>1. Opened(lines', jobs, Starting, Open)
    BY SteadyRuns DEF PeerRuns
  <2> QED
    BY <1>2, <2>1 DEF Opened
<1> QED
  BY <1>1, <1>3, <1>4, <1>5, <1>6 DEF PeerRuns

\* A reaction is queued for what the turn, or a session that started, came to.
LEMMA ReactionRuns ==
    ASSUME PeerTypes, PeerRuns, Steady,
           NEW x \in Jobs, jobs' = Append(jobs, x),
           \/ x.type \in Outcomes /\ x.id = turn /\ turn' = 0 /\ Starting' = Starting /\ Open' \subseteq Open
           \/ /\ x.type \in Outcomes /\ x.id \in Starting /\ turn' = turn /\ Starting' = Starting \ {x.id}
              /\ Open' \subseteq Open \cup {x.id}
           \/ x.type = "chosen" /\ x.id = turn /\ turn' = turn /\ Starting' = Starting /\ Open' = Open
    PROVE  PeerRuns'
<1>1. /\ Pipe' /\ LinesInOrder' /\ lines' \subseteq lines
      /\ (\A r \in Nat : Before(r) => Before(r)') /\ Before(0)'
  BY SteadyRuns
<1>2. UNCHANGED <<handled, unanswered>>
  BY DEF Steady
<1>3. jobs \in Seq(Jobs) /\ (Works(x) <=> x.type \in Outcomes) /\ x.type \notin Acts /\ x.type # "session/new"
  BY DEF PeerTypes, RegistryTypes, Works, Acts, Outcomes
<1>4. Range(jobs') = Range(jobs) \cup {x}
  BY <1>3, RangeAppend
<1>5. Before(x.id)
  BY DEF PeerRuns, Heard
<1>6. Heard'
  <2>1. /\ \A l \in lines : l.message.id \in Nat
        /\ \A y \in Range(jobs) : y.id \in Nat
        /\ \A s \in Starting : s \in Nat
        /\ \A r \in unanswered : r \in Nat
        /\ \A s \in Open : s \in Nat
        /\ turn \in Nat /\ handled \in Nat
    BY IdsAreNumbers
  <2>2. x.id \in Nat
    BY DEF Jobs, Requests
  <2> QED
    BY <1>1, <1>2, <1>4, <1>5, <2>1, <2>2 DEF PeerRuns, Heard
<1>8. Follow(lines, jobs, handled)'
  <2>1. Follow(lines, jobs', handled)
    BY <1>3, FollowAppend DEF PeerRuns
  <2> QED
    BY <1>2, <2>1, SteadyRuns
<1>9. Placed(closed', lines', jobs', turn', Starting', unanswered')
  <2>1. Placed(closed, lines, jobs, turn, Starting, unanswered) /\ closed \in BOOLEAN
    BY DEF PeerRuns, PeerTypes, RegistryTypes
  <2>2. /\ Works(x) /\ x.id = turn => Placed(closed, lines, jobs', 0, Starting, unanswered)
        /\ Works(x) /\ x.id \in Starting => Placed(closed, lines, jobs', turn, Starting \ {x.id}, unanswered)
        /\ ~ Works(x) => Placed(closed, lines, jobs', turn, Starting, unanswered)
    BY <1>3, <2>1, NoRequestIsZero, PlacedAppend
  <2>3. Placed(closed, lines, jobs', turn', Starting', unanswered)
    <3>1. x.type = "chosen" => x.type \notin Outcomes
      BY DEF Outcomes
    <3> QED
      BY <1>3, <2>2, <3>1
  <2> QED
    BY <1>2, <2>3, SteadyRuns
<1>10. Opened(lines', jobs', Starting', Open')
  <2>1. Opened(lines, jobs', Starting, Open)
    BY <1>3, OpenedAppend DEF PeerRuns
  <2>2. ASSUME x.id \in Starting
        PROVE  Message("session/new", x.id) \notin Range(jobs') /\ \A l \in lines : l.message # Message("session/new", x.id)
    <3> DEFINE m == Message("session/new", x.id)
    <3>1. m.id = x.id /\ m.type = "session/new" /\ m.type \in Methods /\ Works(m)
      BY DEF Message, Works, Methods
    <3> HIDE DEF m
    <3>2. m \notin Range(jobs) /\ \A l \in lines : l.message # m
      BY <3>1, <2>2 DEF PeerRuns, Placed, Asks
    <3>3. x # m
      BY <1>3, <3>1
    <3> QED
      BY <1>4, <3>2, <3>3 DEF m
  <2>3. Starting' \subseteq Starting
    OBVIOUS
  <2>4. Opened(lines, jobs', Starting', Open')
    BY <2>1, <2>2, <2>3 DEF Opened
  <2> QED
    BY <2>4, SteadyRuns
<1> QED
  BY <1>1, <1>6, <1>8, <1>9, <1>10 DEF PeerRuns

\* An answer may still be on its way, wherever it was.
LEMMA StillKept ==
    ASSUME OwedIsKept, UNCHANGED <<owed, phase, forced, flushed, broken>>, closed => closed', delivered \subseteq delivered',
           \A x \in Range(jobs) : x.type \in Outcomes => x \in Range(jobs'),
           UNCHANGED <<turn, session, toDispose>> \/ \A r \in owed : Waited(r) => Waited(r)' \/ Queued(r)',
           out \subseteq out'
    PROVE  OwedIsKept'
<1>0. \A r \in owed : Waited(r) => Waited(r)' \/ Queued(r)'
  BY DEF Waited
<1>01. \A r \in owed : Queued(r) => Queued(r)'
  BY DEF Queued
<1>1. \A r \in owed : Kept(r) => Kept(r)'
  BY <1>0, <1>01 DEF Kept
<1> QED
  BY <1>1 DEF OwedIsKept

\* SessionsLeft depends on the sessions and the stage only.
LEMMA StillLeft ==
    ASSUME SessionsLeft, UNCHANGED <<session, registered, toDispose, tracked, phase, forced, late>>
    PROVE  SessionsLeft'
BY DEF SessionsLeft

\* Results may be put behind: nothing is lost.
LEMMA OnlyMore ==
    ASSUME NEW S, NEW q \in Seq(S), NEW x \in S
    PROVE  \A y \in Range(q) : y \in Range(Append(q, x))
BY RangeAppend

\* The turn is settled: it returns, or goes on.
LEMMA SettledFacts ==
    ASSUME PeerTypes, NEW q \in Seq(Jobs), Settled(q), ChosenOnce(q, turnAt), turn \in {0, busy}, turnAt = "none" <=> turn = 0
    PROVE  /\ TurnHeld' /\ jobs' \in Seq(Jobs) /\ turn' \in {0} \cup Requests /\ busy' = busy
           /\ turnAt' \in {"none", turnAt} /\ turnOpen' \in BOOLEAN
           /\ \/ jobs' = q /\ turn' = turn
              \/ turn # 0 /\ Message("result", turn) \in Jobs /\ jobs' = Append(q, Message("result", turn)) /\ turn' = 0
           /\ \A r \in Requests : turn = r => turn' = r \/ Queued(r)'
<1>0. turn \in {0} \cup Requests
  BY DEF PeerTypes, RegistryTypes
<1>1. CASE turnAt = "sent"
  <2>1. /\ jobs' = Append(q, Message("result", turn)) /\ turn' = 0 /\ turnAt' = "none" /\ turnOpen' = FALSE
        /\ busy' = busy
    BY <1>1 DEF Settled, Returns
  <2>2. turn \in Requests /\ turn # 0
    BY <1>0, <1>1
  <2> DEFINE x == Message("result", turn)
  <2>3. x \in Jobs /\ x.type = "result" /\ x.id = turn
    BY <2>2 DEF Message, Jobs, JobTypes
  <2> HIDE DEF x
  <2>4. jobs' = Append(q, x)
    BY <2>1 DEF x
  <2>5. jobs' \in Seq(Jobs) /\ x \in Range(jobs')
    BY <2>3, <2>4, RangeAppend
  <2>6. TurnHeld'
    <3>1. ChosenOnce(Append(q, x), turnAt)
      BY <2>3, ChosenAppend
    <3>2. ChosenOnce(Append(q, x), "none")
      BY <1>1, <3>1, NoneChosen
    <3> QED
      BY <2>1, <2>4, <3>2 DEF TurnHeld
  <2>7. \A r \in Requests : turn = r => Queued(r)'
    BY <2>3, <2>5 DEF Queued, Outcomes
  <2> QED
    BY <2>1, <2>2, <2>3, <2>4, <2>5, <2>6, <2>7 DEF x
<1>2. CASE turnAt # "sent"
  <2>1. jobs' = q /\ turnOpen' = FALSE /\ UNCHANGED <<turn, turnAt, busy>>
    BY <1>2 DEF Settled
  <2> QED
    BY <1>0, <2>1 DEF TurnHeld
<1> QED
  BY <1>1, <1>2

\* The exit begins.
LEMMA BeginFacts ==
    ASSUME PeerTypes, SessionsLeft, TurnHeld, Begin(jobs), UNCHANGED <<forced, late>>
    PROVE  /\ Starting' = Starting /\ SessionsLeft' /\ TurnHeld' /\ Open' \subseteq Open
           /\ jobs' \in Seq(Jobs) /\ owed' \subseteq Requests /\ RegistryTypes'
           /\ phase' \in {"up", "cleaning", "sweeping", "flushing", "exited"}
           /\ \/ jobs' = jobs /\ turn' = turn
              \/ turn # 0 /\ Message("result", turn) \in Jobs /\ jobs' = Append(jobs, Message("result", turn)) /\ turn' = 0
           /\ \/ phase = "up" /\ phase' = "cleaning" /\ \A r \in owed' : Waited(r)' \/ Queued(r)'
              \/ phase # "up" /\ UNCHANGED <<phase, jobs, owed, turn, session, toDispose>>
<1>1. CASE phase = "up"
  <2> DEFINE state == IF DriverIsNull THEN "abandoned" ELSE "ending"
  <2>1. /\ phase' = "cleaning" /\ toDispose' = registered /\ registered' = <<>>
        /\ session' = [session EXCEPT ![0] = state]
        /\ Settled(jobs) /\ owed' = (IF DriverIsNull THEN {} ELSE {turn} \ {0}) /\ tracked' = tracked
    BY <1>1 DEF Begin
  <2>2. /\ 0 \in Sessions /\ session \in [Sessions -> {"none", "starting", "live", "ending", "abandoned"}]
        /\ session[0] # "starting" /\ \A s \in Sessions : session[s] = "abandoned" => s = 0
        /\ state \in {"abandoned", "ending"} /\ (~ DriverIsNull => state = "ending")
    BY DEF PeerTypes, RegistryTypes, Sessions
  <2> HIDE DEF state
  <2>3. /\ session' \in [Sessions -> {"none", "starting", "live", "ending", "abandoned"}] /\ session'[0] = state
        /\ \A s \in Sessions : s # 0 => session'[s] = session[s]
    BY <2>1, <2>2
  <2>4. Starting' = Starting
    BY <2>2, <2>3 DEF Starting
  <2>5. /\ ~ forced /\ 0 \in Range(registered)
        /\ \A s \in Sessions : session[s] \notin {"ending", "abandoned"} /\ (session[s] = "live" => s \in Range(registered))
    BY <1>1 DEF SessionsLeft
  <2>6. \A s \in Sessions : session'[s] \in {"live", "ending"} => s \in Range(toDispose') \cup tracked'
    BY <2>1, <2>3, <2>5
  <2>7. SessionsLeft'
    BY <2>1, <2>5, <2>6 DEF SessionsLeft
  <2>8. Open' \subseteq Open
    <3>1. Range(<<>>) = {}
      BY DEF Range
    <3> QED
      BY <2>1, <3>1 DEF Open
  <2>9. /\ TurnHeld' /\ jobs' \in Seq(Jobs) /\ turn' \in {0} \cup Requests /\ busy' = busy
        /\ turnAt' \in {"none", turnAt} /\ turnOpen' \in BOOLEAN
        /\ \/ jobs' = jobs /\ turn' = turn
           \/ turn # 0 /\ Message("result", turn) \in Jobs /\ jobs' = Append(jobs, Message("result", turn)) /\ turn' = 0
        /\ \A r \in Requests : turn = r => turn' = r \/ Queued(r)'
    <3>1. jobs \in Seq(Jobs) /\ ChosenOnce(jobs, turnAt) /\ turn \in {0, busy} /\ (turnAt = "none" <=> turn = 0)
      BY DEF PeerTypes, RegistryTypes, TurnHeld
    <3> QED
      BY <2>1, <3>1, SettledFacts
  <2>10. RegistryTypes'
    <3>1. \A s \in Sessions : session'[s] = "abandoned" => s = 0
      BY <2>2, <2>3
    <3>2. session'[0] # "starting"
      BY <2>2, <2>3
    <3>3. registered' \in Seq(Sessions) /\ toDispose' \in Seq(Sessions) /\ tracked' \subseteq Sessions
      BY <2>1 DEF PeerTypes, RegistryTypes
    <3>4. busy' \in {0} \cup Requests
          /\ turnAt' \in {"none", "replacing", "probing", "dropping", "chosen", "sent", "puttingAway"}
      BY <2>9 DEF PeerTypes, RegistryTypes
    <3> QED
      BY <2>3, <2>9, <3>1, <3>2, <3>3, <3>4 DEF RegistryTypes
  <2>11. owed' \subseteq Requests /\ \A r \in owed' : r = turn /\ session'[0] = "ending" /\ 0 \in Range(toDispose')
    <3>1. turn \in {0} \cup Requests
      BY DEF PeerTypes, RegistryTypes
    <3> QED
      BY <2>1, <2>2, <2>3, <2>5, <3>1
  <2>12. \A r \in owed' : Waited(r)' \/ Queued(r)'
    BY <2>9, <2>11 DEF Waited
  <2> QED
    BY <1>1, <2>1, <2>4, <2>7, <2>8, <2>9, <2>10, <2>11, <2>12
<1>2. CASE phase # "up"
  <2>1. UNCHANGED <<jobs, phase, session, turn, turnAt, turnOpen, busy, registered, toDispose, tracked, owed>>
    BY <1>2 DEF Begin, registryVars, promptVars
  <2>2. SessionsLeft' /\ Starting' = Starting /\ Open' = Open /\ TurnHeld'
    BY <2>1, StillLeft, StillHeld DEF Starting, Open
  <2>3. RegistryTypes'
    BY <2>1 DEF PeerTypes, RegistryTypes
  <2> QED
    BY <1>2, <2>1, <2>2, <2>3 DEF PeerTypes
<1> QED
  BY <1>1, <1>2

(* Every event keeps it *)

\* The client stops reading.
LEMMA PipeBreaksKeeps ==
    ASSUME PeerInv, PipeBreaks
    PROVE  PeerInv'
<1>0. PeerTypes /\ SessionsLeft /\ OwedIsKept /\ TurnHeld /\ ~twice /\ Running /\ PeerRuns
  BY DEF PeerInv, Waiting, PipeBreaks
<1>1. PeerTypes'
  BY <1>0 DEF PeerTypes, RegistryTypes, PipeBreaks, inputVars, registryVars, promptVars, exitVars, historyVars, replyVars
<1>2. SessionsLeft'
  BY <1>0, StillLeft DEF PipeBreaks, inputVars, registryVars, promptVars, exitVars, historyVars, replyVars
<1>3. OwedIsKept'
  BY <1>0 DEF OwedIsKept, PipeBreaks, exitVars, historyVars
<1>4. Running' => PeerRuns'
  <2>1. Starting' = Starting /\ Open' = Open
    BY DEF PipeBreaks, Starting, Open, inputVars, registryVars, promptVars, exitVars, historyVars, replyVars
  <2> QED
    BY <1>0, <2>1, StillRuns DEF Steady, PeerTypes, RegistryTypes, PipeBreaks, inputVars, registryVars, promptVars, exitVars, historyVars, replyVars
<1>5. TurnHeld'
  BY <1>0, StillHeld DEF PipeBreaks, registryVars, promptVars
<1> QED
  BY <1>0, <1>1, <1>2, <1>3, <1>4, <1>5 DEF PeerInv, PipeBreaks, inputVars, registryVars, promptVars, exitVars, historyVars, replyVars

\* The client reads what was written.
LEMMA DeliversKeeps ==
    ASSUME PeerInv, Delivers
    PROVE  PeerInv'
<1>0. PeerTypes /\ SessionsLeft /\ OwedIsKept /\ TurnHeld /\ ~twice /\ Running /\ PeerRuns
  BY DEF PeerInv, Waiting, Delivers
<1>1. PeerTypes'
  BY <1>0 DEF PeerTypes, RegistryTypes, Delivers, inputVars, registryVars, promptVars, exitVars, historyVars, replyVars
<1>2. SessionsLeft'
  BY <1>0, StillLeft DEF Delivers, inputVars, registryVars, promptVars, exitVars, historyVars, replyVars
<1>3. OwedIsKept'
  <2>1. \A r \in owed : Kept(r) => r \in delivered' \/ (phase \notin {"flushing", "exited"} /\ Queued(r))
                                     \/ (phase = "cleaning" /\ Waited(r))
    BY DEF Kept, Delivers
  <2>2. \A r \in owed : Kept(r) => Kept(r)'
    BY <2>1 DEF Kept, Delivers, Queued, Waited, registryVars, promptVars
  <2>3. UNCHANGED <<owed, phase, forced, closed, broken>> /\ phase # "exited"
    BY DEF Delivers, Running, historyVars
  <2> QED
    BY <1>0, <2>2, <2>3 DEF OwedIsKept
<1>4. Running' => PeerRuns'
  <2>1. Starting' = Starting /\ Open' = Open
    BY DEF Delivers, Starting, Open, inputVars, registryVars, promptVars, exitVars, historyVars, replyVars
  <2> QED
    BY <1>0, <2>1, StillRuns DEF Steady, PeerTypes, RegistryTypes, Delivers, inputVars, registryVars, promptVars, exitVars, historyVars, replyVars
<1>5. TurnHeld'
  BY <1>0, StillHeld DEF Delivers, registryVars, promptVars
<1> QED
  BY <1>0, <1>1, <1>2, <1>3, <1>4, <1>5 DEF PeerInv, Delivers, inputVars, registryVars, promptVars, exitVars, historyVars, replyVars

\* A permission is asked for.
LEMMA CallStartsKeeps ==
    ASSUME PeerInv, CallStarts
    PROVE  PeerInv'
<1>0. PeerTypes /\ SessionsLeft /\ OwedIsKept /\ TurnHeld /\ ~twice /\ Running /\ PeerRuns
  BY DEF PeerInv, Waiting, CallStarts
<1>05. out \subseteq Frames /\ Message("call", 0) \in Frames /\ (out' = out \/ out' = out \cup {Message("call", 0)})
  BY <1>0 DEF PeerTypes, RegistryTypes, CallStarts, Sent, Frames, Message
<1>1. PeerTypes'
  <2>1. out' \subseteq Frames
    BY <1>05
  <2> QED
    BY <1>0, <2>1 DEF PeerTypes, RegistryTypes, CallStarts, inputVars, registryVars, promptVars, exitVars, historyVars, replyVars
<1>2. SessionsLeft'
  BY <1>0, StillLeft DEF CallStarts, Sent, inputVars, registryVars, promptVars, exitVars, historyVars, replyVars
<1>3. OwedIsKept'
  <2>1. out \subseteq out'
    BY <1>05
  <2> QED
    BY <1>0, <2>1, StillKept DEF CallStarts, inputVars, registryVars, promptVars, exitVars, historyVars, replyVars
<1>4. Running' => PeerRuns'
  <2>1. Starting' = Starting /\ Open' = Open
    BY DEF CallStarts, Sent, Starting, Open, inputVars, registryVars, promptVars, exitVars, historyVars, replyVars
  <2> QED
    BY <1>0, <2>1, StillRuns DEF Steady, PeerTypes, RegistryTypes, CallStarts, Sent, inputVars, registryVars, promptVars, exitVars, historyVars, replyVars
<1>5. TurnHeld'
  BY <1>0, StillHeld DEF CallStarts, registryVars, promptVars
<1> QED
  BY <1>0, <1>1, <1>2, <1>3, <1>4, <1>5 DEF PeerInv, CallStarts, Sent, inputVars, registryVars, promptVars, exitVars, historyVars, replyVars

\* And not answered in time.
LEMMA CallTimesOutKeeps ==
    ASSUME PeerInv, CallTimesOut
    PROVE  PeerInv'
<1>0. PeerTypes /\ SessionsLeft /\ OwedIsKept /\ TurnHeld /\ ~twice /\ Running /\ PeerRuns
  BY DEF PeerInv, Waiting, CallTimesOut
<1>1. PeerTypes'
  BY <1>0 DEF PeerTypes, RegistryTypes, CallTimesOut, inputVars, registryVars, promptVars, exitVars, historyVars, replyVars
<1>2. SessionsLeft'
  BY <1>0, StillLeft DEF CallTimesOut, inputVars, registryVars, promptVars, exitVars, historyVars, replyVars
<1>3. OwedIsKept'
  BY <1>0, StillKept DEF CallTimesOut, inputVars, registryVars, promptVars, exitVars, historyVars, replyVars
<1>4. Running' => PeerRuns'
  <2>1. Starting' = Starting /\ Open' = Open
    BY DEF CallTimesOut, Starting, Open, inputVars, registryVars, promptVars, exitVars, historyVars, replyVars
  <2> QED
    BY <1>0, <2>1, StillRuns DEF Steady, PeerTypes, RegistryTypes, CallTimesOut, inputVars, registryVars, promptVars, exitVars, historyVars, replyVars
<1>5. TurnHeld'
  BY <1>0, StillHeld DEF CallTimesOut, registryVars, promptVars
<1> QED
  BY <1>0, <1>1, <1>2, <1>3, <1>4, <1>5 DEF PeerInv, CallTimesOut, inputVars, registryVars, promptVars, exitVars, historyVars, replyVars

\* The child of a session that ends is gone.
LEMMA ChildGoesKeeps ==
    ASSUME PeerInv, NEW s \in Sessions, ChildGoes(s)
    PROVE  PeerInv'
<1>0. PeerTypes /\ SessionsLeft /\ OwedIsKept /\ TurnHeld /\ ~twice /\ Running /\ PeerRuns
  BY DEF PeerInv, Waiting, ChildGoes
<1>1. PeerTypes'
  BY <1>0 DEF PeerTypes, RegistryTypes, ChildGoes, inputVars, registryVars, promptVars, exitVars, historyVars, replyVars
<1>2. SessionsLeft'
  <2>1. \A k \in Sessions : session'[k] = session[k] \/ session'[k] = "none"
    BY <1>0 DEF ChildGoes, PeerTypes, RegistryTypes
  <2> QED
    BY <1>0, <2>1 DEF SessionsLeft, ChildGoes, exitVars, historyVars
<1>3. OwedIsKept'
  <2>1. owed \subseteq Requests /\ 0 \notin Requests
    BY <1>0 DEF PeerTypes, Requests
  <2>2. \A r \in owed : Waited(r) => Waited(r)'
    <3> TAKE r \in owed
    <3> HAVE Waited(r)
    <3>1. s # 0
      BY <2>1 DEF Waited, ChildGoes
    <3>2. 0 \in Sessions /\ session \in [Sessions -> {"none", "starting", "live", "ending", "abandoned"}]
      BY <1>0 DEF PeerTypes, RegistryTypes, Sessions
    <3>3. session'[0] = session[0]
      BY <3>1, <3>2 DEF ChildGoes
    <3> QED
      BY <3>3 DEF Waited, ChildGoes, promptVars
  <2> QED
    BY <1>0, <2>2, StillKept DEF ChildGoes, inputVars, registryVars, promptVars, exitVars, historyVars, replyVars
<1>4. Running' => PeerRuns'
  <2>1. Starting' = Starting /\ Open' = Open
    BY <1>0 DEF ChildGoes, Starting, Open, PeerTypes, RegistryTypes
  <2> QED
    BY <1>0, <2>1, StillRuns DEF Steady, PeerTypes, RegistryTypes, ChildGoes, inputVars, registryVars, promptVars, exitVars, historyVars, replyVars
<1>5. TurnHeld'
  BY <1>0, StillHeld DEF ChildGoes, registryVars, promptVars
<1> QED
  BY <1>0, <1>1, <1>2, <1>3, <1>4, <1>5 DEF PeerInv, ChildGoes, inputVars, registryVars, promptVars, exitVars, historyVars, replyVars

\* The next session is disposed of.
LEMMA DisposalGoesOnKeeps ==
    ASSUME PeerInv, DisposalGoesOn
    PROVE  PeerInv'
<1>0. PeerTypes /\ SessionsLeft /\ OwedIsKept /\ TurnHeld /\ ~twice /\ Running /\ PeerRuns
  BY DEF PeerInv, Waiting, DisposalGoesOn
<1>05. /\ Head(toDispose) \in Sessions /\ Tail(toDispose) \in Seq(Sessions)
       /\ Range(toDispose) = Range(Tail(toDispose)) \cup {Head(toDispose)}
       /\ (Tail(toDispose) # <<>> => Head(Tail(toDispose)) \in Range(Tail(toDispose)))
  BY <1>0, RangeTail, TailFacts DEF DisposalGoesOn, PeerTypes, RegistryTypes
<1>06. \A s \in Sessions : session'[s] = session[s] \/ (session'[s] = "ending" /\ s \in Range(Tail(toDispose)))
  BY <1>05 DEF DisposalGoesOn
<1>1. PeerTypes'
  <2>1. session' \in [Sessions -> {"none", "starting", "live", "ending", "abandoned"}] /\ session'[0] # "starting"
    BY <1>0 DEF PeerTypes, RegistryTypes, DisposalGoesOn, Sessions
  <2>2. \A s \in Sessions : session'[s] = "abandoned" => s = 0
    BY <1>0, <1>06 DEF PeerTypes, RegistryTypes
  <2>3. /\ toDispose' = Tail(toDispose)
        /\ UNCHANGED <<written, unread, buffered, lines, jobs, input, closed, broken, call, out, delivered, turn, turnAt>>
        /\ UNCHANGED <<turnOpen, busy, registered, tracked, phase, forced, flushed, unanswered, twice, handled, owed, late>>
    BY DEF DisposalGoesOn, inputVars, promptVars, exitVars, historyVars, replyVars
  <2>4. RegistryTypes'
    BY <1>0, <1>05, <2>1, <2>2, <2>3 DEF PeerTypes, RegistryTypes
  <2> QED
    BY <1>0, <2>3, <2>4 DEF PeerTypes
<1>2. SessionsLeft'
  <2>1. UNCHANGED <<tracked, phase, forced, late, registered>> /\ toDispose' = Tail(toDispose)
        /\ toDispose # <<>> /\ session[Head(toDispose)] \in {"none", "abandoned"}
    BY DEF DisposalGoesOn, exitVars, historyVars
  <2> QED
    BY <1>0, <1>05, <1>06, <2>1 DEF SessionsLeft
<1>3. OwedIsKept'
  <2>1. \A r \in owed : Waited(r) => Waited(r)'
    <3> TAKE r \in owed
    <3> HAVE Waited(r)
    <3>1. session[Head(toDispose)] # "ending" /\ toDispose' = Tail(toDispose) /\ turn' = turn
      BY DEF DisposalGoesOn, promptVars
    <3>2. 0 \in Range(Tail(toDispose)) /\ 0 \in Sessions
      BY <1>05, <3>1 DEF Waited, Sessions
    <3>3. session'[0] = "ending"
      BY <1>06, <3>2 DEF Waited
    <3> QED
      BY <3>1, <3>2, <3>3 DEF Waited
  <2> QED
    BY <1>0, <2>1, StillKept DEF DisposalGoesOn, inputVars, registryVars, promptVars, exitVars, historyVars, replyVars
<1>4. Running' => PeerRuns'
  <2>1. Starting' = Starting
    <3>1. \A s \in Range(Tail(toDispose)) : s \notin Starting
      BY <1>0, <1>05 DEF PeerRuns, Opened, Open
    <3> QED
      BY <1>06, <3>1 DEF Starting
  <2>2. Open' \subseteq Open
    BY <1>05 DEF Open, DisposalGoesOn
  <2> QED
    BY <1>0, <2>1, <2>2, StillRuns DEF Steady, PeerTypes, RegistryTypes, DisposalGoesOn, inputVars, registryVars, promptVars, exitVars, historyVars, replyVars
<1>5. TurnHeld'
  BY <1>0, StillHeld DEF DisposalGoesOn, registryVars, promptVars
<1> QED
  BY <1>0, <1>1, <1>2, <1>3, <1>4, <1>5 DEF PeerInv, DisposalGoesOn, inputVars, registryVars, promptVars, exitVars, historyVars, replyVars

\* A turn has its outcome.
LEMMA TurnEndsKeeps ==
    ASSUME PeerInv, TurnEnds
    PROVE  PeerInv'
<1>0. PeerTypes /\ SessionsLeft /\ OwedIsKept /\ TurnHeld /\ ~twice /\ Running /\ PeerRuns
  BY DEF PeerInv, Waiting, TurnEnds
<1>05. PICK outcome \in {"result", "error", "unserializable"} : jobs' = Append(jobs, Message(outcome, turn))
  BY DEF TurnEnds, Returns
<1>06. turn \in Requests /\ Message(outcome, turn) \in Jobs /\ Message(outcome, turn).type \in Outcomes
       /\ Message(outcome, turn).id = turn /\ jobs \in Seq(Jobs)
  BY <1>0 DEF TurnEnds, TurnHeld, PeerTypes, RegistryTypes, Message, Jobs, JobTypes, Outcomes
<1>1. PeerTypes'
  <2>1. jobs' \in Seq(Jobs) /\ turn' = 0 /\ turnAt' = "none" /\ turnOpen' = FALSE /\ busy' = busy
    BY <1>05, <1>06 DEF TurnEnds, Returns
  <2> QED
    BY <1>0, <2>1 DEF PeerTypes, RegistryTypes, TurnEnds, inputVars, registryVars, promptVars, exitVars, historyVars, replyVars
<1>2. SessionsLeft'
  BY <1>0, StillLeft DEF TurnEnds, inputVars, registryVars, promptVars, exitVars, historyVars, replyVars
<1>3. OwedIsKept'
  <2>1. \A y \in Range(jobs) : y \in Range(jobs')
    BY <1>05, <1>06, OnlyMore
  <2>2. Message(outcome, turn) \in Range(jobs')
    BY <1>05, <1>06, RangeAppend
  <2>3. \A r \in owed : Waited(r) => Queued(r)'
    BY <1>06, <2>2 DEF Waited, Queued
  <2> QED
    BY <1>0, <2>1, <2>3, StillKept DEF TurnEnds, inputVars, registryVars, promptVars, exitVars, historyVars, replyVars
<1>4. Running' => PeerRuns'
  <2>1. Starting' = Starting /\ Open' = Open /\ turn' = 0
    BY DEF TurnEnds, Returns, Starting, Open
  <2>2. Steady
    BY <1>0 DEF Steady, TurnEnds, PeerTypes, RegistryTypes, inputVars, registryVars, promptVars, exitVars, historyVars, replyVars
  <2> QED
    BY <1>0, <1>05, <1>06, <2>1, <2>2, ReactionRuns
<1>5. TurnHeld'
  BY <1>0, <1>05, <1>06, HeldNoMore DEF TurnEnds, Returns, Outcomes
<1> QED
  BY <1>0, <1>1, <1>2, <1>3, <1>4, <1>5 DEF PeerInv, TurnEnds, inputVars, registryVars, promptVars, exitVars, historyVars, replyVars

\* The turn waits for its child, which is replaced, launched or dropped.
LEMMA ChildMovesKeeps ==
    ASSUME PeerInv, NEW from, NEW to \in {"replacing", "probing", "dropping"}, ChildMoves(from, to), from \notin {"none", "chosen"},
           jobs' = jobs, turnOpen' \in BOOLEAN
    PROVE  PeerInv'
<1>0. PeerTypes /\ SessionsLeft /\ OwedIsKept /\ TurnHeld /\ ~twice /\ Running /\ PeerRuns
  BY DEF PeerInv, Waiting, ChildMoves
<1>01. /\ turnAt = from /\ turnAt' = to /\ UNCHANGED <<turn, busy, jobs, session, registered, toDispose, tracked>>
       /\ UNCHANGED <<written, unread, buffered, lines, input, closed, broken, call, out, delivered,
                      phase, forced, flushed, unanswered, twice, handled, owed, late>>
  BY DEF ChildMoves, inputVars, exitVars, historyVars, replyVars
<1>1. PeerTypes'
  BY <1>0, <1>01 DEF PeerTypes, RegistryTypes
<1>2. SessionsLeft'
  BY <1>0, <1>01, StillLeft
<1>3. OwedIsKept'
  BY <1>0, <1>01, StillKept
<1>4. Running' => PeerRuns'
  <2>1. Starting' = Starting /\ Open' = Open
    BY <1>01 DEF Starting, Open
  <2>2. Steady
    BY <1>0, <1>01 DEF Steady, PeerTypes, inputVars
  <2> QED
    BY <1>0, <1>01, <2>1, <2>2, StillRuns
<1>5. TurnHeld'
  <2>1. turnAt # "chosen" /\ turnAt # "none"
    BY <1>01
  <2>2. ChosenOnce(jobs, to)
    BY <1>0, <2>1 DEF TurnHeld, ChosenOnce
  <2> QED
    BY <1>0, <1>01, <2>1, <2>2 DEF TurnHeld
<1> QED
  BY <1>0, <1>01, <1>1, <1>2, <1>3, <1>4, <1>5 DEF PeerInv

\* It is launched, and has told its conversation.
LEMMA ProbedKeeps ==
    ASSUME PeerInv, Probed
    PROVE  PeerInv'
<1>0. PeerTypes /\ SessionsLeft /\ OwedIsKept /\ TurnHeld /\ ~twice /\ Running /\ PeerRuns
  BY DEF PeerInv, Waiting, Probed, ChildMoves
<1> DEFINE x == Message("chosen", turn)
<1>01. /\ turnAt = "probing" /\ turnAt' = "chosen" /\ jobs' = Append(jobs, x)
       /\ UNCHANGED <<turn, turnOpen, busy, session, registered, toDispose, tracked>>
       /\ UNCHANGED <<written, unread, buffered, lines, input, closed, broken, call, out, delivered,
                      phase, forced, flushed, unanswered, twice, handled, owed, late>>
  BY DEF Probed, ChildMoves, inputVars, exitVars, historyVars, replyVars
<1>02. x \in Jobs /\ x.type = "chosen" /\ x.id = turn /\ jobs \in Seq(Jobs)
  <2>1. turn \in Requests
    BY <1>0, <1>01 DEF TurnHeld, PeerTypes, RegistryTypes
  <2> QED
    BY <1>0, <2>1 DEF Message, Jobs, JobTypes, PeerTypes
<1> HIDE DEF x
<1>1. PeerTypes'
  <2>1. jobs' \in Seq(Jobs)
    BY <1>01, <1>02
  <2> QED
    BY <1>0, <1>01, <2>1 DEF PeerTypes, RegistryTypes
<1>2. SessionsLeft'
  BY <1>0, <1>01, StillLeft
<1>3. OwedIsKept'
  <2>1. \A y \in Range(jobs) : y \in Range(jobs')
    BY <1>01, <1>02, OnlyMore
  <2> QED
    BY <1>0, <1>01, <2>1, StillKept
<1>4. Running' => PeerRuns'
  <2>1. Starting' = Starting /\ Open' = Open
    BY <1>01 DEF Starting, Open
  <2>2. Steady
    BY <1>0, <1>01 DEF Steady, PeerTypes, inputVars
  <2> QED
    BY <1>0, <1>01, <1>02, <2>1, <2>2, ReactionRuns
<1>5. TurnHeld'
  <2>1. ChosenOnce(Append(jobs, x), "chosen")
    BY <1>0, <1>01, <1>02, ChosenAppend DEF TurnHeld
  <2> QED
    BY <1>0, <1>01, <2>1 DEF TurnHeld
<1> QED
  BY <1>0, <1>01, <1>1, <1>2, <1>3, <1>4, <1>5 DEF PeerInv

\* The turn returns without a child.
LEMMA TurnChildGoesKeeps ==
    ASSUME PeerInv, TurnChildGoes
    PROVE  PeerInv'
<1>0. PeerTypes /\ SessionsLeft /\ OwedIsKept /\ TurnHeld /\ ~twice /\ Running /\ PeerRuns
  BY DEF PeerInv, Waiting, TurnChildGoes
<1> DEFINE x == Message(IF turnOpen THEN "error" ELSE "result", turn)
<1>01. /\ turnAt \in {"probing", "dropping", "puttingAway"} /\ jobs' = Append(jobs, x)
       /\ turn' = 0 /\ turnAt' = "none" /\ turnOpen' = FALSE /\ busy' = busy
       /\ session' = [session EXCEPT ![0] = IF @ = "live" THEN @ ELSE "none"]
       /\ UNCHANGED <<registered, toDispose, tracked>>
       /\ UNCHANGED <<written, unread, buffered, lines, input, closed, broken, call, out, delivered,
                      phase, forced, flushed, unanswered, twice, handled, owed, late>>
  BY DEF TurnChildGoes, Returns, inputVars, exitVars, historyVars, replyVars
<1>02. x \in Jobs /\ x.type \in Outcomes /\ x.type # "chosen" /\ x.id = turn /\ jobs \in Seq(Jobs)
  <2>1. turn \in Requests
    BY <1>0, <1>01 DEF TurnHeld, PeerTypes, RegistryTypes
  <2> QED
    BY <1>0, <2>1 DEF Message, Jobs, JobTypes, PeerTypes, Outcomes
<1> HIDE DEF x
<1>03. session' \in [Sessions -> {"none", "starting", "live", "ending", "abandoned"}]
       /\ \A s \in Sessions : session'[s] = session[s] \/ (session'[s] = "none" /\ s = 0 /\ session[s] # "live")
  <2>1. 0 \in Sessions /\ session \in [Sessions -> {"none", "starting", "live", "ending", "abandoned"}]
    BY <1>0 DEF PeerTypes, RegistryTypes, Sessions
  <2> QED
    BY <1>01, <2>1
<1>1. PeerTypes'
  <2>1. jobs' \in Seq(Jobs)
    BY <1>01, <1>02
  <2>2. session'[0] # "starting" /\ \A s \in Sessions : session'[s] = "abandoned" => s = 0
    BY <1>0, <1>03 DEF PeerTypes, RegistryTypes, Sessions
  <2> QED
    BY <1>0, <1>01, <1>03, <2>1, <2>2 DEF PeerTypes, RegistryTypes
<1>2. SessionsLeft'
  BY <1>0, <1>01, <1>03 DEF SessionsLeft
<1>3. OwedIsKept'
  <2>1. jobs' \in Seq(Jobs) /\ Range(jobs') = Range(jobs) \cup {x}
    BY <1>01, <1>02, RangeAppend
  <2>2. \A r \in owed : Waited(r) => Queued(r)'
    BY <1>02, <2>1 DEF Waited, Queued
  <2> QED
    BY <1>0, <1>01, <2>1, <2>2, StillKept
<1>4. Running' => PeerRuns'
  <2>1. Starting' = Starting /\ Open' = Open
    <3>1. session[0] # "starting"
      BY <1>0 DEF PeerTypes, RegistryTypes
    <3> QED
      BY <1>01, <1>03, <3>1 DEF Starting, Open
  <2>2. Steady
    BY <1>0, <1>01 DEF Steady, PeerTypes, inputVars
  <2> QED
    BY <1>0, <1>01, <1>02, <2>1, <2>2, ReactionRuns
<1>5. TurnHeld'
  BY <1>0, <1>01, <1>02, HeldNoMore
<1> QED
  BY <1>0, <1>01, <1>1, <1>2, <1>3, <1>4, <1>5 DEF PeerInv

\* A session does not start.
LEMMA OpeningFailsKeeps ==
    ASSUME PeerInv, NEW s \in Sessions, OpeningFails(s)
    PROVE  PeerInv'
<1>0. PeerTypes /\ SessionsLeft /\ OwedIsKept /\ TurnHeld /\ ~twice /\ Running /\ PeerRuns
  BY DEF PeerInv, Waiting, OpeningFails
<1>05. s \in Starting /\ s \in Requests /\ Message("error", s) \in Jobs /\ Message("error", s).type \in Outcomes
       /\ Message("error", s).id = s /\ jobs \in Seq(Jobs) /\ jobs' = Append(jobs, Message("error", s))
  BY <1>0, NoRequestIsZero DEF OpeningFails, PeerTypes, RegistryTypes, Message, Jobs, JobTypes, Outcomes, Starting
<1>06. session' \in [Sessions -> {"none", "starting", "live", "ending", "abandoned"}]
       /\ \A k \in Sessions : session'[k] = IF k = s THEN "none" ELSE session[k]
  BY <1>0 DEF OpeningFails, PeerTypes, RegistryTypes
<1>1. PeerTypes'
  <2>1. jobs' \in Seq(Jobs)
    BY <1>05
  <2>2. session'[0] # "starting"
    BY <1>0, <1>06 DEF PeerTypes, RegistryTypes, Sessions
  <2>3. \A k \in Sessions : session'[k] = "abandoned" => k = 0
    BY <1>0, <1>06 DEF PeerTypes, RegistryTypes
  <2> QED
    BY <1>0, <1>06, <2>1, <2>2, <2>3 DEF PeerTypes, RegistryTypes, OpeningFails, inputVars, registryVars, promptVars, exitVars, historyVars, replyVars
<1>2. SessionsLeft'
  <2>1. \A k \in Sessions : session'[k] = session[k] \/ session'[k] = "none"
    BY <1>06
  <2> QED
    BY <1>0, <2>1 DEF SessionsLeft, OpeningFails, exitVars, historyVars
<1>3. OwedIsKept'
  <2>1. \A y \in Range(jobs) : y \in Range(jobs')
    BY <1>05, OnlyMore
  <2>2. \A r \in owed : Waited(r) => Waited(r)'
    <3>1. s # 0 /\ 0 \in Sessions
      BY <1>05 DEF Requests, Sessions
    <3>2. session'[0] = session[0] /\ toDispose' = toDispose /\ turn' = turn
      BY <1>06, <3>1 DEF OpeningFails, promptVars
    <3> QED
      BY <3>2 DEF Waited
  <2> QED
    BY <1>0, <2>1, <2>2, StillKept DEF OpeningFails, inputVars, registryVars, promptVars, exitVars, historyVars, replyVars
<1>4. Running' => PeerRuns'
  <2>1. Starting' = Starting \ {s} /\ Open' = Open /\ turn' = turn
    BY <1>06 DEF OpeningFails, Starting, Open, promptVars
  <2>2. Steady
    BY <1>0 DEF Steady, OpeningFails, PeerTypes, RegistryTypes, inputVars, registryVars, promptVars, exitVars, historyVars, replyVars
  <2> QED
    BY <1>0, <1>05, <2>1, <2>2, ReactionRuns
<1>5. TurnHeld'
  BY <1>0, <1>05, StillHeld DEF OpeningFails, promptVars, Outcomes
<1> QED
  BY <1>0, <1>1, <1>2, <1>3, <1>4, <1>5 DEF PeerInv, OpeningFails, inputVars, registryVars, promptVars, exitVars, historyVars, replyVars

\* A session starts, in time or late.
LEMMA SessionStartsKeeps ==
    ASSUME PeerInv, NEW s \in Sessions, SessionStarts(s)
    PROVE  PeerInv'
<1>0. PeerTypes /\ SessionsLeft /\ OwedIsKept /\ TurnHeld /\ ~twice /\ Running /\ PeerRuns
  BY DEF PeerInv, Waiting, SessionStarts
<1>05. s \in Starting /\ s \in Requests /\ Message("result", s) \in Jobs /\ Message("result", s).type \in Outcomes
       /\ Message("result", s).id = s /\ jobs \in Seq(Jobs) /\ jobs' = Append(jobs, Message("result", s))
  BY <1>0, NoRequestIsZero DEF SessionStarts, PeerTypes, RegistryTypes, Message, Jobs, JobTypes, Outcomes, Starting
<1>06. \/ /\ phase = "up" /\ session' = [session EXCEPT ![s] = "live"] /\ registered' = Append(registered, s)
          /\ UNCHANGED <<tracked, late>>
       \/ /\ phase # "up" /\ session' = [session EXCEPT ![s] = "ending"] /\ tracked' = tracked \cup {s}
          /\ late' = (IF phase = "cleaning" THEN late ELSE late \cup {s})
          /\ UNCHANGED registered
  BY DEF SessionStarts
<1>07. session' \in [Sessions -> {"none", "starting", "live", "ending", "abandoned"}]
       /\ \A k \in Sessions : k # s => session'[k] = session[k]
  BY <1>0, <1>06 DEF PeerTypes, RegistryTypes
<1>08. session'[s] = IF phase = "up" THEN "live" ELSE "ending"
  BY <1>0, <1>06 DEF PeerTypes, RegistryTypes
<1>09. registered' \in Seq(Sessions) /\ (phase = "up" => Range(registered') = Range(registered) \cup {s})
  <2>1. registered \in Seq(Sessions)
    BY <1>0 DEF PeerTypes, RegistryTypes
  <2>2. Append(registered, s) \in Seq(Sessions) /\ Range(Append(registered, s)) = Range(registered) \cup {s}
    BY <2>1, RangeAppend
  <2>3. registered' = IF phase = "up" THEN Append(registered, s) ELSE registered
    BY <1>06
  <2> QED
    BY <2>1, <2>2, <2>3
<1>1. PeerTypes'
  <2>1. jobs' \in Seq(Jobs)
    BY <1>05
  <2>2. session'[0] # "starting"
    BY <1>0, <1>05, <1>07 DEF PeerTypes, RegistryTypes, Sessions, Requests
  <2>4. \A k \in Sessions : session'[k] = "abandoned" => k = 0
    BY <1>0, <1>07, <1>08 DEF PeerTypes, RegistryTypes
  <2>3. tracked' \subseteq Sessions /\ late' \subseteq Sessions
    BY <1>0, <1>06 DEF PeerTypes, RegistryTypes
  <2> QED
    BY <1>0, <1>07, <1>09, <2>1, <2>2, <2>3, <2>4 DEF PeerTypes, RegistryTypes, SessionStarts, promptVars, inputVars, exitVars, replyVars
<1>2. SessionsLeft'
  <2>1. UNCHANGED <<toDispose, phase, forced>>
    BY DEF SessionStarts, exitVars
  <2>2. CASE phase = "up"
    BY <1>0, <1>06, <1>07, <1>08, <1>09, <2>1, <2>2 DEF SessionsLeft
  <2>3. CASE phase # "up"
    BY <1>0, <1>06, <1>07, <1>08, <2>1, <2>3 DEF SessionsLeft
  <2> QED
    BY <2>2, <2>3
<1>3. OwedIsKept'
  <2>1. \A y \in Range(jobs) : y \in Range(jobs')
    BY <1>05, OnlyMore
  <2>2. \A r \in owed : Waited(r) => Waited(r)'
    <3>1. s # 0 /\ 0 \in Sessions
      BY <1>05 DEF Requests, Sessions
    <3>2. session'[0] = session[0] /\ toDispose' = toDispose /\ turn' = turn
      BY <1>07, <3>1 DEF SessionStarts, promptVars
    <3> QED
      BY <3>2 DEF Waited
  <2> QED
    BY <1>0, <2>1, <2>2, StillKept DEF SessionStarts, inputVars, registryVars, promptVars, exitVars, historyVars, replyVars
<1>4. Running' => PeerRuns'
  <2>1. Starting' = Starting \ {s}
    BY <1>07, <1>08 DEF Starting
  <2>2. Open' \subseteq Open \cup {s} /\ turn' = turn
    BY <1>06, <1>09 DEF Open, SessionStarts, promptVars
  <2>3. Steady
    BY <1>0 DEF Steady, SessionStarts, PeerTypes, RegistryTypes, inputVars, registryVars, promptVars, exitVars, historyVars, replyVars
  <2> QED
    BY <1>0, <1>05, <2>1, <2>2, <2>3, ReactionRuns
<1>5. TurnHeld'
  BY <1>0, <1>05, StillHeld DEF SessionStarts, promptVars, Outcomes
<1> QED
  BY <1>0, <1>1, <1>2, <1>3, <1>4, <1>5 DEF PeerInv, SessionStarts, inputVars, registryVars, promptVars, exitVars, historyVars, replyVars

\* The exit moves on: what is still owed was read, or is in the pipe.
LEMMA PhaseMovesKeeps ==
    ASSUME PeerInv, Waiting, NEW next \in {"sweeping", "flushing", "exited"}, PhaseMoves(next),
           \/ phase = "cleaning" /\ next = "sweeping" /\ AllDisposed /\ forced' = forced
           \/ phase = "sweeping" /\ next = "flushing" /\ forced' = forced
           \/ phase \in {"cleaning", "sweeping"} /\ next = "flushing" /\ forced' = TRUE
           \/ phase = "flushing" /\ next = "exited" /\ forced' = forced
    PROVE  PeerInv'
<1>0. PeerTypes /\ SessionsLeft /\ OwedIsKept /\ TurnHeld /\ ~twice /\ Running /\ PeerRuns /\ jobs = <<>> /\ lines = {}
  BY DEF PeerInv, Waiting
<1>01. phase' = next /\ flushed' = (IF next = "flushing" THEN out = {} ELSE flushed)
       /\ UNCHANGED <<lines, jobs, input, closed, broken, delivered, session, turn, turnAt, turnOpen, busy, registered, toDispose, tracked,
                      unanswered, twice, handled, owed, late>>
  BY DEF PhaseMoves, registryVars, promptVars, historyVars, replyVars
<1>02. \/ next = "exited" /\ unread' = <<>> /\ buffered' = <<>> /\ written' = 0 /\ out' = {} /\ call' = "none"
       \/ next # "exited" /\ UNCHANGED <<written, unread, buffered, out, call>>
  BY DEF PhaseMoves, MemoryIsGone, inputVars
<1>1. PeerTypes'
  <2>1. /\ written' \in 0..MaxMessages /\ unread' \in Seq(Marks) /\ buffered' \in Seq(Marks) /\ out' \subseteq Frames
        /\ call' \in {"none", "pending"} /\ (call' = "pending" => input = "open")
    <3>1. 0 \in 0..MaxMessages
      BY PeerAssumption
    <3>2. CASE UNCHANGED <<written, unread, buffered, out, call>>
      BY <1>0, <3>2 DEF PeerTypes, RegistryTypes
    <3>3. CASE unread' = <<>> /\ buffered' = <<>> /\ written' = 0 /\ out' = {} /\ call' = "none"
      BY <3>1, <3>3
    <3> QED
      BY <1>02, <3>2, <3>3
  <2>2. flushed' \in BOOLEAN /\ forced' \in BOOLEAN
        /\ phase' \in {"up", "cleaning", "sweeping", "flushing", "exited"}
    BY <1>0, <1>01 DEF PeerTypes, RegistryTypes
  <2> QED
    BY <1>0, <1>01, <2>1, <2>2 DEF PeerTypes, RegistryTypes
<1>2. SessionsLeft'
  <2>1. CASE phase = "cleaning" /\ next = "sweeping" /\ AllDisposed /\ forced' = forced
    <3>1. Range(<<>>) = {}
      BY DEF Range
    <3> QED
      BY <1>0, <1>01, <2>1, <3>1 DEF SessionsLeft, AllDisposed, PeerTypes, RegistryTypes
  <2>2. CASE phase = "sweeping" /\ next = "flushing" /\ forced' = forced
    BY <1>0, <1>01, <2>2 DEF SessionsLeft
  <2>3. CASE phase \in {"cleaning", "sweeping"} /\ next = "flushing" /\ forced' = TRUE
    BY <1>0, <1>01, <2>3 DEF SessionsLeft
  <2>4. CASE phase = "flushing" /\ next = "exited" /\ forced' = forced
    BY <1>0, <1>01, <2>4 DEF SessionsLeft
  <2> QED
    BY <2>1, <2>2, <2>3, <2>4
<1>3. OwedIsKept'
  <2>1. Range(<<>>) = {}
    BY DEF Range
  <2>2. \A r \in owed : Kept(r) => r \in delivered \/ (~(phase = "flushing" /\ flushed) /\ \E f \in out : f.id = r)
                                     \/ (phase = "cleaning" /\ Waited(r))
    BY <1>0, <2>1 DEF Kept, Queued
  <2>3. CASE next = "sweeping"
    <3>1. AllDisposed /\ phase = "cleaning"
      BY <2>3
    <3>2. \A r : ~ Waited(r)
      BY <2>1, <3>1 DEF AllDisposed, Waited
    <3>3. \A r \in owed : Kept(r) => Kept(r)'
      BY <1>01, <1>02, <2>2, <2>3, <3>1, <3>2 DEF Kept
    <3> QED
      BY <1>0, <1>01, <2>3, <3>1, <3>3 DEF OwedIsKept
  <2>4. CASE next = "flushing"
    <3>1. CASE forced'
      BY <1>01, <2>4, <3>1 DEF OwedIsKept
    <3>2. CASE ~ forced'
      <4>1. phase = "sweeping" /\ ~ forced
        BY <2>4, <3>2
      <4>2. \A r \in owed : Kept(r) => Kept(r)'
        BY <1>01, <1>02, <2>2, <2>4, <4>1 DEF Kept
      <4> QED
        BY <1>0, <1>01, <2>4, <4>1, <4>2 DEF OwedIsKept
    <3> QED
      BY <3>1, <3>2
  <2>5. CASE next = "exited"
    <3>1. phase = "flushing" /\ forced' = forced
      BY <2>5
    <3>2. flushed => \A r \in owed : Kept(r) => Kept(r)'
      BY <1>01, <2>2, <3>1 DEF Kept
    <3> QED
      BY <1>0, <1>01, <2>5, <3>1, <3>2 DEF OwedIsKept
  <2> QED
    BY <2>3, <2>4, <2>5
<1>4. Running' => PeerRuns'
  <2>1. CASE next = "exited"
    BY <1>01, <2>1 DEF Running
  <2>2. CASE next # "exited"
    <3>1. Starting' = Starting /\ Open' = Open
      BY <1>01 DEF Starting, Open
    <3>2. Steady
      BY <1>0, <1>01, <1>02, <2>2 DEF Steady, PeerTypes, RegistryTypes, inputVars
    <3> QED
      BY <1>0, <1>01, <3>1, <3>2, StillRuns
  <2> QED
    BY <2>1, <2>2
<1>5. TurnHeld'
  BY <1>0, <1>01, StillHeld
<1> QED
  BY <1>0, <1>01, <1>1, <1>2, <1>3, <1>4, <1>5 DEF PeerInv

\* The stages of the way out: all sessions are disposed of,
LEMMA DisposalEndsKeeps ==
    ASSUME PeerInv, DisposalEnds
    PROVE  PeerInv'
BY PhaseMovesKeeps DEF DisposalEnds

\* stale bridges are swept,
LEMMA SweepEndsKeeps ==
    ASSUME PeerInv, SweepEnds
    PROVE  PeerInv'
BY PhaseMovesKeeps DEF SweepEnds

\* or the deadline comes first,
LEMMA DeadlineFiresKeeps ==
    ASSUME PeerInv, DeadlineFires
    PROVE  PeerInv'
BY PhaseMovesKeeps DEF DeadlineFires

\* and the process exits.
LEMMA FlushEndsKeeps ==
    ASSUME PeerInv, FlushEnds
    PROVE  PeerInv'
BY PhaseMovesKeeps DEF FlushEnds

\* The exit begins, or does not.
LEMMA BeginRuns ==
    ASSUME PeerTypes, SessionsLeft, OwedIsKept, TurnHeld, PeerRuns, Running, Steady,
           Begin(jobs) \/ (jobs' = jobs /\ UNCHANGED <<phase, registryVars, owed>>),
           UNCHANGED <<forced, late, flushed, broken, delivered, out>>
    PROVE  /\ SessionsLeft' /\ OwedIsKept' /\ TurnHeld' /\ PeerRuns'
           /\ jobs' \in Seq(Jobs) /\ owed' \subseteq Requests /\ RegistryTypes'
           /\ phase' \in {"up", "cleaning", "sweeping", "flushing", "exited"}
<1>1. CASE Begin(jobs)
  <2>1. /\ Starting' = Starting /\ SessionsLeft' /\ TurnHeld' /\ Open' \subseteq Open
        /\ jobs' \in Seq(Jobs) /\ owed' \subseteq Requests /\ RegistryTypes'
        /\ phase' \in {"up", "cleaning", "sweeping", "flushing", "exited"}
        /\ \/ jobs' = jobs /\ turn' = turn
           \/ turn # 0 /\ Message("result", turn) \in Jobs /\ jobs' = Append(jobs, Message("result", turn)) /\ turn' = 0
        /\ \/ phase = "up" /\ phase' = "cleaning" /\ \A r \in owed' : Waited(r)' \/ Queued(r)'
           \/ phase # "up" /\ UNCHANGED <<phase, jobs, owed, turn, session, toDispose>>
    BY <1>1, BeginFacts
  <2>2. OwedIsKept'
    <3>1. CASE phase = "up" /\ phase' = "cleaning" /\ \A r \in owed' : Waited(r)' \/ Queued(r)'
      BY <3>1 DEF OwedIsKept, Kept
    <3>2. CASE phase # "up" /\ UNCHANGED <<phase, jobs, owed, turn, session, toDispose>>
      BY <3>2, StillKept DEF Steady
    <3> QED
      BY <2>1, <3>1, <3>2
  <2>3. PeerRuns'
    <3>1. CASE jobs' = jobs /\ turn' = turn
      BY <2>1, <3>1, StillRuns
    <3>2. CASE Message("result", turn) \in Jobs /\ jobs' = Append(jobs, Message("result", turn)) /\ turn' = 0
      <4>1. Message("result", turn).type \in Outcomes /\ Message("result", turn).id = turn
        BY DEF Message, Outcomes
      <4> QED
        BY <2>1, <3>2, <4>1, ReactionRuns
    <3> QED
      BY <2>1, <3>1, <3>2
  <2> QED
    BY <2>1, <2>2, <2>3
<1>2. CASE jobs' = jobs /\ UNCHANGED <<phase, registryVars, owed>>
  <2>1. UNCHANGED <<jobs, phase, session, turn, turnAt, turnOpen, busy, registered, toDispose, tracked, owed>>
    BY <1>2 DEF registryVars, promptVars
  <2>2. SessionsLeft' /\ TurnHeld' /\ RegistryTypes'
    BY <2>1, StillLeft, StillHeld DEF PeerTypes, RegistryTypes
  <2>3. OwedIsKept'
    BY <2>1, StillKept DEF Steady
  <2>4. Starting' = Starting /\ Open' = Open
    BY <2>1 DEF Starting, Open
  <2>5. PeerRuns'
    BY <2>1, <2>4, StillRuns
  <2> QED
    BY <2>1, <2>2, <2>3, <2>5 DEF PeerTypes
<1> QED
  BY <1>1, <1>2

\* A signal begins the way out, or ends it.
LEMMA SignalKeeps ==
    ASSUME PeerInv, Signal
    PROVE  PeerInv'
<1>0. PeerTypes /\ SessionsLeft /\ OwedIsKept /\ TurnHeld /\ ~twice /\ Running /\ PeerRuns
  BY DEF PeerInv, Signal, Waiting
<1>1. CASE phase = "up"
  <2>1. Begin(jobs) /\ UNCHANGED <<forced, inputVars, out, call, lines, input, closed, broken, delivered, flushed,
                                   unanswered, twice, handled, late>>
    BY <1>1 DEF Signal, replyVars
  <2>2. Steady
    BY <1>0, <2>1 DEF Steady, PeerTypes, RegistryTypes
  <2>3. /\ SessionsLeft' /\ OwedIsKept' /\ TurnHeld' /\ PeerRuns'
        /\ jobs' \in Seq(Jobs) /\ owed' \subseteq Requests /\ RegistryTypes'
        /\ phase' \in {"up", "cleaning", "sweeping", "flushing", "exited"}
    BY <1>0, <2>1, <2>2, BeginRuns
  <2>4. PeerTypes'
    BY <1>0, <2>1, <2>3 DEF PeerTypes, RegistryTypes, inputVars
  <2> QED
    BY <1>0, <2>1, <2>3, <2>4 DEF PeerInv
<1>2. CASE phase # "up"
  <2>1. /\ phase' = "exited" /\ forced' = TRUE
        /\ unread' = <<>> /\ buffered' = <<>> /\ written' = 0 /\ out' = {} /\ call' = "none"
        /\ UNCHANGED <<jobs, session, turn, turnAt, turnOpen, busy, registered, toDispose, tracked, owed, lines, input, closed, broken,
                       delivered, flushed, unanswered, twice, handled, late>>
    BY <1>2 DEF Signal, MemoryIsGone, registryVars, promptVars, replyVars
  <2>2. 0 \in 0..MaxMessages
    BY PeerAssumption
  <2>3. PeerTypes'
    BY <1>0, <2>1, <2>2 DEF PeerTypes, RegistryTypes
  <2>4. SessionsLeft' /\ OwedIsKept' /\ TurnHeld' /\ ~ Running'
    BY <1>0, <1>2, <2>1, StillHeld DEF SessionsLeft, OwedIsKept, Running
  <2> QED
    BY <1>0, <2>1, <2>3, <2>4 DEF PeerInv
<1> QED
  BY <1>1, <1>2

\* The client closes stdin.
LEMMA InputEndsKeeps ==
    ASSUME PeerInv, InputEnds
    PROVE  PeerInv'
<1>0. PeerTypes /\ SessionsLeft /\ OwedIsKept /\ TurnHeld /\ ~twice /\ Running /\ PeerRuns
  BY DEF PeerInv, InputEnds, Waiting
<1>1. /\ Begin(jobs) /\ input' = "ended" /\ unread' = <<>> /\ buffered' = <<>>
      /\ call' = "none"
      /\ UNCHANGED <<written, lines, closed, broken, out, delivered, forced, flushed, unanswered, twice, handled, late>>
  BY DEF InputEnds, RejectPending, SettleCall, replyVars
<1>2. Steady
  BY <1>0, <1>1 DEF Steady, PeerTypes, RegistryTypes
<1>3. /\ SessionsLeft' /\ OwedIsKept' /\ TurnHeld' /\ PeerRuns'
      /\ jobs' \in Seq(Jobs) /\ owed' \subseteq Requests /\ RegistryTypes'
      /\ phase' \in {"up", "cleaning", "sweeping", "flushing", "exited"}
  BY <1>0, <1>1, <1>2, BeginRuns
<1>4. PeerTypes'
  <2>1. call' \in {"none", "pending"} /\ (call' = "pending" => input' = "open")
    BY <1>0, <1>1 DEF PeerTypes, RegistryTypes
  <2>2. unread' \in Seq(Marks) /\ buffered' \in Seq(Marks)
    BY <1>1
  <2> QED
    BY <1>0, <1>1, <1>3, <2>1, <2>2 DEF PeerTypes, RegistryTypes
<1> QED
  BY <1>0, <1>1, <1>3, <1>4 DEF PeerInv

\* The hard close.
LEMMA CloseKeeps ==
    ASSUME PeerInv, Running, Close(jobs), Steady,
           UNCHANGED <<written, broken, out, delivered, forced, flushed, unanswered, twice, handled, late>>
    PROVE  PeerInv'
<1>0. PeerTypes /\ SessionsLeft /\ OwedIsKept /\ TurnHeld /\ ~twice /\ PeerRuns
  BY DEF PeerInv
<1>1. /\ closed' = TRUE /\ input' = "ended" /\ unread' = <<>> /\ buffered' = <<>>
      /\ call' = "none"
      /\ Begin(jobs) \/ (jobs' = jobs /\ UNCHANGED <<phase, registryVars, owed>>)
  BY DEF Close, RejectPending, SettleCall
<1>2. lines' \subseteq lines
  BY DEF Steady
<1>3. /\ SessionsLeft' /\ OwedIsKept' /\ TurnHeld' /\ PeerRuns'
      /\ jobs' \in Seq(Jobs) /\ owed' \subseteq Requests /\ RegistryTypes'
      /\ phase' \in {"up", "cleaning", "sweeping", "flushing", "exited"}
  BY <1>0, <1>1, BeginRuns
<1>4. PeerTypes'
  <2>1. call' \in {"none", "pending"} /\ (call' = "pending" => input' = "open")
    BY <1>0, <1>1 DEF PeerTypes, RegistryTypes
  <2>2. unread' \in Seq(Marks) /\ buffered' \in Seq(Marks) /\ closed' \in BOOLEAN
    BY <1>1
  <2> QED
    BY <1>0, <1>1, <1>2, <1>3, <2>1, <2>2 DEF PeerTypes, RegistryTypes
<1> QED
  BY <1>0, <1>1, <1>3, <1>4 DEF PeerInv

\* A write fails.
LEMMA OutputFailsKeeps ==
    ASSUME PeerInv, OutputFails
    PROVE  PeerInv'
<1>1. Running /\ Close(jobs) /\ UNCHANGED <<written, lines, broken, out, delivered, forced, flushed, unanswered, twice, handled, late>>
  BY DEF OutputFails, Waiting, replyVars
<1>2. Steady
  BY <1>1 DEF Steady, Close
<1> QED
  BY <1>1, <1>2, CloseKeeps

\* A chunk is read.
LEMMA ReadsKeeps ==
    ASSUME PeerInv, Reads
    PROVE  PeerInv'
<1>0. PeerTypes /\ SessionsLeft /\ OwedIsKept /\ TurnHeld /\ ~twice /\ Running /\ PeerRuns /\ Pipe /\ jobs = <<>> /\ lines = {}
  BY DEF PeerInv, Reads, Waiting, PeerRuns
<1>1. ChunkBrings
  BY <1>0, ReadsBrings
<1>2. UNCHANGED <<jobs, input, closed, broken, call, out, delivered, session, turn, turnAt, turnOpen, busy, registered, toDispose, tracked,
                  phase, forced, flushed, twice, handled, owed, late>>
  BY DEF Reads, registryVars, promptVars, exitVars
<1>3. PeerTypes'
  BY <1>0, <1>1, <1>2 DEF PeerTypes, RegistryTypes, ChunkBrings
<1>4. SessionsLeft'
  BY <1>0, <1>2, StillLeft
<1>5. OwedIsKept'
  BY <1>0, <1>2, StillKept
<1>6. Starting' = Starting /\ Open' = Open
  BY <1>2 DEF Starting, Open
<1>7. /\ \A r \in Starting \cup unanswered \cup Open \cup {turn, handled} : r \in Nat /\ Before(r)
  BY <1>0, IdsAreNumbers DEF PeerRuns, Heard
<1>8. \A r \in Starting \cup unanswered \cup Open \cup {turn, handled} :
         Before(r)' /\ \A l \in lines' : l.message.id > 0 => r < l.message.id
  BY <1>1, <1>7 DEF ChunkBrings, Before
<1>9. Range(jobs') = {} /\ Range(jobs) = {}
  BY <1>0, <1>2 DEF Range
<1>10. Heard'
  <2>1. /\ \A l \in lines' : Before(l.message.id)'
        /\ \A r \in unanswered' : Before(r)'
    BY <1>1, <1>8 DEF ChunkBrings, Before
  <2> QED
    BY <1>2, <1>6, <1>8, <1>9, <2>1 DEF Heard
<1>11. \A l \in lines' : l.message \in LineMessages /\ l.message.id \in Nat /\ (l.message.type \in Methods => l.message.id > 0)
  <2>1. \A l \in lines' : l.message \in LineMessages
    BY <1>1 DEF ChunkBrings
  <2> QED
    BY <2>1, LineMessageFacts
<1>12. Follow(lines', jobs', handled')
  <2>1. Ordered(jobs', handled')
    BY <1>0, <1>2 DEF PeerRuns, Follow
  <2>2. \A l \in lines' : l.message.id > 0 => handled' <= l.message.id
    BY <1>2, <1>7, <1>8, <1>11
  <2> QED
    BY <1>9, <2>1, <2>2 DEF Follow
<1>13. \A l \in Asks(lines'), r \in Starting \cup unanswered \cup Open \cup {turn, handled} : l.message.id # r
  <2> TAKE l \in Asks(lines'), r \in Starting \cup unanswered \cup Open \cup {turn, handled}
  <2>1. l \in lines' /\ l.message.id > 0 /\ l.message.id \in Nat
    BY <1>11 DEF Asks
  <2>2. r < l.message.id /\ r \in Nat
    BY <1>7, <1>8, <2>1
  <2> QED
    BY <2>1, <2>2
<1>14. Placed(closed', lines', jobs', turn', Starting', unanswered')
  <2>1. Placed(closed, lines, jobs, turn, Starting, unanswered)
    BY <1>0 DEF PeerRuns
  <2>2. \A l \in Asks(lines) : FALSE
    BY <1>0 DEF Asks
  <2>3. ASSUME ~ closed, \A l \in lines' : l.message # TooLong, NEW r \in unanswered'
        PROVE  r = turn \/ r \in Starting \/ \E l \in Asks(lines') : l.message.id = r
    <3>1. CASE r \in unanswered
      BY <1>0, <1>9, <2>1, <2>2, <2>3, <3>1 DEF Placed
    <3>2. CASE r \notin unanswered
      BY <1>1, <2>3, <3>2 DEF ChunkBrings
    <3> QED
      BY <3>1, <3>2
  <2>4. \A l \in Asks(lines') : l.message.id \in unanswered' /\ l.message.id # turn /\ l.message.id \notin Starting
    BY <1>1, <1>13 DEF ChunkBrings
  <2>5. unanswered \subseteq unanswered'
    BY <1>1 DEF ChunkBrings
  <2> QED
    BY <1>2, <1>6, <1>9, <2>1, <2>3, <2>4, <2>5 DEF Placed
<1>15. Opened(lines', jobs', Starting', Open')
  <2>1. \A s : Message("session/new", s).type \in Methods /\ Message("session/new", s).id = s
    BY DEF Message, Methods
  <2>2. ASSUME NEW s \in Open, NEW l \in lines', l.message = Message("session/new", s) PROVE FALSE
    <3>1. l \in Asks(lines') /\ l.message.id = s
      BY <2>1, <2>2 DEF Asks
    <3> QED
      BY <3>1, <1>13
  <2> QED
    BY <1>0, <1>6, <1>9, <2>2 DEF Opened, PeerRuns
<1>17. TurnHeld'
  BY <1>0, <1>2, StillHeld
<1>16. PeerRuns'
  BY <1>1, <1>10, <1>12, <1>14, <1>15 DEF PeerRuns, ChunkBrings
<1> QED
  BY <1>0, <1>2, <1>3, <1>4, <1>5, <1>16, <1>17 DEF PeerInv

\* The invariant after an event that reads nothing, from its parts.
LEMMA RunsAgain ==
    ASSUME PeerTypes, PeerRuns, UNCHANGED <<written, unread, buffered, closed>>, lines' \subseteq lines, Open' \subseteq Open,
           Follow(lines', jobs', handled'), Placed(closed, lines', jobs', turn', Starting', unanswered'),
           Opened(lines', jobs', Starting', Open'), \A x \in Range(jobs') : Before(x.id),
           \A s \in Starting' : Before(s), unanswered' \subseteq unanswered, Before(turn'), Before(handled')
    PROVE  PeerRuns'
<1>1. Pipe'
  BY DEF PeerRuns, Pipe
<1>2. \A r : Before(r) => OlderThan(r, buffered', written')
  BY DEF Before
<1>3. LinesInOrder'
  BY DEF PeerRuns, LinesInOrder
<1>4. Heard'
  <2>1. /\ \A l \in lines' : OlderThan(l.message.id, buffered', written')
        /\ \A x \in Range(jobs') : OlderThan(x.id, buffered', written')
        /\ \A s \in Starting' : OlderThan(s, buffered', written')
        /\ \A r \in unanswered' : OlderThan(r, buffered', written')
        /\ \A s \in Open' : OlderThan(s, buffered', written')
        /\ OlderThan(turn', buffered', written') /\ OlderThan(handled', buffered', written')
    BY <1>2 DEF PeerRuns, Heard
  <2> QED
    BY <2>1 DEF Heard, Before
<1> QED
  BY <1>1, <1>3, <1>4 DEF PeerRuns

\* What a line of the chunk may be.
LEMMA TypeOfLine ==
    ASSUME PeerTypes, NEW l \in lines, NEW m, m = l.message, m # TooLong
    PROVE  /\ m \in LineMessages /\ m.id \in Nat
           /\ m.type \in Methods => m.id \in Requests
           /\ m.type \in {"session/new", "session/prompt", "session/cancel"} => m \in Jobs /\ m.id > 0
<1>1. m \in LineMessages
  BY DEF PeerTypes, RegistryTypes
<1>2. m.id \in Nat /\ (m.type \in Methods => m.id \in Requests)
  BY <1>1, LineMessageFacts
<1>3. ASSUME m.type \in {"session/new", "session/prompt", "session/cancel"} PROVE m \in Jobs
  <2>1. m # Message("garbage", 0)
    BY <1>3 DEF Message
  <2>2. m \in [type : Types, id : Requests]
    BY <1>1, <2>1 DEF LineMessages
  <2> QED
    BY <1>3, <2>2 DEF Jobs, JobTypes
<1>4. m \in Jobs => m.id > 0
  BY DEF Jobs, Requests
<1> QED
  BY <1>1, <1>2, <1>3, <1>4

\* The least line goes: into the queue of reactions, or answered at once, or it asks nothing.
LEMMA LineRuns ==
    ASSUME PeerTypes, PeerRuns, UNCHANGED <<written, unread, buffered, closed, turn, handled, session, registered, toDispose>>,
           NEW l \in lines, \A k \in lines : l.at <= k.at, lines' = lines \ {l}, NEW m, m = l.message, m # TooLong,
           \/ m.type \notin Methods /\ jobs' = jobs /\ unanswered' = unanswered
           \/ m.type \in {"session/new", "session/prompt", "session/cancel"} /\ jobs' = Append(jobs, m) /\ unanswered' = unanswered
           \/ /\ m.type \in Methods /\ jobs' = jobs
              /\ unanswered' = IF closed THEN unanswered ELSE unanswered \ {m.id}
    PROVE  PeerRuns' /\ (m.type \in Methods => m.id \in unanswered)
<1>1. /\ jobs \in Seq(Jobs) /\ closed \in BOOLEAN /\ lines \subseteq [at : Nat, message : LineMessages]
      /\ 0 \notin Starting /\ 0 \notin unanswered
  BY NoRequestIsZero DEF PeerTypes, RegistryTypes
<1>2. Starting' = Starting /\ Open' = Open
  BY DEF Starting, Open
<1>3. /\ m \in LineMessages /\ m.id \in Nat /\ (m.type \in Methods => m.id \in Requests)
      /\ m.type \in {"session/new", "session/prompt", "session/cancel"} => m \in Jobs /\ m.id > 0
  BY TypeOfLine
<1>4. \A k \in lines : k # l /\ k.message.id > 0 /\ m.id > 0 => m.id < k.message.id
  <2> TAKE k \in lines
  <2> HAVE k # l /\ k.message.id > 0 /\ m.id > 0
  <2>1. k.at # l.at
    BY DEF PeerRuns, LinesInOrder
  <2>2. l.at < k.at
    BY <1>1, <2>1
  <2> QED
    BY <2>2 DEF PeerRuns, LinesInOrder
<1>5. \A k \in Asks(lines) : k # l /\ m.type \in Methods => k.message.id # m.id
  <2> TAKE k \in Asks(lines)
  <2> HAVE k # l /\ m.type \in Methods
  <2>1. k \in lines /\ k.message \in LineMessages /\ k.message.type \in Methods
    BY <1>1 DEF Asks
  <2>2. k.message.id \in Nat /\ k.message.id > 0 /\ m.id > 0
    BY <1>3, <2>1, LineMessageFacts DEF Requests
  <2> QED
    BY <1>3, <1>4, <2>1, <2>2
<1>6. Follow(lines, jobs, handled) /\ Placed(closed, lines, jobs, turn, Starting, unanswered) /\ Opened(lines, jobs, Starting, Open)
  BY DEF PeerRuns
<1>7. /\ Follow(lines', jobs, handled)
      /\ m \in Jobs => Follow(lines', Append(jobs, m), handled)
  <2>1. \A k \in lines : k # l /\ k.message.id > 0 /\ l.message.id > 0 => l.message.id <= k.message.id
    <3>1. \A k \in lines : k.message.id \in Nat
      BY <1>1, LineMessageFacts
    <3> QED
      BY <1>3, <1>4, <3>1
  <2> QED
    BY <1>1, <1>6, <2>1, FollowLine
<1>8. Opened(lines', jobs, Starting, Open)
  BY <1>6 DEF Opened
<1>9. m \in Jobs => Opened(lines', Append(jobs, m), Starting, Open)
  <2>1. m \in Jobs => Opened(lines, Append(jobs, m), Starting, Open)
    BY <1>1, <1>6, OpenedAppend
  <2> QED
    BY <2>1 DEF Opened
<1>10. /\ m.type \notin Methods => Placed(closed, lines', jobs, turn, Starting, unanswered)
       /\ m.type \in Methods => /\ m.id \in unanswered
                                /\ Placed(closed, lines', jobs, turn, Starting, unanswered \ {m.id})
                                /\ m \in Jobs /\ Works(m) => Placed(closed, lines', Append(jobs, m), turn, Starting, unanswered)
  BY <1>1, <1>5, <1>6, PlacedLine
<1>11. /\ Before(m.id) /\ Before(turn) /\ Before(handled)
       /\ (\A x \in Range(jobs) : Before(x.id)) /\ \A s \in Starting : Before(s)
  BY DEF PeerRuns, Heard
<1>12. CASE m.type \notin Methods /\ jobs' = jobs /\ unanswered' = unanswered
  BY <1>2, <1>7, <1>8, <1>10, <1>11, <1>12, RunsAgain
<1>13. CASE m.type \in {"session/new", "session/prompt", "session/cancel"} /\ jobs' = Append(jobs, m) /\ unanswered' = unanswered
  <2>1. m \in Jobs /\ Range(jobs') = Range(jobs) \cup {m}
    BY <1>1, <1>3, <1>13, RangeAppend
  <2>2. Placed(closed, lines', jobs', turn, Starting, unanswered)
    <3>1. CASE m.type = "session/cancel"
      <4>1. m.type \notin Methods /\ ~ Works(m)
        BY <3>1 DEF Methods, Works
      <4> QED
        BY <1>1, <1>10, <1>13, <2>1, <4>1, PlacedAppend
    <3>2. CASE m.type # "session/cancel"
      <4>1. m.type \in Methods /\ Works(m)
        BY <1>13, <3>2 DEF Methods, Works
      <4> QED
        BY <1>10, <1>13, <2>1, <4>1
    <3> QED
      BY <3>1, <3>2
  <2>3. \A x \in Range(jobs') : Before(x.id)
    BY <1>11, <2>1
  <2> QED
    BY <1>2, <1>7, <1>9, <1>10, <1>11, <1>13, <2>1, <2>2, <2>3, RunsAgain
<1>14. CASE /\ m.type \in Methods /\ jobs' = jobs
            /\ unanswered' = IF closed THEN unanswered ELSE unanswered \ {m.id}
  <2>1. Placed(closed, lines', jobs, turn, Starting, unanswered')
    <3>1. CASE closed
      <4>1. closed = TRUE /\ unanswered' = unanswered
        BY <1>1, <1>14, <3>1
      <4> QED
        BY <1>10, <1>14, <4>1, PlacedSilent
    <3>2. CASE ~ closed
      BY <1>10, <1>14, <3>2
    <3> QED
      BY <3>1, <3>2
  <2> QED
    BY <1>2, <1>7, <1>8, <1>10, <1>11, <1>14, <2>1, RunsAgain
<1> QED
  BY <1>12, <1>13, <1>14

\* A line is handled.
LEMMA HandleLineKeeps ==
    ASSUME PeerInv, HandleLine
    PROVE  PeerInv'
<1>0. PeerTypes /\ SessionsLeft /\ OwedIsKept /\ TurnHeld /\ ~twice /\ Running /\ PeerRuns
  BY DEF PeerInv, HandleLine
<1>1. PICK l \in lines :
        LET m == l.message
        IN /\ (\A k \in lines : l.at <= k.at) /\ lines' = lines \ {l}
           /\ m # TooLong => UNCHANGED <<unread, buffered>>
           /\ \/ m = TooLong /\ Close(jobs) /\ UNCHANGED <<replyVars, out, handled>>
              \/ m.type \in Methods /\ Answer(m) /\ UNCHANGED <<call, input, closed, phase, registryVars, handled, owed>>
              \/ /\ m.type = "session/cancel" /\ jobs' = Notified(m).jobs /\ handled' = Notified(m).acted
                 /\ UNCHANGED <<replyVars, out, call, input, closed, phase, registryVars, owed>>
              \/ /\ m.type = "response" /\ SettleCall
                 /\ UNCHANGED <<replyVars, out, jobs, input, closed, phase, registryVars, handled, owed>>
              \/ /\ m.type = "garbage" /\ out' = Sent(Message("error", 0))
                 /\ UNCHANGED <<replyVars, jobs, call, input, closed, phase, registryVars, handled, owed>>
  BY DEF HandleLine
<1> DEFINE m == l.message
<1>2. UNCHANGED <<written, broken, delivered, forced, flushed, late>>
  BY DEF HandleLine
<1>3. "oversized" \notin Methods /\ TooLong.type = "oversized"
  BY DEF Methods, TooLong, Message
<1>4. CASE m = TooLong
  <2>1. Close(jobs) /\ UNCHANGED <<unanswered, twice, out, handled>> /\ lines' = lines \ {l}
    BY <1>1, <1>3, <1>4 DEF replyVars
  <2>2. unread' = <<>> /\ buffered' = <<>> /\ closed' = TRUE
    BY <2>1 DEF Close
  <2>3. Steady
    BY <1>2, <1>4, <2>1, <2>2 DEF Steady
  <2> QED
    BY <1>0, <1>2, <2>1, <2>3, CloseKeeps
<1>5. CASE m # TooLong
  <2>1. /\ m \in LineMessages /\ m.id \in Nat /\ (m.type \in Methods => m.id \in Requests)
        /\ m.type \in {"session/new", "session/prompt", "session/cancel"} => m \in Jobs /\ m.id > 0
    BY <1>0, <1>5, TypeOfLine
  <2>2. /\ \A k \in lines : l.at <= k.at
        /\ lines' = lines \ {l}
        /\ UNCHANGED <<unread, buffered, input, closed, phase, session, turn, turnAt, turnOpen, busy, registered, toDispose, tracked, owed>>
    BY <1>1, <1>5 DEF registryVars, promptVars
  <2>3. \/ /\ m.type = "unknown" /\ Answered(m.id, 1) /\ out' = Sent(Message("error", m.id)) /\ jobs' = jobs
           /\ UNCHANGED <<call, handled>>
        \/ /\ m.type \in {"session/new", "session/prompt", "session/cancel"} /\ jobs' = Append(jobs, m)
           /\ UNCHANGED <<unanswered, twice, out, call, handled>>
        \/ /\ m.type = "response" /\ call' = "none"
           /\ UNCHANGED <<unanswered, twice, out, jobs, handled>>
        \/ /\ m.type = "garbage" /\ out' = Sent(Message("error", 0))
           /\ UNCHANGED <<unanswered, twice, jobs, call, handled>>
    BY <1>1, <1>5 DEF Answer, Notified, SettleCall, replyVars, Methods
  <2>4. handled' = handled
    BY <2>3
  <2>5. PeerRuns' /\ (m.type \in Methods => m.id \in unanswered)
    <3>1. CASE m.type = "unknown" /\ Answered(m.id, 1) /\ jobs' = jobs
      <4>1. m.type \in Methods /\ unanswered' = IF closed THEN unanswered ELSE unanswered \ {m.id}
        BY <3>1 DEF Answered, Methods
      <4> HIDE DEF m
      <4> QED
        BY <1>0, <1>2, <1>5, <2>2, <2>4, <3>1, <4>1, LineRuns DEF m
    <3>2. CASE m.type \in {"session/new", "session/prompt", "session/cancel"} /\ jobs' = Append(jobs, m) /\ unanswered' = unanswered
      BY <1>0, <1>2, <1>5, <2>2, <2>4, <3>2, LineRuns
    <3>3. CASE m.type \in {"response", "garbage"} /\ jobs' = jobs /\ unanswered' = unanswered
      <4>1. m.type \notin Methods
        BY <3>3 DEF Methods
      <4> QED
        BY <1>0, <1>2, <1>5, <2>2, <2>4, <3>3, <4>1, LineRuns
    <3> QED
      BY <2>3, <3>1, <3>2, <3>3
  <2>6. twice' = FALSE /\ unanswered' \subseteq unanswered
    <3>1. twice = FALSE
      BY <1>0 DEF PeerTypes, RegistryTypes
    <3>2. CASE m.type = "unknown" /\ Answered(m.id, 1)
      <4> DEFINE r == m.id
      <4>1. r \in unanswered
        BY <2>5, <3>2 DEF Methods
      <4>2. Answered(r, 1)
        BY <3>2
      <4> HIDE DEF r
      <4>3. \/ unanswered' = unanswered /\ twice' = twice
            \/ unanswered' = unanswered \ {r} /\ twice' = (twice \/ r \notin unanswered)
        BY <4>2 DEF Answered
      <4> QED
        BY <3>1, <4>1, <4>3
    <3>3. CASE unanswered' = unanswered /\ twice' = twice
      BY <3>1, <3>3
    <3> QED
      BY <2>3, <3>2, <3>3
  <2>7. out' \subseteq Frames /\ out \subseteq out'
    <3>1. out \subseteq Frames
      BY <1>0 DEF PeerTypes, RegistryTypes
    <3>2. m.id \in {0} \cup Requests
      BY <2>1, LineMessageFacts DEF Sessions
    <3>3. Message("error", m.id) \in Frames /\ Message("error", 0) \in Frames
      BY <3>2 DEF Frames, Message
    <3>4. out' = out \/ out' = out \cup {Message("error", m.id)} \/ out' = out \cup {Message("error", 0)}
      BY <2>3 DEF Sent
    <3> QED
      BY <3>1, <3>3, <3>4
  <2>8. jobs' \in Seq(Jobs) /\ (\A y \in Range(jobs) : y \in Range(jobs')) /\ TurnHeld'
    <3>1. jobs \in Seq(Jobs)
      BY <1>0 DEF PeerTypes, RegistryTypes
    <3>2. m \in Jobs => Append(jobs, m) \in Seq(Jobs) /\ \A y \in Range(jobs) : y \in Range(Append(jobs, m))
      BY <3>1, RangeAppend
    <3>3. jobs' = jobs \/ (m \in Jobs /\ m.type # "chosen" /\ jobs' = Append(jobs, m))
      BY <2>1, <2>3
    <3>4. TurnHeld'
      <4> HIDE DEF m
      <4> QED
        BY <1>0, <2>2, <3>1, <3>3, StillHeld
    <3> QED
      BY <3>1, <3>2, <3>3, <3>4
  <2>9. PeerTypes'
    <3>1. call' \in {"none", "pending"} /\ (call' = "pending" => input = "open")
      BY <1>0, <2>3 DEF PeerTypes, RegistryTypes
    <3>2. lines' \subseteq lines /\ unanswered' \subseteq unanswered /\ twice' \in BOOLEAN
      <4>1. lines' \subseteq lines
        BY <2>2
      <4> QED
        BY <4>1, <2>6
    <3> QED
      BY <1>0, <1>2, <2>2, <2>4, <2>7, <2>8, <3>1, <3>2 DEF PeerTypes, RegistryTypes
  <2>10. SessionsLeft'
    BY <1>0, <1>2, <2>2, StillLeft
  <2>11. OwedIsKept'
    BY <1>0, <1>2, <2>2, <2>7, <2>8, StillKept
  <2> QED
    BY <1>0, <2>5, <2>6, <2>8, <2>9, <2>10, <2>11 DEF PeerInv
<1> QED
  BY <1>4, <1>5

\* What every reaction leaves alone.
Reacts ==
    UNCHANGED <<written, unread, buffered, lines, input, closed, broken, call, delivered, registered, toDispose, tracked,
                phase, forced, flushed, owed, late>>

\* What is queued first, and what that says of the rest.
LEMMA FirstJob ==
    ASSUME PeerTypes, PeerRuns, jobs # <<>>, NEW h, h = Head(jobs), NEW q, q = Tail(jobs)
    PROVE  /\ h \in Jobs /\ q \in Seq(Jobs) /\ Range(jobs) = Range(q) \cup {h} /\ h.id \in Requests /\ h.id # 0
           /\ Follow(lines, q, handled) /\ (h.type \in Acts => Follow(lines, q, h.id) /\ handled <= h.id)
           /\ Opened(lines, q, Starting, Open) /\ (h.type = "session/new" => Opened(lines, q, Starting \cup {h.id}, Open))
           /\ ~ Works(h) => Placed(closed, lines, q, turn, Starting, unanswered)
           /\ Works(h) => /\ h.id \in unanswered /\ h.id \notin Starting
                          /\ Placed(closed, lines, q, turn, Starting, unanswered \ {h.id})
                          /\ Placed(closed, lines, q, turn, Starting \cup {h.id}, unanswered)
                          /\ turn = 0 => Placed(closed, lines, q, h.id, Starting, unanswered)
           /\ Before(h.id) /\ Before(turn) /\ Before(handled) /\ (\A x \in Range(q) : Before(x.id)) /\ \A s \in Starting : Before(s)
<1>1. jobs \in Seq(Jobs) /\ closed \in BOOLEAN /\ 0 \notin Starting /\ 0 \notin unanswered
  BY NoRequestIsZero DEF PeerTypes, RegistryTypes
<1>2. /\ Follow(lines, jobs, handled) /\ Placed(closed, lines, jobs, turn, Starting, unanswered)
      /\ Opened(lines, jobs, Starting, Open)
  BY DEF PeerRuns
<1>3. h \in Jobs /\ q \in Seq(Jobs) /\ h \in Range(jobs) /\ Range(jobs) = Range(q) \cup {h}
  BY <1>1, TailFacts, RangeTail
<1>4. h.id \in Requests /\ h.id # 0
  BY <1>3 DEF Jobs, Requests
<1>5. Follow(lines, q, handled) /\ (h.type \in Acts => Follow(lines, q, h.id) /\ handled <= h.id)
  BY <1>1, <1>2, FollowHead
<1>6. Opened(lines, q, Starting, Open) /\ (h.type = "session/new" => Opened(lines, q, Starting \cup {h.id}, Open))
  BY <1>1, <1>2, OpenedHead
<1>7. Works(h) => h.id \notin Starting
  BY <1>2, <1>3 DEF Placed
<1>8. /\ ~ Works(h) => Placed(closed, lines, q, turn, Starting, unanswered)
      /\ Works(h) => /\ h.id \in unanswered
                     /\ Placed(closed, lines, q, turn, Starting, unanswered \ {h.id})
                     /\ Placed(closed, lines, q, turn, Starting \cup {h.id}, unanswered)
                     /\ turn = 0 => Placed(closed, lines, q, h.id, Starting, unanswered)
  BY <1>1, <1>2, PlacedHead
<1>9. Before(h.id) /\ Before(turn) /\ Before(handled) /\ (\A x \in Range(q) : Before(x.id)) /\ \A s \in Starting : Before(s)
  BY <1>3 DEF PeerRuns, Heard
<1> QED
  BY <1>3, <1>4, <1>5, <1>6, <1>7, <1>8, <1>9

\* A refusal is queued behind the rest.
RefusalQueued(q, p, r) ==
    /\ p \in Seq(Jobs) /\ Range(p) = Range(q) \cup {Message("error", r)} /\ (\A x \in Range(p) : Before(x.id))
    /\ Placed(closed, lines, p, turn, Starting, unanswered) /\ Opened(lines, p, Starting, Open)
    /\ \A k : Follow(lines, q, k) => Follow(lines, p, k)

\* So it is when the first reaction is refused.
LEMMA RefusalFollows ==
    ASSUME PeerTypes, PeerRuns, jobs # <<>>, NEW h, h = Head(jobs), NEW q, q = Tail(jobs), Works(h)
    PROVE  RefusalQueued(q, Append(q, Message("error", h.id)), h.id)
<1> DEFINE p == Append(q, Message("error", h.id))
<1> DEFINE x == Message("error", h.id)
<1>1. /\ h \in Jobs /\ q \in Seq(Jobs) /\ h.id \in Requests /\ h.id # 0 /\ h.id \notin Starting
      /\ Opened(lines, q, Starting, Open)
      /\ Placed(closed, lines, q, turn, Starting \cup {h.id}, unanswered)
      /\ Before(h.id) /\ (\A y \in Range(q) : Before(y.id))
  BY FirstJob
<1>2. x \in Jobs /\ x.id = h.id /\ x.type = "error" /\ Works(x) /\ x.type \notin Acts
  BY <1>1 DEF Message, Jobs, JobTypes, Works, Acts
<1>3. closed \in BOOLEAN /\ 0 \notin Starting \cup {h.id} /\ 0 \notin unanswered
  BY <1>1, NoRequestIsZero DEF PeerTypes, RegistryTypes
<1>11. p = Append(q, x)
  BY DEF x
<1> HIDE DEF x, p
<1>4. p \in Seq(Jobs) /\ Range(p) = Range(q) \cup {x}
  <2>1. Append(q, x) \in Seq(Jobs) /\ Range(Append(q, x)) = Range(q) \cup {x}
    BY <1>1, <1>2, RangeAppend
  <2> QED
    BY <1>11, <2>1
<1>5. Placed(closed, lines, Append(q, x), turn, (Starting \cup {h.id}) \ {x.id}, unanswered)
  BY <1>1, <1>2, <1>3, PlacedAppend
<1>6. (Starting \cup {h.id}) \ {x.id} = Starting
  BY <1>1, <1>2
<1>7. Placed(closed, lines, p, turn, Starting, unanswered)
  BY <1>5, <1>6, <1>11
<1>8. Opened(lines, Append(q, x), Starting, Open)
  BY <1>1, <1>2, OpenedAppend
<1>9. \A k : Follow(lines, q, k) => Follow(lines, Append(q, x), k)
  BY <1>1, <1>2, FollowAppend
<1>10. \A y \in Range(p) : Before(y.id)
  BY <1>1, <1>2, <1>4
<1> QED
  BY <1>4, <1>7, <1>8, <1>9, <1>10, <1>11 DEF x, p, RefusalQueued

\* The invariant after a reaction that writes nothing.
LEMMA ReactionKeeps ==
    ASSUME PeerInv, Running, jobs # <<>>, Head(jobs).type \notin Outcomes, Reacts, UNCHANGED <<out, unanswered, twice>>,
           jobs' \in Seq(Jobs), Range(Tail(jobs)) \subseteq Range(jobs'), PeerRuns', SessionsLeft', TurnHeld', RegistryTypes',
           handled' \in {0} \cup Requests, session'[0] = session[0], \A r \in Requests : turn = r => turn' = r \/ Queued(r)'
    PROVE  PeerInv'
<1>1. PeerTypes /\ OwedIsKept /\ ~twice
  BY DEF PeerInv
<1>2. PeerTypes'
  BY <1>1 DEF PeerTypes, Reacts
<1>3. \A x \in Range(jobs) : x.type \in Outcomes => x \in Range(jobs')
  <2>1. jobs \in Seq(Jobs)
    BY <1>1 DEF PeerTypes, RegistryTypes
  <2>2. Range(jobs) = Range(Tail(jobs)) \cup {Head(jobs)}
    BY <2>1, RangeTail
  <2> QED
    BY <2>2
<1>4. \A r \in owed : Waited(r) => Waited(r)' \/ Queued(r)'
  <2>1. owed \subseteq Requests
    BY <1>1 DEF PeerTypes
  <2> QED
    BY <2>1 DEF Waited, Reacts
<1>5. OwedIsKept'
  BY <1>1, <1>3, <1>4, StillKept DEF Reacts
<1> QED
  BY <1>1, <1>2, <1>5 DEF PeerInv

\* A session/new is handled.
LEMMA SessionNewKeeps ==
    ASSUME PeerInv, Running, jobs # <<>>, NEW h, h = Head(jobs), h.type = "session/new", HandleSessionNew(h.id), Reacts,
           UNCHANGED <<out, unanswered, twice>>
    PROVE  PeerInv'
<1> DEFINE q == Tail(jobs)
<1>0. PeerTypes /\ SessionsLeft /\ TurnHeld /\ PeerRuns
  BY DEF PeerInv
<1>1. /\ q \in Seq(Jobs) /\ h.id \in Requests /\ h.id # 0 /\ Follow(lines, q, handled)
      /\ Before(h.id) /\ Before(turn) /\ Before(handled) /\ (\A x \in Range(q) : Before(x.id)) /\ \A s \in Starting : Before(s)
  BY <1>0, FirstJob
<1>2. Works(h) /\ h.type \notin Outcomes /\ UNCHANGED <<turn, turnAt, turnOpen, busy, handled>>
  BY DEF Works, Outcomes, HandleSessionNew, promptVars
<1>3. Open' = Open
  BY DEF Open, Reacts
<1>4. turn \in {0} \cup Requests /\ handled \in {0} \cup Requests
      /\ session \in [Sessions -> {"none", "starting", "live", "ending", "abandoned"}] /\ session[0] # "starting"
      /\ \A s \in Sessions : session[s] = "abandoned" => s = 0
  BY <1>0 DEF PeerTypes, RegistryTypes
<1>7. /\ TurnHeld' <=> ChosenOnce(jobs', turnAt)
      /\ RegistryTypes' <=> /\ session' \in [Sessions -> {"none", "starting", "live", "ending", "abandoned"}]
                            /\ session'[0] # "starting" /\ \A s \in Sessions : session'[s] = "abandoned" => s = 0
  BY <1>0, <1>2 DEF TurnHeld, PeerTypes, RegistryTypes, Reacts
<1>8. ChosenOnce(q, turnAt)
  BY <1>0, ChosenTail DEF TurnHeld, PeerTypes, RegistryTypes
<1>5. CASE session' = [session EXCEPT ![h.id] = "starting"] /\ jobs' = q
  <2>1. h.id \in Sessions
    BY <1>1 DEF Sessions
  <2>2. /\ session' \in [Sessions -> {"none", "starting", "live", "ending", "abandoned"}] /\ session'[0] # "starting"
        /\ session'[h.id] = "starting" /\ \A s \in Sessions : s # h.id => session'[s] = session[s]
        /\ session'[0] = session[0] /\ \A s \in Sessions : session'[s] = "abandoned" => s = 0
    BY <1>1, <1>4, <1>5, <2>1
  <2>3. Starting' = Starting \cup {h.id}
    BY <2>1, <2>2 DEF Starting
  <2>4. SessionsLeft'
    BY <1>0, <2>2 DEF SessionsLeft, Reacts
  <2>5. /\ Opened(lines, q, Starting \cup {h.id}, Open)
        /\ Placed(closed, lines, q, turn, Starting \cup {h.id}, unanswered)
    BY <1>0, <1>2, FirstJob
  <2>6. Placed(closed, lines', jobs', turn', Starting', unanswered') /\ Opened(lines', jobs', Starting', Open')
        /\ Follow(lines', jobs', handled')
    BY <1>1, <1>2, <1>3, <1>5, <2>3, <2>5 DEF Reacts
  <2>7. (\A x \in Range(jobs') : Before(x.id)) /\ (\A s \in Starting' : Before(s)) /\ Before(turn') /\ Before(handled')
    BY <1>1, <1>2, <1>5, <2>3
  <2>8. UNCHANGED <<written, unread, buffered, closed>> /\ lines' \subseteq lines /\ Open' \subseteq Open /\ unanswered' \subseteq unanswered
    BY <1>3 DEF Reacts
  <2>9. PeerRuns'
    BY <1>0, <2>6, <2>7, <2>8, RunsAgain
  <2>10. TurnHeld' /\ RegistryTypes'
    BY <1>5, <1>7, <1>8, <2>2
  <2> QED
    BY <1>1, <1>2, <1>4, <1>5, <2>2, <2>4, <2>9, <2>10, ReactionKeeps
<1>6. CASE jobs' = Append(q, Message("error", h.id)) /\ session' = session
  <2> DEFINE p == Append(q, Message("error", h.id))
  <2>0. /\ p \in Seq(Jobs) /\ Range(p) = Range(q) \cup {Message("error", h.id)} /\ (\A x \in Range(p) : Before(x.id))
        /\ Placed(closed, lines, p, turn, Starting, unanswered) /\ Opened(lines, p, Starting, Open)
        /\ \A k : Follow(lines, q, k) => Follow(lines, p, k)
    <3>1. RefusalQueued(q, p, h.id)
      BY <1>0, <1>2, RefusalFollows
    <3> QED
      BY <3>1 DEF RefusalQueued
  <2>1. /\ jobs' \in Seq(Jobs) /\ Range(jobs') = Range(q) \cup {Message("error", h.id)} /\ (\A x \in Range(jobs') : Before(x.id))
        /\ Placed(closed, lines, jobs', turn, Starting, unanswered) /\ Opened(lines, jobs', Starting, Open)
        /\ Follow(lines, jobs', handled)
    <3> HIDE DEF p, q
    <3> QED
      BY <1>1, <1>6, <2>0 DEF p
  <2>2. Starting' = Starting
    BY <1>6 DEF Starting
  <2>3. Placed(closed, lines', jobs', turn', Starting', unanswered') /\ Opened(lines', jobs', Starting', Open')
        /\ Follow(lines', jobs', handled')
    BY <1>2, <1>3, <2>1, <2>2 DEF Reacts
  <2>4. (\A s \in Starting' : Before(s)) /\ Before(turn') /\ Before(handled')
    BY <1>1, <1>2, <2>2
  <2>5. UNCHANGED <<written, unread, buffered, closed>> /\ lines' \subseteq lines /\ Open' \subseteq Open /\ unanswered' \subseteq unanswered
    BY <1>3 DEF Reacts
  <2>6. PeerRuns'
    BY <1>0, <2>1, <2>3, <2>4, <2>5, RunsAgain
  <2>7. SessionsLeft'
    BY <1>0, <1>6, StillLeft DEF Reacts
  <2>8. TurnHeld' /\ RegistryTypes'
    <3> DEFINE x == Message("error", h.id)
    <3>1. x \in Jobs /\ x.type = "error"
      BY <1>1 DEF Message, Jobs, JobTypes
    <3> HIDE DEF x
    <3>2. ChosenOnce(Append(q, x), turnAt)
      BY <1>1, <1>8, <3>1, ChosenAppend
    <3>3. ChosenOnce(jobs', turnAt)
      BY <1>6, <3>2 DEF x
    <3> QED
      BY <1>4, <1>6, <1>7, <3>3
  <2> QED
    BY <1>2, <1>4, <1>6, <2>1, <2>6, <2>7, <2>8, ReactionKeeps
<1> QED
  BY <1>5, <1>6 DEF HandleSessionNew

\* A prompt is handled.
LEMMA SessionPromptKeeps ==
    ASSUME PeerInv, Running, jobs # <<>>, NEW h, h = Head(jobs), h.type = "session/prompt", HandleSessionPrompt(h), Reacts,
           UNCHANGED <<out, unanswered, twice>>
    PROVE  PeerInv'
<1> DEFINE q == Tail(jobs)
<1>0. PeerTypes /\ SessionsLeft /\ TurnHeld /\ PeerRuns
  BY DEF PeerInv
<1>1. /\ q \in Seq(Jobs) /\ h.id \in Requests /\ h.id # 0
      /\ Before(h.id) /\ Before(turn) /\ (\A x \in Range(q) : Before(x.id)) /\ \A s \in Starting : Before(s)
  BY <1>0, FirstJob
<1>2. Works(h) /\ h.type \in Acts /\ h.type \notin Outcomes /\ handled' = h.id /\ session' = session
  BY DEF Works, Acts, Outcomes, HandleSessionPrompt
<1>3. Open' = Open /\ Starting' = Starting /\ lines' = lines /\ closed' = closed /\ unanswered' = unanswered
  BY <1>2 DEF Open, Starting, Reacts
<1>4. /\ turn \in {0} \cup Requests /\ handled' \in {0} \cup Requests
      /\ session' \in [Sessions -> {"none", "starting", "live", "ending", "abandoned"}] /\ session'[0] # "starting"
  BY <1>0, <1>1, <1>2 DEF PeerTypes, RegistryTypes
<1>5. UNCHANGED <<written, unread, buffered, closed>> /\ lines' \subseteq lines /\ Open' \subseteq Open /\ unanswered' \subseteq unanswered
  BY <1>3 DEF Reacts
<1>6. SessionsLeft'
  BY <1>0, <1>2, StillLeft DEF Reacts
<1>7. Follow(lines, q, h.id) /\ Opened(lines, q, Starting, Open)
  BY <1>0, <1>2, FirstJob
<1>10. ChosenOnce(q, turnAt)
  BY <1>0, ChosenTail DEF TurnHeld, PeerTypes, RegistryTypes
<1>11. RegistryTypes' <=> /\ turn' \in {0} \cup Requests /\ busy' \in {0} \cup Requests /\ turnOpen' \in BOOLEAN
                          /\ turnAt' \in {"none", "replacing", "probing", "dropping", "chosen", "sent", "puttingAway"}
  BY <1>0, <1>2 DEF PeerTypes, RegistryTypes, Reacts
<1>12. session'[0] = session[0]
  BY <1>2
<1>8. CASE /\ busy = 0 /\ turn' = h.id /\ busy' = h.id /\ turnOpen' = TRUE
           /\ \/ turnAt' = "chosen" /\ jobs' = Append(q, Message("chosen", h.id))
              \/ turnAt' \in {"replacing", "probing"} /\ jobs' = q
  <2>0. turn = 0 /\ turnAt = "none"
    BY <1>0, <1>8 DEF TurnHeld
  <2>1. Placed(closed, lines, q, h.id, Starting, unanswered)
    BY <1>0, <1>2, <2>0, FirstJob
  <2>2. /\ jobs' \in Seq(Jobs) /\ Range(q) \subseteq Range(jobs') /\ (\A x \in Range(jobs') : Before(x.id))
        /\ Placed(closed, lines, jobs', h.id, Starting, unanswered) /\ Opened(lines, jobs', Starting, Open)
        /\ Follow(lines, jobs', h.id) /\ ChosenOnce(jobs', turnAt')
    <3>1. CASE turnAt' = "chosen" /\ jobs' = Append(q, Message("chosen", h.id))
      <4> DEFINE x == Message("chosen", h.id)
      <4>1. x \in Jobs /\ x.id = h.id /\ x.type = "chosen" /\ ~ Works(x) /\ x.type \notin Acts
        BY <1>1 DEF Message, Jobs, JobTypes, Works, Acts
      <4>2. jobs' = Append(q, x)
        BY <3>1
      <4> HIDE DEF x
      <4>3. closed \in BOOLEAN /\ 0 \notin Starting /\ 0 \notin unanswered
        BY <1>0, NoRequestIsZero DEF PeerTypes, RegistryTypes
      <4> HIDE DEF q
      <4>4. Append(q, x) \in Seq(Jobs) /\ Range(Append(q, x)) = Range(q) \cup {x}
        BY <1>1, <4>1, RangeAppend
      <4>5. Placed(closed, lines, Append(q, x), h.id, Starting, unanswered)
        BY <1>1, <2>1, <4>1, <4>3, PlacedAppend
      <4>6. Opened(lines, Append(q, x), Starting, Open) /\ Follow(lines, Append(q, x), h.id)
        BY <1>1, <1>7, <4>1, OpenedAppend, FollowAppend
      <4>7. ChosenOnce(Append(q, x), "chosen")
        BY <1>1, <1>10, <2>0, <4>1, ChosenAppend
      <4> QED
        BY <1>1, <3>1, <4>1, <4>2, <4>4, <4>5, <4>6, <4>7
    <3>2. CASE turnAt' \in {"replacing", "probing"} /\ jobs' = q
      <4> HIDE DEF q
      <4>1. ChosenOnce(q, turnAt')
        BY <1>10, <2>0, NoneChosen
      <4> QED
        BY <1>1, <1>7, <2>1, <3>2, <4>1
    <3> QED
      BY <1>8, <3>1, <3>2
  <2>3. Placed(closed, lines', jobs', turn', Starting', unanswered') /\ Opened(lines', jobs', Starting', Open')
        /\ Follow(lines', jobs', handled')
    BY <1>2, <1>3, <1>8, <2>2
  <2>4. (\A s \in Starting' : Before(s)) /\ Before(turn') /\ Before(handled')
    BY <1>1, <1>2, <1>3, <1>8
  <2>5. PeerRuns'
    BY <1>0, <1>5, <2>2, <2>3, <2>4, RunsAgain
  <2>6. TurnHeld'
    BY <1>1, <1>8, <2>2 DEF TurnHeld
  <2>7. RegistryTypes'
    BY <1>1, <1>8, <1>11
  <2>8. \A r \in Requests : turn # r
    BY <2>0 DEF Requests
  <2> QED
    BY <1>2, <1>4, <1>6, <1>12, <2>2, <2>5, <2>6, <2>7, <2>8, ReactionKeeps
<1>9. CASE UNCHANGED <<turn, turnAt, turnOpen, busy>> /\ jobs' = Append(q, Message("error", h.id))
  <2> DEFINE p == Append(q, Message("error", h.id))
  <2>0. RefusalQueued(q, p, h.id)
    BY <1>0, <1>2, RefusalFollows
  <2>1. /\ jobs' \in Seq(Jobs) /\ Range(jobs') = Range(q) \cup {Message("error", h.id)} /\ (\A x \in Range(jobs') : Before(x.id))
        /\ Placed(closed, lines, jobs', turn, Starting, unanswered) /\ Opened(lines, jobs', Starting, Open)
        /\ Follow(lines, jobs', h.id)
    <3> HIDE DEF p, q
    <3> QED
      BY <1>7, <1>9, <2>0 DEF p, RefusalQueued
  <2>2. Placed(closed, lines', jobs', turn', Starting', unanswered') /\ Opened(lines', jobs', Starting', Open')
        /\ Follow(lines', jobs', handled')
    BY <1>2, <1>3, <1>9, <2>1
  <2>3. (\A s \in Starting' : Before(s)) /\ Before(turn') /\ Before(handled')
    BY <1>1, <1>2, <1>3, <1>9
  <2>4. PeerRuns'
    BY <1>0, <1>5, <2>1, <2>2, <2>3, RunsAgain
  <2>5. TurnHeld'
    <3> DEFINE x == Message("error", h.id)
    <3>1. x \in Jobs /\ x.type = "error"
      BY <1>1 DEF Message, Jobs, JobTypes
    <3>2. jobs' = Append(q, x)
      BY <1>9
    <3> HIDE DEF x, q
    <3>3. ChosenOnce(Append(q, x), turnAt)
      BY <1>1, <1>10, <3>1, ChosenAppend
    <3> QED
      BY <1>0, <1>9, <3>2, <3>3 DEF TurnHeld
  <2>6. RegistryTypes'
    BY <1>0, <1>9, <1>11 DEF PeerTypes, RegistryTypes
  <2> QED
    BY <1>2, <1>4, <1>6, <1>9, <1>12, <2>1, <2>4, <2>5, <2>6, ReactionKeeps
<1> QED
  BY <1>8, <1>9 DEF HandleSessionPrompt, promptVars

\* A cancel is handled.
LEMMA CancelSessionKeeps ==
    ASSUME PeerInv, Running, jobs # <<>>, NEW h, h = Head(jobs), h.type = "session/cancel", CancelSession(h), Reacts,
           UNCHANGED <<out, unanswered, twice>>
    PROVE  PeerInv'
<1> DEFINE q == Tail(jobs)
<1>0. PeerTypes /\ SessionsLeft /\ TurnHeld /\ PeerRuns
  BY DEF PeerInv
<1>1. /\ q \in Seq(Jobs) /\ h.id \in Requests /\ h.id # 0
      /\ Before(h.id) /\ Before(turn) /\ (\A x \in Range(q) : Before(x.id)) /\ \A s \in Starting : Before(s)
  BY <1>0, FirstJob
<1>2. /\ ~ Works(h) /\ h.type \in Acts /\ h.type \notin Outcomes /\ handled' = h.id /\ session' = session
      /\ Settled(q) \/ (jobs' = q /\ UNCHANGED <<turn, turnAt, turnOpen, busy>>)
  BY DEF Works, Acts, Outcomes, CancelSession, promptVars
<1>3. Open' = Open /\ Starting' = Starting /\ lines' = lines /\ closed' = closed /\ unanswered' = unanswered
  BY <1>2 DEF Open, Starting, Reacts
<1>4. /\ turn \in {0} \cup Requests /\ handled' \in {0} \cup Requests /\ session'[0] = session[0]
      /\ closed \in BOOLEAN /\ 0 \notin Starting /\ 0 \notin unanswered
  BY <1>0, <1>1, <1>2, NoRequestIsZero DEF PeerTypes, RegistryTypes
<1>5. UNCHANGED <<written, unread, buffered, closed>> /\ lines' \subseteq lines /\ Open' \subseteq Open /\ unanswered' \subseteq unanswered
  BY <1>3 DEF Reacts
<1>6. SessionsLeft'
  BY <1>0, <1>2, StillLeft DEF Reacts
<1>7. /\ Follow(lines, q, h.id) /\ Opened(lines, q, Starting, Open)
      /\ Placed(closed, lines, q, turn, Starting, unanswered)
  BY <1>0, <1>2, FirstJob
<1>8. Before(0)
  BY <1>0 DEF PeerTypes, RegistryTypes, Before, OlderThan
<1>9. ChosenOnce(q, turnAt) /\ turn \in {0, busy} /\ (turnAt = "none" <=> turn = 0)
  BY <1>0, ChosenTail DEF TurnHeld, PeerTypes, RegistryTypes
<1>10. /\ TurnHeld' /\ turn' \in {0} \cup Requests /\ busy' = busy
       /\ turnAt' \in {"none", turnAt} /\ turnOpen' \in BOOLEAN
       /\ \/ jobs' = q /\ turn' = turn
          \/ turn # 0 /\ Message("result", turn) \in Jobs /\ jobs' = Append(q, Message("result", turn)) /\ turn' = 0
       /\ \A r \in Requests : turn = r => turn' = r \/ Queued(r)'
  <2>1. CASE Settled(q)
    <3> HIDE DEF q
    <3> QED
      BY <1>0, <1>1, <1>9, <2>1, SettledFacts
  <2>2. CASE jobs' = q /\ UNCHANGED <<turn, turnAt, turnOpen, busy>>
    <3> HIDE DEF q
    <3>1. TurnHeld'
      BY <1>9, <2>2 DEF TurnHeld
    <3>2. turnOpen \in BOOLEAN
      BY <1>0 DEF PeerTypes, RegistryTypes
    <3> QED
      BY <1>4, <2>2, <3>1, <3>2
  <2> QED
    BY <1>2, <2>1, <2>2
<1>11. /\ jobs' \in Seq(Jobs) /\ Range(q) \subseteq Range(jobs') /\ (\A x \in Range(jobs') : Before(x.id))
       /\ Follow(lines, jobs', h.id) /\ Opened(lines, jobs', Starting, Open)
       /\ Placed(closed, lines, jobs', turn', Starting, unanswered) /\ Before(turn')
  <2>1. CASE jobs' = q /\ turn' = turn
    <3> HIDE DEF q
    <3> QED
      BY <1>1, <1>7, <2>1
  <2>2. CASE turn # 0 /\ Message("result", turn) \in Jobs /\ jobs' = Append(q, Message("result", turn)) /\ turn' = 0
    <3> DEFINE x == Message("result", turn)
    <3>1. jobs' = Append(q, x) /\ turn' = 0
      BY <2>2
    <3>2. x \in Jobs /\ x.id = turn /\ x.type = "result" /\ x.type \notin Acts /\ Works(x)
      BY <2>2 DEF Message, Acts, Works
    <3> HIDE DEF q, x
    <3>3. Append(q, x) \in Seq(Jobs) /\ Range(Append(q, x)) = Range(q) \cup {x}
      BY <1>1, <3>2, RangeAppend
    <3>4. Follow(lines, Append(q, x), h.id)
      BY <1>1, <1>7, <3>2, FollowAppend
    <3>5. Opened(lines, Append(q, x), Starting, Open)
      BY <1>1, <1>7, <3>2, OpenedAppend
    <3>6. Placed(closed, lines, Append(q, x), 0, Starting, unanswered)
      BY <1>1, <1>4, <1>7, <3>2, PlacedAppend
    <3> QED
      BY <1>1, <1>8, <3>1, <3>2, <3>3, <3>4, <3>5, <3>6
  <2> QED
    BY <1>10, <2>1, <2>2
<1>12. Placed(closed, lines', jobs', turn', Starting', unanswered') /\ Opened(lines', jobs', Starting', Open')
       /\ Follow(lines', jobs', handled')
  BY <1>2, <1>3, <1>11
<1>13. (\A s \in Starting' : Before(s)) /\ Before(handled')
  BY <1>1, <1>2, <1>3
<1>14. PeerRuns'
  BY <1>0, <1>5, <1>11, <1>12, <1>13, RunsAgain
<1>15. RegistryTypes'
  <2>1. busy' \in {0} \cup Requests
        /\ turnAt' \in {"none", "replacing", "probing", "dropping", "chosen", "sent", "puttingAway"}
    BY <1>0, <1>10 DEF PeerTypes, RegistryTypes
  <2> QED
    BY <1>0, <1>2, <1>10, <2>1 DEF PeerTypes, RegistryTypes, Reacts
<1> QED
  BY <1>2, <1>4, <1>6, <1>10, <1>11, <1>14, <1>15, ReactionKeeps

\* The turn has its child.
LEMMA DriverChosenKeeps ==
    ASSUME PeerInv, Running, jobs # <<>>, NEW h, h = Head(jobs), h.type = "chosen", DriverChosen, Reacts,
           UNCHANGED <<out, unanswered, twice>>
    PROVE  PeerInv'
<1> DEFINE q == Tail(jobs)
<1>0. PeerTypes /\ SessionsLeft /\ TurnHeld /\ PeerRuns
  BY DEF PeerInv
<1>1. /\ q \in Seq(Jobs) /\ Before(turn) /\ Before(handled)
      /\ (\A x \in Range(q) : Before(x.id)) /\ \A s \in Starting : Before(s)
  BY <1>0, FirstJob
<1>2. /\ ~ Works(h) /\ h.type \notin Outcomes /\ jobs' = q /\ turnAt' \in {"sent", "puttingAway"}
      /\ UNCHANGED <<session, turn, turnOpen, busy, handled>>
  BY DEF Works, Outcomes, DriverChosen
<1>3. Open' = Open /\ Starting' = Starting /\ lines' = lines /\ closed' = closed /\ unanswered' = unanswered
  BY <1>2 DEF Open, Starting, Reacts
<1>4. UNCHANGED <<written, unread, buffered, closed>> /\ lines' \subseteq lines /\ Open' \subseteq Open /\ unanswered' \subseteq unanswered
  BY <1>3 DEF Reacts
<1>5. SessionsLeft'
  BY <1>0, <1>2, StillLeft DEF Reacts
<1>6. /\ Follow(lines, q, handled) /\ Opened(lines, q, Starting, Open)
      /\ Placed(closed, lines, q, turn, Starting, unanswered)
  BY <1>0, <1>2, FirstJob
<1>7. Placed(closed, lines', jobs', turn', Starting', unanswered') /\ Opened(lines', jobs', Starting', Open')
      /\ Follow(lines', jobs', handled')
  BY <1>2, <1>3, <1>6
<1>8. (\A x \in Range(jobs') : Before(x.id)) /\ (\A s \in Starting' : Before(s)) /\ Before(turn') /\ Before(handled')
  BY <1>1, <1>2, <1>3
<1>9. PeerRuns'
  BY <1>0, <1>4, <1>7, <1>8, RunsAgain
<1>10. TurnHeld'
  <2>1. turnAt = "chosen" /\ \A other : ChosenOnce(q, other)
    BY <1>0, ChosenTail DEF TurnHeld, PeerTypes, RegistryTypes
  <2> HIDE DEF q
  <2> QED
    BY <1>0, <1>2, <2>1 DEF TurnHeld
<1>11. RegistryTypes'
  BY <1>0, <1>2 DEF PeerTypes, RegistryTypes, Reacts
<1>12. handled' \in {0} \cup Requests /\ session'[0] = session[0]
  BY <1>0, <1>2 DEF PeerTypes
<1>13. jobs' \in Seq(Jobs) /\ Range(q) \subseteq Range(jobs')
  BY <1>1, <1>2
<1> QED
  BY <1>2, <1>5, <1>9, <1>10, <1>11, <1>12, <1>13, ReactionKeeps

\* An outcome is sent.
LEMMA RespondsKeeps ==
    ASSUME PeerInv, Running, jobs # <<>>, NEW h, h = Head(jobs), h.type \in Outcomes, Responds(h.type, h.id), Reacts,
           jobs' = Tail(jobs), busy' = (IF busy = h.id THEN 0 ELSE busy), UNCHANGED <<session, turn, turnAt, turnOpen, handled>>
    PROVE  PeerInv'
<1> DEFINE q == Tail(jobs)
           f == IF h.type = "unserializable" THEN Message("error", h.id) ELSE Message(h.type, h.id)
<1>0. PeerTypes /\ SessionsLeft /\ OwedIsKept /\ TurnHeld /\ PeerRuns /\ twice = FALSE
  BY DEF PeerInv, PeerTypes, RegistryTypes
<1>1. /\ h \in Jobs /\ q \in Seq(Jobs) /\ Range(jobs) = Range(q) \cup {h} /\ h.id \in Requests /\ h.id # 0
      /\ Follow(lines, q, handled) /\ Opened(lines, q, Starting, Open)
      /\ Before(turn) /\ Before(handled) /\ (\A x \in Range(q) : Before(x.id)) /\ \A s \in Starting : Before(s)
  BY <1>0, FirstJob
<1>2. Works(h)
  BY DEF Works, Outcomes
<1>3. h.id \in unanswered /\ Placed(closed, lines, q, turn, Starting, unanswered \ {h.id})
  BY <1>0, <1>2, FirstJob
<1>4. Answers(h.type, h.id) = <<f>>
  BY DEF Answers
<1>5. f \in Frames /\ f.id = h.id
  BY <1>1 DEF Frames, Message, Outcomes
<1> HIDE DEF f
<1>6. out' = Sent(f) /\ Answered(h.id, 1)
  <2>1. <<f>> # <<>> /\ Head(<<f>>) = f /\ Len(<<f>>) = 1
    OBVIOUS
  <2> QED
    BY <1>4, <2>1 DEF Responds
<1>7. /\ unanswered' = IF closed THEN unanswered ELSE unanswered \ {h.id}
      /\ twice' = FALSE
  <2> DEFINE r == h.id
  <2> HIDE DEF r
  <2>1. r \in unanswered /\ Answered(r, 1)
    BY <1>3, <1>6 DEF r
  <2>2. /\ unanswered' = IF closed THEN unanswered ELSE unanswered \ {r}
        /\ twice' = twice \/ twice' = (twice \/ r \notin unanswered)
    BY <2>1 DEF Answered
  <2>3. twice' = FALSE
    BY <1>0, <2>1, <2>2
  <2> QED
    BY <2>2, <2>3 DEF r
<1>8. Placed(closed, lines, q, turn, Starting, unanswered')
  <2>1. CASE closed
    <3>1. closed = TRUE /\ unanswered' = unanswered
      BY <1>0, <1>7, <2>1 DEF PeerTypes, RegistryTypes
    <3>2. Placed(TRUE, lines, q, turn, Starting, unanswered \ {h.id})
      BY <1>3, <3>1
    <3>3. Placed(TRUE, lines, q, turn, Starting, unanswered)
      BY <1>3, <3>2, PlacedSilent
    <3> QED
      BY <3>1, <3>3
  <2>2. CASE ~ closed
    BY <1>3, <1>7, <2>2
  <2> QED
    BY <2>1, <2>2
<1>9. Open' = Open /\ Starting' = Starting /\ lines' = lines /\ closed' = closed
  BY DEF Open, Starting, Reacts
<1>10. UNCHANGED <<written, unread, buffered, closed>> /\ lines' \subseteq lines /\ Open' \subseteq Open /\ unanswered' \subseteq unanswered
  BY <1>7, <1>9 DEF Reacts
<1>11. PeerRuns'
  <2>1. Placed(closed, lines', jobs', turn', Starting', unanswered') /\ Opened(lines', jobs', Starting', Open')
        /\ Follow(lines', jobs', handled')
    BY <1>1, <1>8, <1>9
  <2>2. (\A x \in Range(jobs') : Before(x.id)) /\ (\A s \in Starting' : Before(s)) /\ Before(turn') /\ Before(handled')
    BY <1>1, <1>9
  <2> QED
    BY <1>0, <1>10, <2>1, <2>2, RunsAgain
<1>12. out' \subseteq Frames /\ out \subseteq out' /\ (~ closed /\ ~ broken => f \in out')
  BY <1>0, <1>5, <1>6 DEF Sent, PeerTypes
<1>13. PeerTypes'
  <2>1. jobs' \in Seq(Jobs)
    BY <1>1
  <2>2. unanswered' \subseteq unanswered
    BY <1>7
  <2>3. busy' \in {0} \cup Requests
    BY <1>0 DEF PeerTypes, RegistryTypes
  <2>4. RegistryTypes'
    BY <1>0, <1>1, <2>3 DEF PeerTypes, RegistryTypes, Reacts
  <2> QED
    BY <1>0, <1>7, <1>12, <2>1, <2>2, <2>4 DEF PeerTypes, Reacts
<1>14. SessionsLeft'
  BY <1>0, StillLeft DEF Reacts
<1>15. OwedIsKept'
  <2>1. CASE closed \/ broken
    BY <1>0, <2>1 DEF OwedIsKept, Reacts
  <2>2. CASE ~ closed /\ ~ broken
    <3>1. ASSUME NEW r \in owed, Kept(r) PROVE Kept(r)'
      <4>1. CASE phase \notin {"flushing", "exited"} /\ Queued(r)
        <5>1. PICK x \in Range(jobs) : x.type \in Outcomes /\ x.id = r
          BY <4>1 DEF Queued
        <5>2. CASE x = h
          <6>1. f.id = r /\ f \in out'
            BY <1>5, <1>12, <2>2, <5>1, <5>2
          <6> QED
            BY <4>1, <6>1 DEF Kept, Reacts
        <5>3. CASE x \in Range(q)
          <6>1. Queued(r)'
            BY <5>1, <5>3 DEF Queued
          <6> QED
            BY <4>1, <6>1 DEF Kept, Reacts
        <5> QED
          BY <1>1, <5>1, <5>2, <5>3
      <4>2. CASE phase = "cleaning" /\ Waited(r)
        BY <4>2 DEF Kept, Waited, Reacts
      <4>3. CASE r \in delivered
        BY <4>3 DEF Kept, Reacts
      <4>4. CASE phase # "exited" /\ ~(phase = "flushing" /\ flushed) /\ \E g \in out : g.id = r
        BY <1>12, <4>4 DEF Kept, Reacts
      <4> QED
        BY <3>1, <4>1, <4>2, <4>3, <4>4 DEF Kept
    <3> QED
      BY <1>0, <3>1 DEF OwedIsKept, Reacts
  <2> QED
    BY <2>1, <2>2
<1>16. TurnHeld'
  <2>1. h.id # turn
    BY <1>0, <1>1, <1>2 DEF PeerRuns, Placed
  <2>2. ChosenOnce(q, turnAt)
    BY <1>0, ChosenTail DEF TurnHeld, PeerTypes, RegistryTypes
  <2> HIDE DEF q
  <2>3. jobs' = q
    BY DEF q
  <2> QED
    BY <1>0, <2>1, <2>2, <2>3 DEF TurnHeld
<1> QED
  BY <1>7, <1>11, <1>13, <1>14, <1>15, <1>16 DEF PeerInv

\* A reaction runs.
LEMMA RunJobKeeps ==
    ASSUME PeerInv, RunJob
    PROVE  PeerInv'
<1>1. PICK h : h = Head(jobs)
  OBVIOUS
<1>2. Running /\ jobs # <<>> /\ Reacts
  BY DEF RunJob, Reacts, inputVars, exitVars
<1>3. \/ h.type = "session/new" /\ HandleSessionNew(h.id) /\ UNCHANGED <<out, unanswered, twice>>
      \/ h.type = "session/prompt" /\ HandleSessionPrompt(h) /\ UNCHANGED <<out, unanswered, twice>>
      \/ h.type = "session/cancel" /\ CancelSession(h) /\ UNCHANGED <<out, unanswered, twice>>
      \/ /\ h.type \in Outcomes /\ Responds(h.type, h.id)
         /\ jobs' = Tail(jobs) /\ busy' = (IF busy = h.id THEN 0 ELSE busy)
         /\ UNCHANGED <<session, turn, turnAt, turnOpen, handled>>
      \/ h.type = "chosen" /\ DriverChosen /\ UNCHANGED <<out, unanswered, twice>>
  BY <1>1 DEF RunJob, replyVars, Outcomes
<1> QED
  BY <1>1, <1>2, <1>3, SessionNewKeeps, SessionPromptKeeps, CancelSessionKeeps, DriverChosenKeeps, RespondsKeeps

(* The theorems *)

\* The invariant holds initially.
LEMMA PeerBegins ==
    ASSUME PeerInit
    PROVE  PeerInv
<1>1. /\ written = 0 /\ unread = <<>> /\ buffered = <<>> /\ unanswered = {}
      /\ lines = {} /\ jobs = <<>> /\ input = "open" /\ closed = FALSE /\ broken = FALSE
      /\ call = "none" /\ out = {} /\ delivered = {} /\ turn = 0 /\ turnAt = "none" /\ turnOpen = FALSE /\ busy = 0
      /\ registered = <<0>> /\ toDispose = <<>> /\ tracked = {}
      /\ phase = "up" /\ forced = FALSE /\ flushed = FALSE
      /\ twice = FALSE /\ handled = 0 /\ owed = {} /\ late = {}
  BY DEF PeerInit
<1>2. session \in [Sessions -> {"none", "live"}] /\ 0 \in Sessions /\ session[0] = "live"
      /\ \A s \in Sessions : s # 0 => session[s] = "none"
  BY DEF PeerInit, Sessions
<1>3. 0 \in 0..MaxMessages
  BY PeerAssumption
<1>4. /\ <<>> \in Seq(Marks) /\ <<>> \in Seq(Jobs) /\ <<>> \in Seq(Sessions) /\ <<0>> \in Seq(Sessions)
      /\ Range(<<>>) = {} /\ Range(<<0>>) = {0} /\ Len(<<>>) = 0
  <2>1. <<0>> \in Seq(Sessions)
    BY <1>2
  <2>2. Range(<<0>>) = {0}
    BY DEF Range
  <2>3. Range(<<>>) = {}
    BY DEF Range
  <2> QED
    BY <2>1, <2>2, <2>3
<1>5. PeerTypes
  BY <1>1, <1>2, <1>3, <1>4 DEF PeerTypes, RegistryTypes
<1>6. Starting = {} /\ Open = {0}
  BY <1>1, <1>2, <1>4 DEF Starting, Open
<1>7. SessionsLeft
  BY <1>1, <1>2, <1>4 DEF SessionsLeft
<1>8. OwedIsKept
  BY <1>1 DEF OwedIsKept
<1>9. Pipe
  <2>1. <<>> \o <<>> = <<>> /\ Flow(<<>>, 0, 0)
    BY DEF Flow
  <2> QED
    BY <1>1, <1>4, <2>1 DEF Pipe
<1>10. Before(0)
  BY <1>1, <1>4 DEF Before, OlderThan
<1>11. Heard
  BY <1>1, <1>4, <1>6, <1>10 DEF Heard
<1>12. LinesInOrder
  BY <1>1 DEF LinesInOrder
<1>13. Follow(lines, jobs, handled)
  BY <1>1, <1>4 DEF Follow, Ordered
<1>14. Placed(closed, lines, jobs, turn, Starting, unanswered)
  BY <1>1, <1>4, <1>6 DEF Placed, Distinct, Asks
<1>15. Opened(lines, jobs, Starting, Open)
  BY <1>1, <1>4, <1>6 DEF Opened
<1>16. TurnHeld
  BY <1>1, <1>4 DEF TurnHeld, ChosenOnce
<1> QED
  BY <1>1, <1>5, <1>7, <1>8, <1>9, <1>11, <1>12, <1>13, <1>14, <1>15, <1>16 DEF PeerInv, PeerRuns

\* Every action keeps it.
LEMMA PeerNextKeeps ==
    ASSUME PeerInv, PeerNext
    PROVE  PeerInv'
<1>1. CASE PipeBreaks \/ Delivers
  BY <1>1, PipeBreaksKeeps, DeliversKeeps
<1>2. CASE Reads \/ InputEnds \/ OutputFails \/ HandleLine \/ RunJob \/ TurnEnds
  BY <1>2, ReadsKeeps, InputEndsKeeps, OutputFailsKeeps, HandleLineKeeps, RunJobKeeps, TurnEndsKeeps
<1>3. CASE \E s \in Sessions : SessionStarts(s) \/ OpeningFails(s) \/ ChildGoes(s)
  BY <1>3, SessionStartsKeeps, OpeningFailsKeeps, ChildGoesKeeps
<1>4. CASE CallStarts \/ CallTimesOut
  BY <1>4, CallStartsKeeps, CallTimesOutKeeps
<1>5. CASE Signal \/ DisposalGoesOn
  BY <1>5, SignalKeeps, DisposalGoesOnKeeps
<1>6. CASE DisposalEnds \/ SweepEnds \/ DeadlineFires \/ FlushEnds
  BY <1>6, DisposalEndsKeeps, SweepEndsKeeps, DeadlineFiresKeeps, FlushEndsKeeps
<1>7. CASE ChildReplaced
  BY <1>7, ChildMovesKeeps DEF ChildReplaced, PeerInv, PeerTypes, RegistryTypes
<1>8. CASE StaleResult
  BY <1>8, ChildMovesKeeps DEF StaleResult
<1>9. CASE ProbeFails
  BY <1>9, ChildMovesKeeps DEF ProbeFails, PeerInv, PeerTypes, RegistryTypes
<1>10. CASE Probed \/ TurnChildGoes
  BY <1>10, ProbedKeeps, TurnChildGoesKeeps
<1> QED
  BY <1>1, <1>2, <1>3, <1>4, <1>5, <1>6, <1>7, <1>8, <1>9, <1>10 DEF PeerNext

\* So does a step of something else.
LEMMA PeerStutters ==
    ASSUME PeerInv, UNCHANGED peerVars
    PROVE  PeerInv'
<1>1. /\ UNCHANGED <<written, unread, buffered, lines, jobs, input, closed, broken, call, out, session>>
      /\ UNCHANGED <<turn, turnAt, turnOpen, busy, registered, toDispose, tracked, phase, forced, flushed>>
      /\ UNCHANGED <<delivered, unanswered, twice, handled, owed, late>>
  BY DEF peerVars, inputVars, registryVars, promptVars, exitVars, historyVars, replyVars
<1>2. PeerTypes' /\ SessionsLeft' /\ OwedIsKept' /\ TurnHeld' /\ ~ twice'
  <2>1. PeerTypes'
    BY <1>1 DEF PeerInv, PeerTypes, RegistryTypes
  <2>2. SessionsLeft' /\ TurnHeld' /\ ~ twice'
    BY <1>1, StillLeft, StillHeld DEF PeerInv
  <2>3. OwedIsKept'
    BY <1>1, StillKept DEF PeerInv
  <2> QED
    BY <2>1, <2>2, <2>3
<1>3. Running' => PeerRuns'
  <2>1. Starting' = Starting /\ Open' = Open /\ Running' = Running
    BY <1>1 DEF Starting, Open, Running
  <2>2. Steady
    BY <1>1 DEF Steady, inputVars, PeerInv, PeerTypes, RegistryTypes
  <2> QED
    BY <1>1, <2>1, <2>2, StillRuns DEF PeerInv
<1> QED
  BY <1>2, <1>3 DEF PeerInv

\* The inductive invariant of AgyPeer is one.
LEMMA PeerInvariance == PeerSpec => []PeerInv
<1>1. PeerInit => PeerInv
  BY PeerBegins
<1>2. PeerInv /\ [PeerNext]_peerVars => PeerInv'
  BY PeerNextKeeps, PeerStutters
<1> QED
  BY <1>1, <1>2, PTL DEF PeerSpec

\* It says that every request is answered, or will be.
LEMMA AnswersAreOwed ==
    ASSUME PeerInv
    PROVE  EveryRequestIsAnswered
<1>1. ~ twice /\ (call = "pending" => input = "open")
  BY DEF PeerInv, PeerTypes, RegistryTypes
<1>2. ASSUME Waiting, ~ closed, NEW r \in unanswered PROVE turn = r \/ session[r] = "starting"
  <2>1. Placed(closed, lines, jobs, turn, Starting, unanswered) /\ lines = {} /\ jobs = <<>>
    BY <1>2 DEF PeerInv, Waiting, PeerRuns
  <2>2. Range(jobs) = {} /\ Asks(lines) = {}
    BY <2>1 DEF Range, Asks
  <2> QED
    BY <1>2, <2>1, <2>2 DEF Placed, Starting
<1> QED
  BY <1>1, <1>2 DEF EveryRequestIsAnswered

\* In whatever chunks the frames arrive, no request of the client has two answers; and when nothing is left to do, one
\* without an answer is a turn that runs or a session that starts, unless the connection was closed.  And no request of
\* ours waits once the input has ended.
THEOREM RequestsAreAnsweredOnce == PeerSpec => []EveryRequestIsAnswered
BY PeerInvariance, AnswersAreOwed, PTL

\* It says what a clean exit leaves.
LEMMA NothingLeft ==
    ASSUME PeerInv
    PROVE  CleanExitLeavesNothing
<1>1. ASSUME phase = "exited", ~ forced
      PROVE  /\ \A s \in Sessions \ late : session[s] \in {"none", "starting"} \/ (s = 0 /\ session[s] = "abandoned")
             /\ flushed /\ ~closed /\ ~broken => owed \subseteq delivered
  BY <1>1 DEF PeerInv, SessionsLeft, OwedIsKept, Kept
<1> QED
  BY <1>1 DEF CleanExitLeavesNothing

\* An exit with code 0 leaves no child of a session that was added before the disposal ended, and the prompt whose turn the
\* disposal met has been answered if the flush finished with a client that reads; but for a session that the disposal meets
\* while ensureDriver waits for a child to die that it no longer holds.
THEOREM CleanExitsAreComplete == PeerSpec => []CleanExitLeavesNothing
BY PeerInvariance, NothingLeft, PTL

\* What is acted upon next is not older than what was acted upon last.
LEMMA InOrder ==
    ASSUME PeerInv, PeerNext
    PROVE  handled' >= handled
<1>0. PeerTypes /\ handled \in Nat
  BY NoRequestIsZero DEF PeerInv
<1>1. CASE HandleLine
  <2>1. handled' = handled
    BY <1>1 DEF HandleLine, Notified, replyVars
  <2> QED
    BY <1>0, <2>1
<1>2. CASE RunJob
  <2>1. PICK h : h = Head(jobs)
    OBVIOUS
  <2>2. Running /\ jobs # <<>> /\ (handled' = handled \/ (h.type \in Acts /\ handled' = h.id))
    BY <1>2, <2>1 DEF RunJob, Acts, HandleSessionNew, HandleSessionPrompt, CancelSession, DriverChosen
  <2>3. h.type \in Acts => handled <= h.id
    BY <1>0, <2>1, <2>2, FirstJob DEF PeerInv
  <2>4. h.id \in Nat
    <3>1. h \in Jobs
      BY <1>0, <2>1, <2>2, TailFacts DEF PeerTypes, RegistryTypes
    <3> QED
      BY <3>1 DEF Jobs, Requests
  <2> QED
    BY <1>0, <2>2, <2>3, <2>4
<1>3. CASE UNCHANGED handled
  BY <1>0, <1>3
<1>4. \/ HandleLine \/ RunJob \/ UNCHANGED handled
  BY DEF PeerNext, PipeBreaks, Delivers, Reads, InputEnds, OutputFails, TurnEnds, ChildReplaced, StaleResult, Probed,
         ProbeFails, ChildMoves, TurnChildGoes, SessionStarts, OpeningFails, ChildGoes,
         CallStarts, CallTimesOut, Signal, DisposalGoesOn, DisposalEnds, SweepEnds, DeadlineFires, FlushEnds, PhaseMoves, historyVars
<1> QED
  BY <1>1, <1>2, <1>3, <1>4

\* Prompts and cancels take effect in the order in which the client wrote them.
THEOREM ActsInOrder == PeerSpec => HandledInOrder
<1>1. PeerInv /\ [PeerNext]_peerVars => [handled' >= handled]_peerVars
  BY InOrder
<1> QED
  BY <1>1, PeerInvariance, PTL DEF PeerSpec, HandledInOrder

(* A session *)

\* While a turn is in flight, the only process is the one it waits for.
TurnHasIt ==
    at # "none" => /\ \A c \in Children : Alive(c) => c = mine
                   /\ at \in {"replacing", "dropping"} => driver = None
                   /\ at \notin {"replacing", "dropping"} => driver = mine \/ disposed

\* Between turns, it is the driver.
DriverIsIt == at = "none" /\ ~disposed => \A c \in Children : Alive(c) => c = driver

\* A prompt that is not settled was not called off, and the current selection
\* is among those held since it came.
OpenPrompt ==
    /\ cancelledAt <= turnCount
    /\ pending => cancelledAt # turnCount /\ ~disposed /\ at # "puttingAway"
    /\ at # "none" => choice \in since

\* Nobody has touched a child that is probed for an open prompt.
ProbedIsFresh ==
    /\ at \in {"probing", "chosen"} /\ pending => signal[mine] = "none" /\ flags[mine] \in since
    /\ at = "probing" => flags[mine] = launchedKey /\ (pending => live)
    /\ at = "chosen" /\ pending => proc[mine] = "ready" /\ flags[mine] = launchedKey

\* A live driver has not exited; one that needs no respawn is fit for a text.
LiveMeansFit ==
    live /\ ~disposed /\ driver # None =>
       /\ Alive(driver)
       /\ start = "in" /\ ~needsRespawn /\ at \in {"none", "sent"} =>
             proc[driver] = "ready" /\ signal[driver] = "none" /\ flags[driver] = launchedKey

\* Until start() has its answer nothing happens to the session or its child.
Opening ==
    /\ start # "in" => at = "none" /\ ~disposed
    /\ start = "opening" /\ driver # None => signal[driver] = "none" /\ flags[driver] = launchedKey

\* An ask on screen belongs to a gate that is open and to no cancelled turn.
AskIsCurrent ==
    \A h \in Hooks :
       hook[h] = "asked" => ~gateDisposed /\ ~(hookTurn[h] = cancelledAt /\ turnCount = cancelledAt)

Inv ==
    /\ TypeOK /\ OneOwnedChild /\ TurnHasIt /\ DriverIsIt /\ OpenPrompt /\ ProbedIsFresh
    /\ LiveMeansFit /\ Opening /\ AskIsCurrent

USE SessionAssumption
USE DEF Alive

\* The initial state satisfies Inv.
LEMMA InitInv == Init => Inv
<1> SUFFICES ASSUME Init PROVE Inv
  OBVIOUS
<1>1. PICK c \in Children :
        driver = c /\ proc = [d \in Children |-> IF d = c THEN "starting" ELSE "gone"]
  BY DEF Init
<1>2. TypeOK
  <2>1. proc \in [Children -> {"starting", "ready", "gone"}] /\ driver \in Children \cup {None}
    BY <1>1
  <2>2. work \in [Children -> 0..MaxTurns] /\ hookTurn \in [Hooks -> 0..MaxTurns]
    BY DEF Init
  <2>3. turnCount \in 0..MaxTurns /\ cancelledAt \in -1..MaxTurns
    BY DEF Init
  <2>4. QED
    BY <2>1, <2>2, <2>3 DEF Init, TypeOK
<1>3. OneOwnedChild /\ TurnHasIt /\ DriverIsIt /\ OpenPrompt
  BY <1>1 DEF Init, OneOwnedChild, TurnHasIt, DriverIsIt, OpenPrompt
<1>4. ProbedIsFresh /\ LiveMeansFit /\ Opening /\ AskIsCurrent
  BY <1>1 DEF Init, ProbedIsFresh, LiveMeansFit, Opening, AskIsCurrent
<1>5. QED
  BY <1>2, <1>3, <1>4 DEF Inv

\* A prompt comes: its child is chosen, replaced or started.
LEMMA PromptKeeps ==
  ASSUME Inv, Prompt
  PROVE  Inv'
<1> USE DEF Inv, Prompt, Fit, Replace, Teardown, Spawn, vars, sessionVars, turnVars,
            choiceVars, childVars, gateVars, serverVars
<1>1. TypeOK'
  <2>1. at' \in {"none", "replacing", "probing", "chosen", "sent", "dropping", "puttingAway"}
    BY DEF TypeOK
  <2>2. (at' = "none" <=> mine' = None) /\ (pending' => at' # "none")
    BY DEF TypeOK, OpenPrompt
  <2>3. proc' \in [Children -> {"starting", "ready", "gone"}] /\ work' \in [Children -> 0..MaxTurns]
    BY DEF TypeOK
  <2>4. signal' \in [Children -> {"none", "int", "ladder"}] /\ flags' \in [Children -> Selections]
    BY DEF TypeOK
  <2>5. hook' \in [Hooks -> {"none", "starting", "asked", "allowed"}] /\ cancelledAt' \in -1..MaxTurns
    BY DEF TypeOK
  <2>6. turnCount' \in 0..MaxTurns
    BY DEF TypeOK
  <2>7. driver' \in Children \cup {None} /\ mine' \in Children \cup {None}
    BY DEF TypeOK
  <2>8. QED
    BY <2>1, <2>2, <2>3, <2>4, <2>5, <2>6, <2>7 DEF TypeOK
<1>2. OneOwnedChild'
  BY DEF TypeOK, OneOwnedChild, TurnHasIt, DriverIsIt
<1>3. TurnHasIt'
  BY DEF TypeOK, OneOwnedChild, TurnHasIt, DriverIsIt
<1>4. DriverIsIt'
  BY DEF DriverIsIt
<1>5. OpenPrompt'
  BY DEF TypeOK, OpenPrompt
<1>6. ProbedIsFresh'
  BY DEF TypeOK, TurnHasIt, OpenPrompt, LiveMeansFit, Opening, ProbedIsFresh
<1>7. LiveMeansFit'
  BY DEF TypeOK, LiveMeansFit
<1>8. Opening'
  BY DEF Opening
<1>9. AskIsCurrent'
  BY DEF TypeOK, TurnHasIt, OpenPrompt, LiveMeansFit, Opening, AskIsCurrent
<1>10. QED
  BY <1>1, <1>2, <1>3, <1>4, <1>5, <1>6, <1>7, <1>8, <1>9

\* The child that was replaced has gone.
LEMMA ReplacedKeeps ==
  ASSUME Inv, Replaced
  PROVE  Inv'
<1> USE DEF Inv, Replaced, Quiet, Spawn, vars, sessionVars, turnVars, choiceVars, childVars,
            gateVars, serverVars
<1>1. TypeOK'
  BY DEF TypeOK
<1>2. OneOwnedChild'
  BY DEF TypeOK, OneOwnedChild, TurnHasIt, DriverIsIt
<1>3. TurnHasIt'
  BY DEF TurnHasIt
<1>4. DriverIsIt'
  BY DEF DriverIsIt
<1>5. OpenPrompt'
  BY DEF OpenPrompt
<1>6. ProbedIsFresh'
  BY DEF TypeOK, TurnHasIt, OpenPrompt, LiveMeansFit, Opening, ProbedIsFresh
<1>7. LiveMeansFit'
  BY DEF TypeOK, LiveMeansFit
<1>8. Opening'
  BY DEF Opening
<1>9. AskIsCurrent'
  BY DEF AskIsCurrent
<1>10. QED
  BY <1>1, <1>2, <1>3, <1>4, <1>5, <1>6, <1>7, <1>8, <1>9

\* A probe times out.
LEMMA ProbeTimesOutKeeps ==
  ASSUME Inv, ProbeTimesOut
  PROVE  Inv'
<1> USE DEF Inv, ProbeTimesOut, Quiet, GiveUp, Teardown, vars, sessionVars, turnVars,
            choiceVars, childVars, gateVars, serverVars
<1>1. TypeOK'
  BY DEF TypeOK
<1>2. OneOwnedChild'
  BY DEF TypeOK, OneOwnedChild
<1>3. TurnHasIt'
  BY DEF TurnHasIt
<1>4. DriverIsIt'
  BY DEF DriverIsIt
<1>5. OpenPrompt'
  BY DEF OpenPrompt
<1>6. ProbedIsFresh'
  BY DEF ProbedIsFresh
<1>7. LiveMeansFit'
  BY DEF LiveMeansFit
<1>8. Opening'
  BY DEF Opening
<1>9. AskIsCurrent'
  BY DEF AskIsCurrent
<1>10. QED
  BY <1>1, <1>2, <1>3, <1>4, <1>5, <1>6, <1>7, <1>8, <1>9

\* The child of a failed probe has gone.
LEMMA DroppedKeeps ==
  ASSUME Inv, Dropped
  PROVE  Inv'
<1> USE DEF Inv, Dropped, Quiet, vars, sessionVars, turnVars, choiceVars, childVars, gateVars,
            serverVars
<1>1. TypeOK'
  BY DEF TypeOK
<1>2. OneOwnedChild'
  BY DEF OneOwnedChild
<1>3. TurnHasIt'
  BY DEF TurnHasIt
<1>4. DriverIsIt'
  BY DEF TypeOK, OneOwnedChild, TurnHasIt, DriverIsIt
<1>5. OpenPrompt'
  BY DEF OpenPrompt
<1>6. ProbedIsFresh'
  BY DEF ProbedIsFresh
<1>7. LiveMeansFit'
  BY DEF TypeOK, OneOwnedChild, TurnHasIt, DriverIsIt, LiveMeansFit
<1>8. Opening'
  BY DEF Opening
<1>9. AskIsCurrent'
  BY DEF AskIsCurrent
<1>10. QED
  BY <1>1, <1>2, <1>3, <1>4, <1>5, <1>6, <1>7, <1>8, <1>9

\* The text is sent, or the child put away.
LEMMA TurnGoesKeeps ==
  ASSUME Inv, TurnGoes
  PROVE  Inv'
<1> USE DEF Inv, TurnGoes, Teardown, vars, sessionVars, turnVars, choiceVars, childVars,
            gateVars, serverVars
<1>1. TypeOK'
  BY DEF TypeOK
<1>2. OneOwnedChild'
  BY DEF OneOwnedChild
<1>3. TurnHasIt'
  BY DEF TurnHasIt
<1>4. DriverIsIt'
  BY DEF DriverIsIt
<1>5. OpenPrompt'
  BY DEF OpenPrompt
<1>6. ProbedIsFresh'
  BY DEF ProbedIsFresh
<1>7. LiveMeansFit'
  BY DEF TypeOK, OneOwnedChild, TurnHasIt, DriverIsIt, OpenPrompt, ProbedIsFresh, LiveMeansFit,
         Opening, AskIsCurrent
<1>8. Opening'
  BY DEF Opening
<1>9. AskIsCurrent'
  BY DEF AskIsCurrent
<1>10. QED
  BY <1>1, <1>2, <1>3, <1>4, <1>5, <1>6, <1>7, <1>8, <1>9

\* The child put away has gone.
LEMMA PutAwayKeeps ==
  ASSUME Inv, PutAway
  PROVE  Inv'
<1> USE DEF Inv, PutAway, Quiet, vars, sessionVars, turnVars, choiceVars, childVars, gateVars,
            serverVars
<1>1. TypeOK'
  <2>1. at' \in {"none", "replacing", "probing", "chosen", "sent", "dropping", "puttingAway"}
    BY DEF TypeOK
  <2>2. (at' = "none" <=> mine' = None) /\ (pending' => at' # "none")
    BY DEF TypeOK, OpenPrompt
  <2>3. proc' \in [Children -> {"starting", "ready", "gone"}] /\ work' \in [Children -> 0..MaxTurns]
    BY DEF TypeOK
  <2>4. signal' \in [Children -> {"none", "int", "ladder"}] /\ flags' \in [Children -> Selections]
    BY DEF TypeOK
  <2>5. hook' \in [Hooks -> {"none", "starting", "asked", "allowed"}] /\ cancelledAt' \in -1..MaxTurns
    BY DEF TypeOK
  <2>6. QED
    BY <2>1, <2>2, <2>3, <2>4, <2>5 DEF TypeOK
<1>2. OneOwnedChild'
  BY DEF OneOwnedChild
<1>3. TurnHasIt'
  BY DEF TurnHasIt
<1>4. DriverIsIt'
  BY DEF TypeOK, OneOwnedChild, TurnHasIt, DriverIsIt
<1>5. OpenPrompt'
  BY DEF OpenPrompt
<1>6. ProbedIsFresh'
  BY DEF ProbedIsFresh
<1>7. LiveMeansFit'
  BY DEF TypeOK, OneOwnedChild, TurnHasIt, DriverIsIt, LiveMeansFit
<1>8. Opening'
  BY DEF Opening
<1>9. AskIsCurrent'
  BY DEF AskIsCurrent
<1>10. QED
  BY <1>1, <1>2, <1>3, <1>4, <1>5, <1>6, <1>7, <1>8, <1>9

\* The turn is cancelled.
LEMMA CancelKeeps ==
  ASSUME Inv, Cancel
  PROVE  Inv'
<1> USE DEF Inv, Cancel, DenyAll, Settle, vars, sessionVars, turnVars, choiceVars, childVars,
            gateVars, serverVars
<1>1. TypeOK'
  <2>1. at' \in {"none", "replacing", "probing", "chosen", "sent", "dropping", "puttingAway"}
    BY DEF TypeOK
  <2>2. (at' = "none" <=> mine' = None) /\ (pending' => at' # "none")
    BY DEF TypeOK, OpenPrompt
  <2>3. proc' \in [Children -> {"starting", "ready", "gone"}] /\ work' \in [Children -> 0..MaxTurns]
    BY DEF TypeOK
  <2>4. signal' \in [Children -> {"none", "int", "ladder"}] /\ flags' \in [Children -> Selections]
    BY DEF TypeOK
  <2>5. hook' \in [Hooks -> {"none", "starting", "asked", "allowed"}] /\ cancelledAt' \in -1..MaxTurns
    BY DEF TypeOK
  <2>6. QED
    BY <2>1, <2>2, <2>3, <2>4, <2>5 DEF TypeOK
<1>2. OneOwnedChild'
  BY DEF OneOwnedChild
<1>3. TurnHasIt'
  BY DEF TurnHasIt
<1>4. DriverIsIt'
  BY DEF TypeOK, OneOwnedChild, TurnHasIt, DriverIsIt
<1>5. OpenPrompt'
  BY DEF TypeOK, OpenPrompt
<1>6. ProbedIsFresh'
  BY DEF ProbedIsFresh
<1>7. LiveMeansFit'
  BY DEF LiveMeansFit
<1>8. Opening'
  BY DEF Opening
<1>9. AskIsCurrent'
  BY DEF AskIsCurrent
<1>10. QED
  BY <1>1, <1>2, <1>3, <1>4, <1>5, <1>6, <1>7, <1>8, <1>9

\* Another selection.
LEMMA SelectKeeps ==
  ASSUME Inv, NEW s \in Selections, Select(s)
  PROVE  Inv'
<1> USE DEF Inv, Select, vars, sessionVars, turnVars, choiceVars, childVars, gateVars,
            serverVars
<1>1. TypeOK'
  BY DEF TypeOK
<1>2. OneOwnedChild'
  BY DEF OneOwnedChild
<1>3. TurnHasIt'
  BY DEF TurnHasIt
<1>4. DriverIsIt'
  BY DEF DriverIsIt
<1>5. OpenPrompt'
  BY DEF OpenPrompt
<1>6. ProbedIsFresh'
  BY DEF ProbedIsFresh
<1>7. LiveMeansFit'
  BY DEF LiveMeansFit
<1>8. Opening'
  BY DEF Opening
<1>9. AskIsCurrent'
  BY DEF AskIsCurrent
<1>10. QED
  BY <1>1, <1>2, <1>3, <1>4, <1>5, <1>6, <1>7, <1>8, <1>9

\* The gate is disposed of.
LEMMA GateDisposedKeeps ==
  ASSUME Inv, GateDisposed
  PROVE  Inv'
<1> USE DEF Inv, GateDisposed, Quiet, DenyAll, vars, sessionVars, turnVars, choiceVars,
            childVars, gateVars, serverVars
<1>1. TypeOK'
  BY DEF TypeOK
<1>2. OneOwnedChild'
  BY DEF OneOwnedChild
<1>3. TurnHasIt'
  BY DEF TurnHasIt
<1>4. DriverIsIt'
  BY DEF DriverIsIt
<1>5. OpenPrompt'
  BY DEF OpenPrompt
<1>6. ProbedIsFresh'
  BY DEF ProbedIsFresh
<1>7. LiveMeansFit'
  BY DEF LiveMeansFit
<1>8. Opening'
  BY DEF Opening
<1>9. AskIsCurrent'
  BY DEF AskIsCurrent
<1>10. QED
  BY <1>1, <1>2, <1>3, <1>4, <1>5, <1>6, <1>7, <1>8, <1>9

\* The connection closes.
LEMMA ServerClosesKeeps ==
  ASSUME Inv, ServerCloses
  PROVE  Inv'
<1> USE DEF Inv, ServerCloses, Quiet, Dispose, Settle, Teardown, vars, sessionVars, turnVars,
            choiceVars, childVars, gateVars, serverVars
<1>1. TypeOK'
  BY DEF TypeOK
<1>2. OneOwnedChild'
  BY DEF OneOwnedChild
<1>3. TurnHasIt'
  BY DEF TurnHasIt
<1>4. DriverIsIt'
  BY DEF DriverIsIt
<1>5. OpenPrompt'
  BY DEF OpenPrompt
<1>6. ProbedIsFresh'
  BY DEF ProbedIsFresh
<1>7. LiveMeansFit'
  BY DEF LiveMeansFit
<1>8. Opening'
  BY DEF Opening
<1>9. AskIsCurrent'
  BY DEF AskIsCurrent
<1>10. QED
  BY <1>1, <1>2, <1>3, <1>4, <1>5, <1>6, <1>7, <1>8, <1>9

\* The process exits.
LEMMA ServerLeavesKeeps ==
  ASSUME Inv, ServerLeaves
  PROVE  Inv'
<1> USE DEF Inv, ServerLeaves, Quiet, vars, sessionVars, turnVars, choiceVars, childVars,
            gateVars, serverVars
<1>1. TypeOK'
  BY DEF TypeOK
<1>2. OneOwnedChild'
  BY DEF OneOwnedChild
<1>3. TurnHasIt'
  BY DEF TurnHasIt
<1>4. DriverIsIt'
  BY DEF DriverIsIt
<1>5. OpenPrompt'
  BY DEF OpenPrompt
<1>6. ProbedIsFresh'
  BY DEF ProbedIsFresh
<1>7. LiveMeansFit'
  BY DEF LiveMeansFit
<1>8. Opening'
  BY DEF Opening
<1>9. AskIsCurrent'
  BY DEF AskIsCurrent
<1>10. QED
  BY <1>1, <1>2, <1>3, <1>4, <1>5, <1>6, <1>7, <1>8, <1>9

\* start() fails.
LEMMA StartFailsKeeps ==
  ASSUME Inv, StartFails
  PROVE  Inv'
<1> USE DEF Inv, StartFails, Quiet, DenyAll, vars, sessionVars, turnVars, choiceVars,
            childVars, gateVars, serverVars
<1>1. TypeOK'
  BY DEF TypeOK
<1>2. OneOwnedChild'
  BY DEF OneOwnedChild
<1>3. TurnHasIt'
  BY DEF TurnHasIt
<1>4. DriverIsIt'
  BY DEF DriverIsIt
<1>5. OpenPrompt'
  BY DEF OpenPrompt
<1>6. ProbedIsFresh'
  BY DEF TypeOK, TurnHasIt, OpenPrompt, LiveMeansFit, Opening, ProbedIsFresh
<1>7. LiveMeansFit'
  BY DEF LiveMeansFit
<1>8. Opening'
  BY DEF Opening
<1>9. AskIsCurrent'
  BY DEF AskIsCurrent
<1>10. QED
  BY <1>1, <1>2, <1>3, <1>4, <1>5, <1>6, <1>7, <1>8, <1>9

\* and disposes of the child.
LEMMA StartGivesUpKeeps ==
  ASSUME Inv, StartGivesUp
  PROVE  Inv'
<1> USE DEF Inv, StartGivesUp, Quiet, Teardown, vars, sessionVars, turnVars, choiceVars,
            childVars, gateVars, serverVars
<1>1. TypeOK'
  BY DEF TypeOK
<1>2. OneOwnedChild'
  BY DEF OneOwnedChild
<1>3. TurnHasIt'
  BY DEF TurnHasIt
<1>4. DriverIsIt'
  BY DEF DriverIsIt
<1>5. OpenPrompt'
  BY DEF OpenPrompt
<1>6. ProbedIsFresh'
  BY DEF TypeOK, TurnHasIt, OpenPrompt, LiveMeansFit, Opening, ProbedIsFresh
<1>7. LiveMeansFit'
  BY DEF LiveMeansFit
<1>8. Opening'
  BY DEF Opening
<1>9. AskIsCurrent'
  BY DEF AskIsCurrent
<1>10. QED
  BY <1>1, <1>2, <1>3, <1>4, <1>5, <1>6, <1>7, <1>8, <1>9

\* which has gone.
LEMMA StartClearedKeeps ==
  ASSUME Inv, StartCleared
  PROVE  Inv'
<1> USE DEF Inv, StartCleared, Quiet, vars, sessionVars, turnVars, choiceVars, childVars,
            gateVars, serverVars
<1>1. TypeOK'
  BY DEF TypeOK
<1>2. OneOwnedChild'
  BY DEF OneOwnedChild
<1>3. TurnHasIt'
  BY DEF TypeOK, TurnHasIt, OpenPrompt, LiveMeansFit, Opening
<1>4. DriverIsIt'
  BY DEF DriverIsIt
<1>5. OpenPrompt'
  BY DEF OpenPrompt
<1>6. ProbedIsFresh'
  BY DEF ProbedIsFresh
<1>7. LiveMeansFit'
  BY DEF LiveMeansFit
<1>8. Opening'
  BY DEF Opening
<1>9. AskIsCurrent'
  BY DEF AskIsCurrent
<1>10. QED
  BY <1>1, <1>2, <1>3, <1>4, <1>5, <1>6, <1>7, <1>8, <1>9

\* A child that ignored the interrupt is torn down.
LEMMA EscalateKeeps ==
  ASSUME Inv, NEW c \in Children, Escalate(c)
  PROVE  Inv'
<1> USE DEF Inv, Escalate, Quiet, Teardown, vars, sessionVars, turnVars, choiceVars, childVars,
            gateVars, serverVars
<1>1. TypeOK'
  BY DEF TypeOK
<1>2. OneOwnedChild'
  BY DEF OneOwnedChild
<1>3. TurnHasIt'
  BY DEF TurnHasIt
<1>4. DriverIsIt'
  BY DEF DriverIsIt
<1>5. OpenPrompt'
  BY DEF OpenPrompt
<1>6. ProbedIsFresh'
  BY DEF TypeOK, ProbedIsFresh
<1>7. LiveMeansFit'
  BY DEF TypeOK, LiveMeansFit
<1>8. Opening'
  BY DEF TypeOK, Opening
<1>9. AskIsCurrent'
  BY DEF AskIsCurrent
<1>10. QED
  BY <1>1, <1>2, <1>3, <1>4, <1>5, <1>6, <1>7, <1>8, <1>9

\* A child sends its init.
LEMMA InitialisesKeeps ==
  ASSUME Inv, NEW c \in Children, Initialises(c)
  PROVE  Inv'
<1> USE DEF Inv, Initialises, Quiet, GiveUp, Teardown, Dispose, Settle, vars, sessionVars,
            turnVars, choiceVars, childVars, gateVars, serverVars
<1>1. TypeOK'
  BY DEF TypeOK, TurnHasIt, OpenPrompt, LiveMeansFit, Opening
<1>2. OneOwnedChild'
  BY DEF OneOwnedChild
<1>3. TurnHasIt'
  BY DEF TurnHasIt
<1>4. DriverIsIt'
  BY DEF DriverIsIt
<1>5. OpenPrompt'
  BY DEF OpenPrompt
<1>6. ProbedIsFresh'
  BY DEF TypeOK, ProbedIsFresh
<1>7. LiveMeansFit'
  <2>1. CASE at = "probing" /\ mine = c
    BY <2>1 DEF TypeOK, OneOwnedChild, TurnHasIt, DriverIsIt, OpenPrompt, ProbedIsFresh,
           LiveMeansFit, Opening, AskIsCurrent
  <2>2. CASE ~(at = "probing" /\ mine = c) /\ start = "opening" /\ driver = c
    BY <2>2 DEF TypeOK, LiveMeansFit, Opening
  <2>3. CASE ~(at = "probing" /\ mine = c) /\ ~(start = "opening" /\ driver = c)
    BY <2>3 DEF TypeOK, LiveMeansFit, Opening
  <2>4. QED
    BY <2>1, <2>2, <2>3
<1>8. Opening'
  BY DEF Opening
<1>9. AskIsCurrent'
  BY DEF AskIsCurrent
<1>10. QED
  BY <1>1, <1>2, <1>3, <1>4, <1>5, <1>6, <1>7, <1>8, <1>9

\* A child sends a result.
LEMMA ResultKeeps ==
  ASSUME Inv, NEW c \in Children, Result(c)
  PROVE  Inv'
<1> USE DEF Inv, Result, Quiet, Settle, vars, sessionVars, turnVars, choiceVars, childVars,
            gateVars, serverVars
<1>1. TypeOK'
  <2>1. at' \in {"none", "replacing", "probing", "chosen", "sent", "dropping", "puttingAway"}
    BY DEF TypeOK
  <2>2. (at' = "none" <=> mine' = None) /\ (pending' => at' # "none")
    BY DEF TypeOK, OpenPrompt
  <2>3. proc' \in [Children -> {"starting", "ready", "gone"}] /\ work' \in [Children -> 0..MaxTurns]
    BY DEF TypeOK
  <2>4. signal' \in [Children -> {"none", "int", "ladder"}] /\ flags' \in [Children -> Selections]
    BY DEF TypeOK
  <2>5. hook' \in [Hooks -> {"none", "starting", "asked", "allowed"}] /\ cancelledAt' \in -1..MaxTurns
    BY DEF TypeOK
  <2>6. QED
    BY <2>1, <2>2, <2>3, <2>4, <2>5 DEF TypeOK
<1>2. OneOwnedChild'
  BY DEF OneOwnedChild
<1>3. TurnHasIt'
  BY DEF TurnHasIt
<1>4. DriverIsIt'
  BY DEF TypeOK, OneOwnedChild, TurnHasIt, DriverIsIt
<1>5. OpenPrompt'
  BY DEF OpenPrompt
<1>6. ProbedIsFresh'
  BY DEF ProbedIsFresh
<1>7. LiveMeansFit'
  BY DEF LiveMeansFit
<1>8. Opening'
  BY DEF Opening
<1>9. AskIsCurrent'
  BY DEF AskIsCurrent
<1>10. QED
  BY <1>1, <1>2, <1>3, <1>4, <1>5, <1>6, <1>7, <1>8, <1>9

\* A child exits.
LEMMA ExitsKeeps ==
  ASSUME Inv, NEW c \in Children, Exits(c)
  PROVE  Inv'
<1> USE DEF Inv, Exits, Quiet, DenyAll, vars, sessionVars, turnVars, choiceVars, childVars,
            gateVars, serverVars
<1>1. TypeOK'
  <2>1. at' \in {"none", "replacing", "probing", "chosen", "sent", "dropping", "puttingAway"}
    BY DEF TypeOK
  <2>2. (at' = "none" <=> mine' = None) /\ (pending' => at' # "none")
    BY DEF TypeOK, OpenPrompt
  <2>3. proc' \in [Children -> {"starting", "ready", "gone"}] /\ work' \in [Children -> 0..MaxTurns]
    BY DEF TypeOK
  <2>4. signal' \in [Children -> {"none", "int", "ladder"}] /\ flags' \in [Children -> Selections]
    BY DEF TypeOK
  <2>5. hook' \in [Hooks -> {"none", "starting", "asked", "allowed"}] /\ cancelledAt' \in -1..MaxTurns
    BY DEF TypeOK
  <2>6. QED
    BY <2>1, <2>2, <2>3, <2>4, <2>5 DEF TypeOK
<1>2. OneOwnedChild'
  BY DEF TypeOK, OneOwnedChild
<1>3. TurnHasIt'
  BY DEF TurnHasIt
<1>4. DriverIsIt'
  BY DEF TypeOK, OneOwnedChild, TurnHasIt, DriverIsIt
<1>5. OpenPrompt'
  BY DEF OpenPrompt
<1>6. ProbedIsFresh'
  BY DEF TypeOK, ProbedIsFresh
<1>7. LiveMeansFit'
  BY DEF TypeOK, LiveMeansFit
<1>8. Opening'
  BY DEF Opening
<1>9. AskIsCurrent'
  BY DEF TypeOK, TurnHasIt, OpenPrompt, LiveMeansFit, Opening, AskIsCurrent
<1>10. QED
  BY <1>1, <1>2, <1>3, <1>4, <1>5, <1>6, <1>7, <1>8, <1>9

\* A hook is started.
LEMMA HookStartsKeeps ==
  ASSUME Inv, NEW h \in Hooks, NEW c \in Children, HookStarts(h, c)
  PROVE  Inv'
<1> USE DEF Inv, HookStarts, Quiet, vars, sessionVars, turnVars, choiceVars, childVars,
            gateVars, serverVars
<1>1. TypeOK'
  BY DEF TypeOK
<1>2. OneOwnedChild'
  BY DEF OneOwnedChild
<1>3. TurnHasIt'
  BY DEF TurnHasIt
<1>4. DriverIsIt'
  BY DEF DriverIsIt
<1>5. OpenPrompt'
  BY DEF OpenPrompt
<1>6. ProbedIsFresh'
  BY DEF ProbedIsFresh
<1>7. LiveMeansFit'
  BY DEF LiveMeansFit
<1>8. Opening'
  BY DEF Opening
<1>9. AskIsCurrent'
  BY DEF AskIsCurrent
<1>10. QED
  BY <1>1, <1>2, <1>3, <1>4, <1>5, <1>6, <1>7, <1>8, <1>9

\* A hook is decided, or its client asked.
LEMMA HookAsksKeeps ==
  ASSUME Inv, NEW h \in Hooks, HookAsks(h)
  PROVE  Inv'
<1> USE DEF Inv, HookAsks, Quiet, vars, sessionVars, turnVars, choiceVars, childVars, gateVars,
            serverVars
<1>1. TypeOK'
  BY DEF TypeOK
<1>2. OneOwnedChild'
  BY DEF OneOwnedChild
<1>3. TurnHasIt'
  BY DEF TurnHasIt
<1>4. DriverIsIt'
  BY DEF DriverIsIt
<1>5. OpenPrompt'
  BY DEF OpenPrompt
<1>6. ProbedIsFresh'
  BY DEF ProbedIsFresh
<1>7. LiveMeansFit'
  BY DEF LiveMeansFit
<1>8. Opening'
  BY DEF Opening
<1>9. AskIsCurrent'
  BY DEF AskIsCurrent
<1>10. QED
  BY <1>1, <1>2, <1>3, <1>4, <1>5, <1>6, <1>7, <1>8, <1>9

\* The client answers.
LEMMA AskAnsweredKeeps ==
  ASSUME Inv, NEW h \in Hooks, AskAnswered(h)
  PROVE  Inv'
<1> USE DEF Inv, AskAnswered, Quiet, vars, sessionVars, turnVars, choiceVars, childVars,
            gateVars, serverVars
<1>1. TypeOK'
  BY DEF TypeOK
<1>2. OneOwnedChild'
  BY DEF OneOwnedChild
<1>3. TurnHasIt'
  BY DEF TurnHasIt
<1>4. DriverIsIt'
  BY DEF DriverIsIt
<1>5. OpenPrompt'
  BY DEF OpenPrompt
<1>6. ProbedIsFresh'
  BY DEF ProbedIsFresh
<1>7. LiveMeansFit'
  BY DEF LiveMeansFit
<1>8. Opening'
  BY DEF Opening
<1>9. AskIsCurrent'
  BY DEF AskIsCurrent
<1>10. QED
  BY <1>1, <1>2, <1>3, <1>4, <1>5, <1>6, <1>7, <1>8, <1>9

\* A hook goes.
LEMMA HookGoesKeeps ==
  ASSUME Inv, NEW h \in Hooks, HookGoes(h)
  PROVE  Inv'
<1> USE DEF Inv, HookGoes, Quiet, vars, sessionVars, turnVars, choiceVars, childVars, gateVars,
            serverVars
<1>1. TypeOK'
  BY DEF TypeOK
<1>2. OneOwnedChild'
  BY DEF OneOwnedChild
<1>3. TurnHasIt'
  BY DEF TurnHasIt
<1>4. DriverIsIt'
  BY DEF DriverIsIt
<1>5. OpenPrompt'
  BY DEF OpenPrompt
<1>6. ProbedIsFresh'
  BY DEF ProbedIsFresh
<1>7. LiveMeansFit'
  BY DEF LiveMeansFit
<1>8. Opening'
  BY DEF Opening
<1>9. AskIsCurrent'
  BY DEF AskIsCurrent
<1>10. QED
  BY <1>1, <1>2, <1>3, <1>4, <1>5, <1>6, <1>7, <1>8, <1>9

\* Every step keeps Inv.
LEMMA NextKeeps == Inv /\ [Next]_vars => Inv'
<1> SUFFICES ASSUME Inv, [Next]_vars PROVE Inv'
  OBVIOUS
<1>1. CASE UNCHANGED vars
  BY <1>1 DEF vars, sessionVars, turnVars, choiceVars, childVars, gateVars, serverVars, Inv,
     TypeOK, OneOwnedChild, TurnHasIt, DriverIsIt, OpenPrompt, ProbedIsFresh, LiveMeansFit,
     Opening, AskIsCurrent
<1>2. CASE Next
  BY <1>2, PromptKeeps, ReplacedKeeps, ProbeTimesOutKeeps, DroppedKeeps, TurnGoesKeeps,
     PutAwayKeeps, CancelKeeps, SelectKeeps, GateDisposedKeeps, ServerClosesKeeps,
     ServerLeavesKeeps, StartFailsKeeps, StartGivesUpKeeps, StartClearedKeeps, EscalateKeeps,
     InitialisesKeeps, ResultKeeps, ExitsKeeps, HookStartsKeeps, HookAsksKeeps,
     AskAnsweredKeeps, HookGoesKeeps DEF Next
<1>3. QED
  BY <1>1, <1>2

\* The session, its turn, its children and its gate stay consistent for ever.
THEOREM Invariance == Spec => []Inv
<1>1. QED
  BY InitInv, NextKeeps, PTL DEF Spec

\* Every reachable state is well typed; a turn in flight has a child, and an
\* open prompt a turn.
THEOREM TypeCorrect == Spec => []TypeOK
<1>1. Inv => TypeOK
  BY DEF Inv
<1>2. QED
  BY <1>1, Invariance, PTL

\* A conversation never has two agy processes, and none is out of reach of
\* cancel() and dispose().
THEOREM NeverTwoChildren == Spec => []OneOwnedChild
<1>1. Inv => OneOwnedChild
  BY DEF Inv
<1>2. QED
  BY <1>1, Invariance, PTL

\* A text that is sent is one the client still waits for, and its child is fit:
\* initialised, untouched, launched with a selection held since the prompt.
THEOREM TextsReachFitChildren == Spec => TextReachesAFitChild
<1> DEFINE Fits(c) ==
      work'[c] # 0 /\ work'[c] # work[c] =>
         /\ pending /\ cancelledAt # turnCount /\ ~disposed
         /\ proc[c] = "ready" /\ signal[c] = "none"
         /\ flags[c] \in since
<1>1. Inv /\ [Next]_vars => [\A c \in Children : Fits(c)]_vars
  <2> SUFFICES ASSUME Inv, Next, NEW c \in Children, work'[c] # 0, work'[c] # work[c]
               PROVE  Fits(c)
    BY DEF vars
  <2>1. TurnGoes /\ pending /\ work' = [work EXCEPT ![mine] = turnCount]
    <3>1. CASE work' = work
      BY <3>1
    <3>2. CASE \E d \in Children : Result(d) \/ Exits(d)
      BY <3>2 DEF Result, Exits, Inv, TypeOK
    <3>3. CASE TurnGoes
      BY <3>3 DEF TurnGoes
    <3>4. work' = work \/ (\E d \in Children : Result(d) \/ Exits(d)) \/ TurnGoes
      BY DEF Next, Prompt, Replaced, ProbeTimesOut, Dropped, PutAway, Cancel, Select, GateDisposed,
         ServerCloses, ServerLeaves, StartFails, StartGivesUp, StartCleared, Escalate,
         Initialises, HookStarts, HookAsks, AskAnswered, HookGoes, sessionVars, turnVars,
         choiceVars, childVars, gateVars, serverVars
    <3>5. QED
      BY <3>1, <3>2, <3>3, <3>4
  <2>2. c = mine /\ at = "chosen"
    BY <2>1 DEF TurnGoes, Inv, TypeOK
  <2>3. QED
    BY <2>1, <2>2 DEF Inv, OpenPrompt, ProbedIsFresh
<1>2. QED
  BY <1>1, Invariance, PTL DEF Spec, TextReachesAFitChild

\* A tool call of a cancelled turn is not allowed before a later prompt, and
\* none is once the gate is disposed of.
THEOREM CancelledHooksAreRefused == Spec => NothingAllowedAfterCancel
<1> DEFINE Right(h) ==
      hook[h] # "allowed" /\ hook'[h] = "allowed" =>
         /\ ~gateDisposed
         /\ ~(hookTurn[h] = cancelledAt /\ turnCount = cancelledAt)
<1>1. Inv /\ [Next]_vars => [\A h \in Hooks : Right(h)]_vars
  <2> SUFFICES ASSUME Inv, Next, NEW h \in Hooks, hook[h] # "allowed", hook'[h] = "allowed"
               PROVE  Right(h)
    BY DEF vars
  <2>1. CASE hook' = hook \/ DenyAll
    BY <2>1 DEF DenyAll, Inv, TypeOK
  <2>2. CASE \E g \in Hooks : HookGoes(g) \/ \E c \in Children : HookStarts(g, c)
    BY <2>2 DEF HookGoes, HookStarts, Inv, TypeOK
  <2>3. CASE \E g \in Hooks : HookAsks(g)
    BY <2>3 DEF HookAsks, Inv, TypeOK
  <2>4. CASE \E g \in Hooks : AskAnswered(g)
    BY <2>4 DEF AskAnswered, Inv, TypeOK, AskIsCurrent
  <2>5. \/ hook' = hook \/ DenyAll
        \/ \E g \in Hooks : HookGoes(g) \/ \E c \in Children : HookStarts(g, c)
        \/ \E g \in Hooks : HookAsks(g) \/ AskAnswered(g)
    BY DEF Next, Prompt, Replaced, ProbeTimesOut, Dropped, TurnGoes, PutAway, Cancel, Select,
       GateDisposed, ServerCloses, ServerLeaves, StartFails, StartGivesUp, StartCleared,
       Escalate, Initialises, Result, Exits, sessionVars, turnVars, choiceVars, childVars,
       gateVars, serverVars
  <2>6. QED
    BY <2>1, <2>2, <2>3, <2>4, <2>5
<1>2. QED
  BY <1>1, Invariance, PTL DEF Spec, NothingAllowedAfterCancel

=============================================================================
