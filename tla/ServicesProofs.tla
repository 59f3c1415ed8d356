--------------------------- MODULE ServicesProofs ---------------------------
(***************************************************************************)
(* The goroutines of runServices never wait for each other in a circle,    *)
(* for any number of peers, miners and RPC clients.                        *)
(*                                                                         *)
(* The mutexes are of two kinds.  Below chainMu and sessionsMu others are  *)
(* taken, below the others none is.  So a goroutine that waits with a      *)
(* mutex in its hands holds only outer ones and waits for an inner one.    *)
(***************************************************************************)
EXTENDS Services, FiniteSetTheorems, NaturalsInduction, WellFoundedInduction, TLAPS

Outer == {ChainMu, SessionsMu}
Inner ==
  {NodeMu, JobsMu} \cup {WriteMu(p) : p \in Peer}
    \cup {SessionMu(m) : m \in Miner} \cup {SendMu(m) : m \in Miner}

\* What a goroutine that holds the mutexes of A may do next, and what it holds then.
Allowed(A, x) ==
  /\ x.op \in {"lock", "touch", "unlock", "write"}
  /\ x.op \in {"lock", "touch"} =>
       /\ x.on \in Mutex
       /\ A = {} \/ (A \subseteq Outer /\ x.on \in Inner)
  /\ x.op = "unlock" => x.on \in A

After(A, x) ==
  IF x.op = "lock" THEN A \cup {x.on} ELSE IF x.op = "unlock" THEN A \ {x.on} ELSE A

\* d[i] is what is held before the i-th step of s.
Trace(s, A, B, d) ==
  /\ d[1] = A /\ d[Len(s) + 1] = B
  /\ \A i \in 1..Len(s) : Allowed(d[i], s[i]) /\ d[i + 1] = After(d[i], s[i])

\* The steps of s are allowed one after the other, with the mutexes of A held at the
\* beginning and those of B at the end.
Runs(s, A, B) == s \in Seq(Range(s)) /\ \E d : Trace(s, A, B, d)

Held(g) == {l \in Mutex : owner[l] = g}

\* Every goroutine can go on to the end of its handler, and then holds nothing.
OwnerType == owner \in [Mutex -> Goroutine \cup {None}]
AllRun == \A g \in Goroutine : Runs(todo[g], Held(g), {})

-----------------------------------------------------------------------------
(* Sequences of steps. *)

LEMMA SeqIs ==
  ASSUME NEW s
  PROVE  s \in Seq(Range(s)) <=> \E T : s \in Seq(T)
<1>1. ASSUME NEW T, s \in Seq(T) PROVE s \in Seq(Range(s))
  <2>1. s \in [1..Len(s) -> T] /\ Len(s) \in Nat
    BY <1>1
  <2>2. s \in [1..Len(s) -> Range(s)]
    BY <2>1 DEF Range
  <2> QED BY <2>1, <2>2
<1> QED BY <1>1

LEMMA RunsNone ==
  ASSUME NEW A
  PROVE  Runs(<<>>, A, A)
<1> DEFINE d == [i \in {1} |-> A]
<1>1. Trace(<<>>, A, A, d)
  BY DEF Trace
<1>2. <<>> \in Seq(Range(<<>>))
  OBVIOUS
<1> QED BY <1>1, <1>2 DEF Runs

LEMMA RunsOne ==
  ASSUME NEW A, NEW x, Allowed(A, x)
  PROVE  Runs(<<x>>, A, After(A, x))
<1> DEFINE d == [i \in 1..2 |-> IF i = 1 THEN A ELSE After(A, x)]
           s == <<x>>
<1>1. Len(s) = 1 /\ s[1] = x /\ s \in Seq({x})
  OBVIOUS
<1>2. d[1] = A /\ d[2] = After(A, x)
  OBVIOUS
<1> HIDE DEF d, s
<1>3. Trace(s, A, After(A, x), d)
  BY <1>1, <1>2 DEF Trace
<1>4. s \in Seq(Range(s))
  BY <1>1, SeqIs
<1> QED BY <1>3, <1>4 DEF Runs, s

LEMMA RunsConcat ==
  ASSUME NEW s, NEW t, NEW A, NEW B, NEW C, Runs(s, A, B), Runs(t, B, C)
  PROVE  Runs(s \o t, A, C)
<1>1. PICK d : Trace(s, A, B, d)
  BY DEF Runs
<1>2. PICK e : Trace(t, B, C, e)
  BY DEF Runs
<1> DEFINE T == Range(s) \cup Range(t)
<1>3. s \in Seq(T) /\ t \in Seq(T)
  BY DEF Runs
<1> HIDE DEF T
<1> DEFINE m == Len(s)
           n == Len(t)
           r == s \o t
           f == [i \in 1..(m + n + 1) |-> IF i <= m THEN d[i] ELSE e[i - m]]
<1>4. m \in Nat /\ n \in Nat /\ r \in Seq(T) /\ Len(r) = m + n
  BY <1>3
<1>5. (\A i \in 1..m : r[i] = s[i]) /\ \A i \in 1..(m + n) : i > m => r[i] = t[i - m]
  BY <1>3
<1>6. d[1] = A /\ d[m + 1] = B /\ \A i \in 1..m : Allowed(d[i], s[i]) /\ d[i + 1] = After(d[i], s[i])
  BY <1>1 DEF Trace
<1>7. e[1] = B /\ e[n + 1] = C /\ \A i \in 1..n : Allowed(e[i], t[i]) /\ e[i + 1] = After(e[i], t[i])
  BY <1>2 DEF Trace
<1> HIDE DEF m, n, r
<1>8. \A i \in 1..(m + 1) : f[i] = d[i]
  BY <1>4, <1>6, <1>7
<1>9. \A i \in 1..(m + n + 1) : i > m => f[i] = e[i - m]
  BY <1>4
<1> HIDE DEF f
<1>10. f[1] = A /\ f[m + n + 1] = C
  BY <1>4, <1>6, <1>7, <1>8, <1>9
<1>11. ASSUME NEW i \in 1..(m + n)
       PROVE  Allowed(f[i], r[i]) /\ f[i + 1] = After(f[i], r[i])
  <2>1. CASE i <= m
    <3>1. i \in 1..m /\ i \in 1..(m + 1) /\ i + 1 \in 1..(m + 1)
      BY <1>4, <2>1
    <3> QED BY <1>5, <1>6, <1>8, <3>1
  <2>2. CASE ~(i <= m)
    <3>1. i - m \in 1..n /\ i > m /\ i + 1 > m /\ i \in 1..(m + n + 1) /\ i + 1 \in 1..(m + n + 1)
          /\ (i + 1) - m = (i - m) + 1
      BY <1>4, <2>2
    <3>2. r[i] = t[i - m] /\ f[i] = e[i - m] /\ f[i + 1] = e[(i - m) + 1]
      BY <1>5, <1>9, <3>1
    <3> QED BY <1>7, <3>1, <3>2
  <2> QED BY <2>1, <2>2
<1>12. Trace(r, A, C, f)
  BY <1>4, <1>10, <1>11 DEF Trace
<1>13. r \in Seq(Range(r))
  BY <1>4, SeqIs
<1> QED BY <1>12, <1>13 DEF Runs, r

\* A goroutine takes the first step of a handler.
LEMMA RunsTail ==
  ASSUME NEW s, NEW A, NEW B, Runs(s, A, B), s # <<>>
  PROVE  Allowed(A, Head(s)) /\ Runs(Tail(s), After(A, Head(s)), B)
<1>1. PICK d : Trace(s, A, B, d)
  BY DEF Runs
<1> DEFINE T == Range(s)
           t == Tail(s)
           n == Len(s)
           e == [i \in 1..n |-> d[i + 1]]
<1>2. s \in Seq(T)
  BY DEF Runs
<1> HIDE DEF T
<1>3. n \in Nat /\ n > 0 /\ Head(s) = s[1] /\ t \in Seq(T) /\ Len(t) = n - 1
      /\ \A i \in 1..(n - 1) : t[i] = s[i + 1]
  BY <1>2
<1>4. d[1] = A /\ d[n + 1] = B /\ \A i \in 1..n : Allowed(d[i], s[i]) /\ d[i + 1] = After(d[i], s[i])
  BY <1>1 DEF Trace
<1> HIDE DEF t, n
<1>5. Allowed(A, Head(s)) /\ d[2] = After(A, Head(s))
  BY <1>3, <1>4
<1>6. \A i \in 1..n : e[i] = d[i + 1]
  OBVIOUS
<1> HIDE DEF e
<1>7. e[1] = After(A, Head(s)) /\ e[(n - 1) + 1] = B
  BY <1>3, <1>4, <1>5, <1>6
<1>8. ASSUME NEW i \in 1..(n - 1)
      PROVE  Allowed(e[i], t[i]) /\ e[i + 1] = After(e[i], t[i])
  <2>1. i \in 1..n /\ i + 1 \in 1..n
    BY <1>3
  <2> QED BY <1>3, <1>4, <1>6, <2>1
<1>9. Trace(t, After(A, Head(s)), B, e)
  BY <1>3, <1>7, <1>8 DEF Trace
<1>10. t \in Seq(Range(t))
  BY <1>3, SeqIs
<1> QED BY <1>5, <1>9, <1>10 DEF Runs, t

-----------------------------------------------------------------------------
(* Induction, and sequences made from sets and from sequences. *)

LEMMA SetInduction ==
  ASSUME NEW S, 0 \in S, \A n \in Nat : n \in S => n + 1 \in S
  PROVE  Nat \subseteq S
<1> SUFFICES ASSUME Nat \ S # {} PROVE FALSE
  OBVIOUS
<1>1. PICK x \in Nat \ S : \A y \in Nat \ S : ~ (<<y, x>> \in OpToRel(<, Nat))
  BY NatLessThanWellFounded, WFMin
<1>2. \A y \in Nat \ S : ~ (y < x)
  BY <1>1 DEF OpToRel
<1>3. x \in Nat /\ x \notin S /\ x # 0
  BY <1>1
<1>4. x - 1 \in Nat /\ x - 1 < x /\ (x - 1) + 1 = x
  BY <1>3
<1>5. x - 1 \in S
  BY <1>2, <1>4
<1> QED BY <1>3, <1>4, <1>5

LEMMA SetToSeqIs ==
  ASSUME NEW S, IsFiniteSet(S)
  PROVE  Cardinality(S) \in Nat /\ SetToSeq(S) \in [1..Cardinality(S) -> S]
<1>1. Cardinality(S) \in Nat /\ ExistsBijection(1..Cardinality(S), S)
  BY FS_CardinalityType
<1>2. \E f \in [1..Cardinality(S) -> S] : IsInjective(f)
  BY <1>1 DEF ExistsBijection, Bijection, Injection, IsInjective
<1> QED BY <1>1, <1>2 DEF SetToSeq

\* A round for each element of a sequence, each of which leaves what is held as it was.
LEMMA FlattenRuns ==
  ASSUME NEW n \in Nat, NEW seqs, seqs \in Seq(Range(seqs)), Len(seqs) = n,
         NEW A, \A i \in 1..n : Runs(seqs[i], A, A)
  PROVE  Runs(FlattenSeq(seqs), A, A)
<1>1. CASE n = 0
  <2>1. seqs = <<>> /\ FlattenSeq(seqs) = seqs
    BY <1>1 DEF FlattenSeq
  <2> QED BY <2>1, RunsNone
<1>2. CASE n > 0
  <2> DEFINE Upto(k, f) ==
        f = [i \in 1..k |-> IF i = 1 THEN seqs[i] ELSE f[i - 1] \o seqs[i]]
      S == {k \in Nat : \E f : Upto(k, f)}
  <2>1. 0 \in S
    <3>1. Upto(0, [i \in 1..0 |-> 0])
      OBVIOUS
    <3> QED BY <3>1
  <2>2. ASSUME NEW k \in Nat, k \in S PROVE k + 1 \in S
    <3>1. PICK f : Upto(k, f)
      BY <2>2
    <3> DEFINE g == [i \in 1..(k + 1) |->
                       IF i = k + 1 THEN (IF i = 1 THEN seqs[i] ELSE f[i - 1] \o seqs[i]) ELSE f[i]]
    <3>2. ASSUME NEW i \in 1..(k + 1)
          PROVE  g[i] = IF i = 1 THEN seqs[i] ELSE g[i - 1] \o seqs[i]
      <4>1. CASE i = k + 1
        <5>1. i # 1 => i - 1 \in 1..(k + 1) /\ i - 1 # k + 1
          BY <4>1
        <5> QED BY <4>1, <5>1
      <4>2. CASE i # k + 1
        <5>1. i \in 1..k /\ (i # 1 => i - 1 \in 1..(k + 1) /\ i - 1 # k + 1)
          BY <4>2
        <5>2. f[i] = IF i = 1 THEN seqs[i] ELSE f[i - 1] \o seqs[i]
          BY <3>1, <5>1
        <5> QED BY <4>2, <5>1, <5>2
      <4> QED BY <4>1, <4>2
    <3>3. g = [i \in 1..(k + 1) |-> g[i]]
      OBVIOUS
    <3> HIDE DEF g
    <3>4. Upto(k + 1, g)
      BY <3>2, <3>3
    <3>5. k + 1 \in Nat
      OBVIOUS
    <3> HIDE DEF Upto
    <3>6. \E h : Upto(k + 1, h)
      BY <3>4
    <3> QED BY <3>5, <3>6
  <2>3. \E f : Upto(n, f)
    <3> HIDE DEF S
    <3>1. n \in S
      BY <2>1, <2>2, SetInduction
    <3> QED BY <3>1 DEF S
  <2> DEFINE flatten == CHOOSE f : Upto(n, f)
  <2>4. FlattenSeq(seqs) = flatten[n]
    BY <1>2 DEF FlattenSeq
  <2>5. Upto(n, flatten)
    BY <2>3
  <2> HIDE DEF flatten, S
  <2>6. \A i \in 1..n : flatten[i] = IF i = 1 THEN seqs[i] ELSE flatten[i - 1] \o seqs[i]
    BY <2>5
  <2> HIDE DEF Upto
  <2> DEFINE R == {k \in Nat : k \in 1..n => Runs(flatten[k], A, A)}
  <2>7. 0 \in R
    OBVIOUS
  <2>8. ASSUME NEW k \in Nat, k \in R PROVE k + 1 \in R
    <3> SUFFICES ASSUME k + 1 \in 1..n PROVE Runs(flatten[k + 1], A, A)
      OBVIOUS
    <3>1. CASE k = 0
      BY <2>6, <3>1
    <3>2. CASE k # 0
      <4>1. k \in 1..n /\ k + 1 # 1 /\ (k + 1) - 1 = k
        BY <3>2
      <4>2. Runs(flatten[k], A, A) /\ flatten[k + 1] = flatten[k] \o seqs[k + 1]
        BY <2>6, <2>8, <4>1
      <4>3. Runs(seqs[k + 1], A, A)
        OBVIOUS
      <4> QED BY <4>2, <4>3, RunsConcat
    <3> QED BY <3>1, <3>2
  <2> HIDE DEF R
  <2>9. n \in R
    BY <2>7, <2>8, SetInduction
  <2>10. Runs(flatten[n], A, A)
    BY <1>2, <2>9 DEF R
  <2> QED BY <2>4, <2>10
<1> QED BY <1>1, <1>2

-----------------------------------------------------------------------------
(* The pieces of the handlers. *)

\* A goroutine that holds the mutexes of A may wait for l.
MayTake(A, l) == l \in Mutex /\ (A = {} \/ (A \subseteq Outer /\ l \in Inner))

LEMMA Kinds ==
  /\ Mutex = Outer \cup Inner
  /\ Outer \cap Inner = {}
<1>1. \A p : WriteMu(p) # ChainMu /\ WriteMu(p) # SessionsMu
  BY DEF WriteMu, ChainMu, SessionsMu
<1>2. \A m : SessionMu(m) # ChainMu /\ SessionMu(m) # SessionsMu
  BY DEF SessionMu, ChainMu, SessionsMu
<1>3. \A m : SendMu(m) # ChainMu /\ SendMu(m) # SessionsMu
  BY DEF SendMu, ChainMu, SessionsMu
<1>4. NodeMu # ChainMu /\ NodeMu # SessionsMu /\ JobsMu # ChainMu /\ JobsMu # SessionsMu
  BY DEF NodeMu, JobsMu, ChainMu, SessionsMu
<1>5. Mutex = Outer \cup Inner
  BY DEF Mutex, Outer, Inner
<1>6. Outer \cap Inner = {}
  BY <1>1, <1>2, <1>3, <1>4 DEF Outer, Inner
<1> QED BY <1>5, <1>6

\* An inner mutex may be taken with outer ones held, any one with none.
LEMMA Takes ==
  /\ \A l \in Mutex : MayTake({}, l)
  /\ \A A \in SUBSET Outer : \A l \in Inner : MayTake(A, l)
  /\ ChainMu \in Mutex /\ SessionsMu \in Mutex /\ ChainMu \in Outer /\ SessionsMu \in Outer
  /\ NodeMu \in Inner /\ JobsMu \in Inner
  /\ \A p \in Peer : WriteMu(p) \in Inner
  /\ \A m \in Miner : SessionMu(m) \in Inner /\ SendMu(m) \in Inner
  /\ Inner \subseteq Mutex
<1>1. Mutex = Outer \cup Inner
  BY Kinds
<1>2. ChainMu \in Outer /\ SessionsMu \in Outer
  BY DEF Outer
<1>3. /\ NodeMu \in Inner /\ JobsMu \in Inner
      /\ \A p \in Peer : WriteMu(p) \in Inner
      /\ \A m \in Miner : SessionMu(m) \in Inner /\ SendMu(m) \in Inner
  BY DEF Inner
<1>4. \A l \in Mutex : MayTake({}, l)
  BY DEF MayTake
<1>5. \A A \in SUBSET Outer : \A l \in Inner : MayTake(A, l)
  BY <1>1 DEF MayTake
<1> QED BY <1>1, <1>2, <1>3, <1>4, <1>5

\* A critical section of its own, or a write.
Short(A, x) ==
  \/ \E l : MayTake(A, l) /\ x = Touch(l)
  \/ \E e : x = Write(e)

LEMMA ShortRuns ==
  ASSUME NEW s, NEW n \in Nat, s \in Seq(Range(s)), Len(s) = n,
         NEW A, \A i \in 1..n : Short(A, s[i])
  PROVE  Runs(s, A, A)
<1> DEFINE d == [i \in 1..(n + 1) |-> A]
<1>1. \A i \in 1..(n + 1) : d[i] = A
  OBVIOUS
<1> HIDE DEF d
<1>2. ASSUME NEW x, Short(A, x) PROVE Allowed(A, x) /\ After(A, x) = A
  <2>1. CASE \E l : MayTake(A, l) /\ x = Touch(l)
    <3>1. PICK l : MayTake(A, l) /\ x = Touch(l)
      BY <2>1
    <3>2. x.op = "touch" /\ x.on = l
      BY <3>1 DEF Touch
    <3> QED BY <3>1, <3>2 DEF Allowed, After, MayTake
  <2>2. CASE \E e : x = Write(e)
    <3>1. x.op = "write"
      BY <2>2 DEF Write
    <3> QED BY <3>1 DEF Allowed, After
  <2> QED BY <1>2, <2>1, <2>2 DEF Short
<1>3. ASSUME NEW i \in 1..n
      PROVE  Allowed(d[i], s[i]) /\ d[i + 1] = After(d[i], s[i])
  <2>1. i \in 1..(n + 1) /\ i + 1 \in 1..(n + 1)
    OBVIOUS
  <2>2. d[i] = A /\ d[i + 1] = A
    BY <1>1, <2>1
  <2> QED BY <1>2, <2>2
<1>4. d[1] = A /\ d[n + 1] = A
  BY <1>1
<1>5. Trace(s, A, A, d)
  BY <1>3, <1>4 DEF Trace
<1> QED BY <1>5 DEF Runs

LEMMA HoldingRuns ==
  ASSUME NEW A, NEW l, NEW body, MayTake(A, l), Runs(body, A \cup {l}, A \cup {l})
  PROVE  Runs(Holding(l, body), A, A)
<1> DEFINE B == A \cup {l}
<1>1. Allowed(A, Lock(l)) /\ After(A, Lock(l)) = B
  BY DEF Allowed, After, MayTake, Lock
<1>2. l \notin A
  BY Kinds DEF MayTake
<1>3. Allowed(B, Unlock(l)) /\ After(B, Unlock(l)) = A
  BY <1>2 DEF Allowed, After, Unlock
<1> HIDE DEF B
<1>4. Runs(<<Lock(l)>>, A, B)
  BY <1>1, RunsOne
<1>5. Runs(<<Unlock(l)>>, B, A)
  BY <1>3, RunsOne
<1>6. Runs(<<Lock(l)>> \o body, A, B)
  BY <1>4, RunsConcat DEF B
<1> QED BY <1>5, <1>6, RunsConcat DEF Holding

LEMMA ShortSeqs ==
  ASSUME NEW A
  PROVE  /\ \A x : Short(A, x) => Runs(<<x>>, A, A)
         /\ \A x, y : Short(A, x) /\ Short(A, y) => Runs(<<x, y>>, A, A)
         /\ \A x, y, z : Short(A, x) /\ Short(A, y) /\ Short(A, z) => Runs(<<x, y, z>>, A, A)
<1>1. ASSUME NEW x, Short(A, x) PROVE Runs(<<x>>, A, A)
  <2> DEFINE s == <<x>>
  <2>1. s \in Seq({x}) /\ Len(s) = 1 /\ s[1] = x
    OBVIOUS
  <2> HIDE DEF s
  <2>2. \A i \in 1..1 : Short(A, s[i])
    BY <1>1, <2>1
  <2>3. s \in Seq(Range(s))
    BY <2>1, SeqIs
  <2>4. Runs(s, A, A)
    BY <2>1, <2>2, <2>3, ShortRuns
  <2> QED BY <2>4 DEF s
<1>2. ASSUME NEW x, NEW y, Short(A, x), Short(A, y) PROVE Runs(<<x, y>>, A, A)
  <2> DEFINE s == <<x, y>>
  <2>1. s \in Seq({x, y}) /\ Len(s) = 2 /\ s[1] = x /\ s[2] = y
    OBVIOUS
  <2> HIDE DEF s
  <2>2. \A i \in 1..2 : Short(A, s[i])
    BY <1>2, <2>1
  <2>3. s \in Seq(Range(s))
    BY <2>1, SeqIs
  <2>4. Runs(s, A, A)
    BY <2>1, <2>2, <2>3, ShortRuns
  <2> QED BY <2>4 DEF s
<1>3. ASSUME NEW x, NEW y, NEW z, Short(A, x), Short(A, y), Short(A, z)
      PROVE  Runs(<<x, y, z>>, A, A)
  <2> DEFINE s == <<x, y, z>>
  <2>1. s \in Seq({x, y, z}) /\ Len(s) = 3 /\ s[1] = x /\ s[2] = y /\ s[3] = z
    OBVIOUS
  <2> HIDE DEF s
  <2>2. \A i \in 1..3 : Short(A, s[i])
    BY <1>3, <2>1
  <2>3. s \in Seq(Range(s))
    BY <2>1, SeqIs
  <2>4. Runs(s, A, A)
    BY <2>1, <2>2, <2>3, ShortRuns
  <2> QED BY <2>4 DEF s
<1> QED BY <1>1, <1>2, <1>3

LEMMA ShortIs ==
  ASSUME NEW A
  PROVE  /\ \A l : MayTake(A, l) => Short(A, Touch(l))
         /\ \A e : Short(A, Write(e))
BY DEF Short

\* Writing to a peer or a miner, with outer mutexes held or none.
LEMMA WritesRun ==
  ASSUME NEW A \in SUBSET Outer
  PROVE  /\ \A p \in Peer : Runs(Holding(WriteMu(p), <<Write(p)>>), A, A)
         /\ \A p \in Peer : Runs(WritePeerMessage(p), A, A)
         /\ \A m \in Miner : Runs(Send(m), A, A)
         /\ Runs(<<Touch(NodeMu)>>, A, A)
<1>1. ASSUME NEW l \in Inner, NEW e PROVE Runs(Holding(l, <<Write(e)>>), A, A)
  <2>1. MayTake(A, l)
    BY Takes
  <2>2. Runs(<<Write(e)>>, A \cup {l}, A \cup {l})
    BY ShortSeqs, ShortIs
  <2> QED BY <2>1, <2>2, HoldingRuns
<1>2. Runs(<<Touch(NodeMu)>>, A, A)
  <2>1. MayTake(A, NodeMu)
    BY Takes
  <2> QED BY <2>1, ShortSeqs, ShortIs
<1>3. ASSUME NEW p \in Peer
      PROVE  Runs(Holding(WriteMu(p), <<Write(p)>>), A, A) /\ Runs(WritePeerMessage(p), A, A)
  <2>1. Runs(Holding(WriteMu(p), <<Write(p)>>), A, A)
    BY <1>1, Takes
  <2> QED BY <1>2, <2>1, RunsConcat DEF WritePeerMessage
<1>4. ASSUME NEW m \in Miner PROVE Runs(Send(m), A, A)
  BY <1>1, Takes DEF Send
<1> QED BY <1>2, <1>3, <1>4

LEMMA BroadcastInvRuns ==
  ASSUME NEW A \in SUBSET Outer, NEW ps \in SUBSET Peer
  PROVE  Runs(BroadcastInv(ps), A, A)
<1> DEFINE n == Cardinality(ps)
           rounds == [i \in 1..n |-> LET p == SetToSeq(ps)[i] IN Holding(WriteMu(p), <<Write(p)>>)]
<1>1. IsFiniteSet(ps)
  BY ServicesAssumption, FS_Subset
<1>2. n \in Nat /\ SetToSeq(ps) \in [1..n -> ps]
  BY <1>1, SetToSeqIs
<1> HIDE DEF n
<1>3. \A i \in 1..n : Runs(rounds[i], A, A)
  <2> SUFFICES ASSUME NEW i \in 1..n PROVE Runs(rounds[i], A, A)
    OBVIOUS
  <2>1. SetToSeq(ps)[i] \in Peer
    BY <1>2
  <2>2. rounds[i] = Holding(WriteMu(SetToSeq(ps)[i]), <<Write(SetToSeq(ps)[i])>>)
    OBVIOUS
  <2> QED BY <2>1, <2>2, WritesRun
<1>4. rounds \in Seq(Range(rounds)) /\ Len(rounds) = n
  BY <1>2 DEF Range
<1> HIDE DEF rounds
<1>5. Runs(FlattenSeq(rounds), A, A)
  BY <1>2, <1>3, <1>4, FlattenRuns
<1>6. Runs(<<Touch(NodeMu)>> \o FlattenSeq(rounds), A, A)
  BY <1>5, WritesRun, RunsConcat
<1> QED BY <1>6 DEF BroadcastInv, rounds, n

LEMMA JobsRun ==
  /\ Runs(CreateJob, {}, {})
  /\ Runs(BroadcastJob, {}, {})
<1>1. Runs(CreateJob, {}, {})
  <2>1. MayTake({}, ChainMu) /\ MayTake({ChainMu}, JobsMu)
    BY Takes
  <2>2. Runs(<<Touch(JobsMu)>>, {ChainMu}, {ChainMu})
    BY <2>1, ShortSeqs, ShortIs
  <2>3. {} \cup {ChainMu} = {ChainMu}
    OBVIOUS
  <2> QED BY <2>1, <2>2, <2>3, HoldingRuns DEF CreateJob
<1> DEFINE n == Cardinality(Miner)
           miners == SetToSeq(Miner)
           marks == [i \in DOMAIN miners |-> Touch(SessionMu(miners[i]))]
           sends == [i \in DOMAIN miners |-> Send(miners[i])]
<1>2. n \in Nat /\ miners \in [1..n -> Miner]
  BY ServicesAssumption, SetToSeqIs
<1> HIDE DEF n, miners
<1>3. DOMAIN miners = 1..n
  BY <1>2
<1>4. /\ marks \in Seq(Range(marks)) /\ Len(marks) = n
      /\ sends \in Seq(Range(sends)) /\ Len(sends) = n
  BY <1>2, <1>3 DEF Range
<1>5. Runs(FlattenSeq(sends), {}, {})
  <2>1. \A i \in 1..n : Runs(sends[i], {}, {})
    BY <1>2, <1>3, WritesRun
  <2> HIDE DEF sends
  <2> QED BY <1>2, <1>4, <2>1, FlattenRuns
<1>6. Runs(marks, {SessionsMu}, {SessionsMu})
  <2>1. \A i \in 1..n : Short({SessionsMu}, marks[i])
    <3> SUFFICES ASSUME NEW i \in 1..n PROVE Short({SessionsMu}, marks[i])
      OBVIOUS
    <3>1. miners[i] \in Miner /\ marks[i] = Touch(SessionMu(miners[i]))
      BY <1>2, <1>3
    <3>2. MayTake({SessionsMu}, SessionMu(miners[i]))
      BY <3>1, Takes
    <3> QED BY <3>1, <3>2, ShortIs
  <2> HIDE DEF marks
  <2> QED BY <1>2, <1>4, <2>1, ShortRuns
<1>7. Runs(Holding(SessionsMu, marks), {}, {})
  <2>1. {} \cup {SessionsMu} = {SessionsMu} /\ MayTake({}, SessionsMu)
    BY Takes
  <2> HIDE DEF marks
  <2> QED BY <1>6, <2>1, HoldingRuns
<1> HIDE DEF marks, sends
<1>8. Runs(CreateJob \o Holding(SessionsMu, marks), {}, {})
  BY <1>1, <1>7, RunsConcat
<1>9. Runs(CreateJob \o Holding(SessionsMu, marks) \o FlattenSeq(sends), {}, {})
  BY <1>5, <1>8, RunsConcat
<1>10. Runs(BroadcastJob, {}, {})
  BY <1>9 DEF BroadcastJob, marks, sends, miners
<1> QED BY <1>1, <1>10

-----------------------------------------------------------------------------
(* The handlers. *)

\* The critical sections outside any other.
LEMMA TouchesRun ==
  /\ \A l \in Mutex : Short({}, Touch(l)) /\ Runs(<<Touch(l)>>, {}, {})
  /\ \A e : Short({}, Write(e)) /\ Runs(<<Write(e)>>, {}, {})
  /\ Short({}, Touch(ChainMu)) /\ Short({}, Touch(NodeMu)) /\ Short({}, Touch(JobsMu))
  /\ Short({}, Touch(SessionsMu))
<1>1. \A l \in Mutex : Short({}, Touch(l))
  BY Takes, ShortIs
<1>2. \A e : Short({}, Write(e))
  BY ShortIs
<1>3. ChainMu \in Mutex /\ NodeMu \in Mutex /\ JobsMu \in Mutex /\ SessionsMu \in Mutex
  BY Takes
<1> QED BY <1>1, <1>2, <1>3, ShortSeqs

LEMMA CallbacksRun ==
  /\ Runs(NotifyBlockConnected, {}, {})
  /\ Runs(AcceptTx, {}, {})
  /\ \A A \in SUBSET Outer : Runs(RelayBlock, A, A)
<1>1. Runs(<<Touch(ChainMu)>>, {}, {})
  BY TouchesRun, Takes
<1>2. Runs(<<>>, {}, {})
  BY RunsNone
<1>3. Runs(NotifyBlockConnected, {}, {}) /\ Runs(AcceptTx, {}, {})
  BY <1>1, <1>2 DEF NotifyBlockConnected, AcceptTx
<1>4. ASSUME NEW A \in SUBSET Outer PROVE Runs(RelayBlock, A, A)
  <2>1. Runs(<<>>, A, A)
    BY RunsNone
  <2>2. Runs(BroadcastInv(Peer), A, A)
    BY BroadcastInvRuns
  <2> QED BY <2>1, <2>2 DEF RelayBlock
<1> QED BY <1>3, <1>4

LEMMA PeerHandlersRun ==
  ASSUME NEW p \in Peer, NEW h \in PeerHandlers(p)
  PROVE  Runs(h, {}, {})
<1> DEFINE hello == <<Touch(NodeMu), Touch(ChainMu), Write(p), Touch(NodeMu), Touch(ChainMu)>>
<1>1. Runs(WritePeerMessage(p), {}, {}) /\ Runs(BroadcastInv(Peer \ {p}), {}, {})
  BY WritesRun, BroadcastInvRuns
<1>2. /\ Runs(<<Touch(ChainMu)>>, {}, {}) /\ Runs(<<Touch(NodeMu)>>, {}, {})
      /\ Runs(<<Touch(ChainMu), Touch(NodeMu)>>, {}, {})
  BY TouchesRun, Takes, ShortSeqs
<1>3. Runs(hello, {}, {})
  <2> DEFINE T == {Touch(NodeMu), Touch(ChainMu), Write(p)}
  <2>1. /\ hello \in Seq(T) /\ Len(hello) = 5
        /\ hello[1] = Touch(NodeMu) /\ hello[2] = Touch(ChainMu) /\ hello[3] = Write(p)
        /\ hello[4] = Touch(NodeMu) /\ hello[5] = Touch(ChainMu)
    OBVIOUS
  <2> HIDE DEF hello, T
  <2>2. \A i \in 1..5 : Short({}, hello[i])
    <3>1. Short({}, Touch(NodeMu)) /\ Short({}, Touch(ChainMu)) /\ Short({}, Write(p))
      BY TouchesRun
    <3>2. \A i \in 1..5 : i = 1 \/ i = 2 \/ i = 3 \/ i = 4 \/ i = 5
      OBVIOUS
    <3> QED BY <2>1, <3>1, <3>2, Zenon
  <2>3. hello \in Seq(Range(hello))
    BY <2>1, SeqIs
  <2> QED BY <2>1, <2>2, <2>3, ShortRuns
<1> HIDE DEF hello
<1>4. Runs(HasBlock, {}, {})
  <2>1. MayTake({}, ChainMu) /\ {} \cup {ChainMu} = {ChainMu} /\ {ChainMu} \in SUBSET Outer
    BY Takes
  <2>2. Runs(<<Touch(NodeMu)>>, {ChainMu}, {ChainMu})
    BY <2>1, WritesRun
  <2> QED BY <2>1, <2>2, HoldingRuns DEF HasBlock
<1>5. Runs(hello \o WritePeerMessage(p), {}, {})
  BY <1>1, <1>3, RunsConcat
<1>6. Runs(<<Touch(ChainMu)>> \o WritePeerMessage(p), {}, {})
  BY <1>1, <1>2, RunsConcat
<1>7. Runs(HasBlock \o WritePeerMessage(p), {}, {})
  BY <1>1, <1>4, RunsConcat
<1>8. Runs(<<Touch(ChainMu)>> \o NotifyBlockConnected \o BroadcastInv(Peer \ {p}), {}, {})
  <2>1. Runs(<<Touch(ChainMu)>> \o NotifyBlockConnected, {}, {})
    BY <1>2, CallbacksRun, RunsConcat
  <2> QED BY <1>1, <2>1, RunsConcat
<1>9. Runs(AcceptTx \o BroadcastInv(Peer \ {p}), {}, {})
  BY <1>1, CallbacksRun, RunsConcat
<1>10. h \in { hello \o WritePeerMessage(p), WritePeerMessage(p),
               <<Touch(ChainMu)>> \o WritePeerMessage(p), HasBlock \o WritePeerMessage(p),
               <<Touch(NodeMu)>>,
               <<Touch(ChainMu)>> \o NotifyBlockConnected \o BroadcastInv(Peer \ {p}),
               <<Touch(ChainMu), Touch(NodeMu)>>, AcceptTx \o BroadcastInv(Peer \ {p}) }
  BY Zenon DEF PeerHandlers, hello
<1> QED BY <1>1, <1>2, <1>5, <1>6, <1>7, <1>8, <1>9, <1>10

LEMMA SyncStepRuns == Runs(SyncStep, {}, {})
<1> DEFINE n == Cardinality(Peer)
           peers == SetToSeq(Peer)
           asks == [i \in DOMAIN peers |-> <<Touch(ChainMu)>> \o WritePeerMessage(peers[i])]
<1>1. n \in Nat /\ peers \in [1..n -> Peer]
  BY ServicesAssumption, SetToSeqIs
<1> HIDE DEF n, peers
<1>2. asks \in Seq(Range(asks)) /\ Len(asks) = n
  BY <1>1 DEF Range
<1>3. ASSUME NEW i \in 1..n PROVE Runs(asks[i], {}, {})
  <2>1. asks[i] = <<Touch(ChainMu)>> \o WritePeerMessage(peers[i]) /\ peers[i] \in Peer
    BY <1>1
  <2>2. Runs(<<Touch(ChainMu)>>, {}, {}) /\ Runs(WritePeerMessage(peers[i]), {}, {})
    BY <2>1, TouchesRun, Takes, WritesRun
  <2> QED BY <2>1, <2>2, RunsConcat
<1> HIDE DEF asks
<1>4. Runs(FlattenSeq(asks), {}, {})
  BY <1>1, <1>2, <1>3, FlattenRuns
<1>5. Runs(<<Touch(ChainMu), Touch(NodeMu)>>, {}, {})
  BY TouchesRun, ShortSeqs
<1>6. Runs(<<Touch(ChainMu), Touch(NodeMu)>> \o FlattenSeq(asks), {}, {})
  BY <1>4, <1>5, RunsConcat
<1> QED BY <1>6 DEF SyncStep, asks, peers

LEMMA ClientHandlersRun ==
  ASSUME NEW c, NEW h \in ClientHandlers(c)
  PROVE  Runs(h, {}, {})
<1>1. /\ Runs(<<Touch(ChainMu), Touch(NodeMu), Write(c)>>, {}, {})
      /\ Runs(<<Touch(ChainMu), Write(c)>>, {}, {})
      /\ Runs(<<Touch(SessionsMu), Touch(JobsMu)>>, {}, {})
      /\ Runs(<<Write(c)>>, {}, {})
  BY TouchesRun, ShortSeqs
<1>2. MayTake({}, ChainMu) /\ {} \cup {ChainMu} = {ChainMu} /\ {ChainMu} \in SUBSET Outer
  BY Takes
<1>3. Runs(<<Write(c)>>, {ChainMu}, {ChainMu}) /\ Runs(RelayBlock, {ChainMu}, {ChainMu})
  BY <1>2, ShortSeqs, ShortIs, CallbacksRun
<1>4. Runs(Holding(ChainMu, <<Write(c)>>), {}, {})
  BY <1>2, <1>3, HoldingRuns
<1>5. Runs(Holding(ChainMu, RelayBlock \o <<Write(c)>>), {}, {})
  <2>1. Runs(RelayBlock \o <<Write(c)>>, {ChainMu}, {ChainMu})
    BY <1>3, RunsConcat
  <2> QED BY <1>2, <2>1, HoldingRuns
<1> DEFINE relay == IF "p2p" \in services THEN BroadcastInv(Peer) ELSE <<>>
           status == [i \in 1..Cardinality(Miner) |-> Touch(SessionMu(SetToSeq(Miner)[i]))]
<1>6. Runs(relay, {}, {})
  <2>1. Runs(<<>>, {}, {}) /\ Runs(BroadcastInv(Peer), {}, {})
    BY RunsNone, BroadcastInvRuns
  <2> QED BY <2>1
<1>7. Runs(status, {}, {})
  <2>1. PICK n : n = Cardinality(Miner)
    OBVIOUS
  <2>2. n \in Nat /\ SetToSeq(Miner) \in [1..n -> Miner]
    BY <2>1, ServicesAssumption, SetToSeqIs
  <2>3. status \in Seq(Range(status)) /\ Len(status) = n
    BY <2>1, <2>2 DEF Range
  <2>4. ASSUME NEW i \in 1..n PROVE Short({}, status[i])
    <3>1. status[i] = Touch(SessionMu(SetToSeq(Miner)[i])) /\ SetToSeq(Miner)[i] \in Miner
      BY <2>1, <2>2
    <3>2. SessionMu(SetToSeq(Miner)[i]) \in Mutex
      BY <3>1, Takes
    <3> QED BY <3>1, <3>2, TouchesRun
  <2> HIDE DEF status
  <2> QED BY <2>2, <2>3, <2>4, ShortRuns
<1> HIDE DEF relay, status
<1>8. Runs(AcceptTx \o relay \o <<Touch(ChainMu), Write(c)>>, {}, {})
  <2>1. Runs(AcceptTx \o relay, {}, {})
    BY <1>6, CallbacksRun, RunsConcat
  <2> QED BY <1>1, <2>1, RunsConcat
<1>9. Runs(<<Touch(SessionsMu), Touch(JobsMu)>> \o status \o <<Write(c)>>, {}, {})
  <2>1. Runs(<<Touch(SessionsMu), Touch(JobsMu)>> \o status, {}, {})
    BY <1>1, <1>7, RunsConcat
  <2> QED BY <1>1, <2>1, RunsConcat
<1>10. h \in { Holding(ChainMu, <<Write(c)>>), <<Touch(ChainMu), Touch(NodeMu), Write(c)>>,
               AcceptTx \o relay \o <<Touch(ChainMu), Write(c)>>,
               Holding(ChainMu, RelayBlock \o <<Write(c)>>),
               <<Touch(SessionsMu), Touch(JobsMu)>> \o status \o <<Write(c)>> }
  BY Zenon DEF ClientHandlers, relay, status
<1> QED BY <1>1, <1>4, <1>5, <1>8, <1>9, <1>10

\* Without the RPC server nothing that acceptBlock calls back takes chainMu again.
LEMMA AcceptBlockRuns ==
  ASSUME "rpc" \notin services
  PROVE  Runs(AcceptBlock, {}, {})
<1>1. MayTake({}, ChainMu) /\ {} \cup {ChainMu} = {ChainMu} /\ {ChainMu} \in SUBSET Outer
  BY Takes
<1>2. Runs(NotifyBlockConnected, {ChainMu}, {ChainMu})
  BY RunsNone DEF NotifyBlockConnected
<1>3. Runs(RelayBlock, {ChainMu}, {ChainMu})
  BY <1>1, CallbacksRun
<1>4. Runs(NotifyBlockConnected \o RelayBlock, {ChainMu}, {ChainMu})
  BY <1>2, <1>3, RunsConcat
<1> QED BY <1>1, <1>4, HoldingRuns DEF AcceptBlock

LEMMA MinerHandlersRun ==
  ASSUME NEW m \in Miner, NEW h \in MinerHandlers(m), "rpc" \notin services
  PROVE  Runs(h, {}, {})
<1> DEFINE mark == <<Touch(SessionMu(m))>>
           job == <<Touch(JobsMu)>>
<1>1. Runs(mark, {}, {}) /\ Runs(job, {}, {}) /\ Runs(<<Touch(SessionsMu)>>, {}, {})
  BY TouchesRun, Takes
<1>2. Runs(Send(m), {}, {}) /\ Runs(CreateJob, {}, {}) /\ Runs(BroadcastJob, {}, {})
      /\ Runs(AcceptBlock, {}, {})
  BY WritesRun, JobsRun, AcceptBlockRuns
<1> HIDE DEF mark, job
<1>3. Runs(mark \o Send(m), {}, {}) /\ Runs(mark \o job, {}, {})
  BY <1>1, <1>2, RunsConcat
<1>4. Runs(mark \o Send(m) \o Send(m) \o mark, {}, {})
  <2>1. Runs(mark \o Send(m) \o Send(m), {}, {})
    BY <1>2, <1>3, RunsConcat
  <2> QED BY <1>1, <2>1, RunsConcat
<1>5. Runs(mark \o Send(m) \o CreateJob \o Send(m) \o mark, {}, {})
  <2>1. Runs(mark \o Send(m) \o CreateJob, {}, {})
    BY <1>2, <1>3, RunsConcat
  <2>2. Runs(mark \o Send(m) \o CreateJob \o Send(m), {}, {})
    BY <1>2, <2>1, RunsConcat
  <2> QED BY <1>1, <2>2, RunsConcat
<1>6. Runs(mark \o job \o mark \o Send(m), {}, {})
  <2>1. Runs(mark \o job \o mark, {}, {})
    BY <1>1, <1>3, RunsConcat
  <2> QED BY <1>2, <2>1, RunsConcat
<1>7. Runs(mark \o job \o AcceptBlock \o mark \o BroadcastJob \o mark \o Send(m), {}, {})
  <2>1. Runs(mark \o job \o AcceptBlock, {}, {})
    BY <1>2, <1>3, RunsConcat
  <2>2. Runs(mark \o job \o AcceptBlock \o mark, {}, {})
    BY <1>1, <2>1, RunsConcat
  <2>3. Runs(mark \o job \o AcceptBlock \o mark \o BroadcastJob, {}, {})
    BY <1>2, <2>2, RunsConcat
  <2>4. Runs(mark \o job \o AcceptBlock \o mark \o BroadcastJob \o mark, {}, {})
    BY <1>1, <2>3, RunsConcat
  <2> QED BY <1>2, <2>4, RunsConcat
<1>8. h \in { <<Touch(SessionsMu)>>, mark \o Send(m) \o Send(m) \o mark,
              mark \o Send(m) \o CreateJob \o Send(m) \o mark,
              mark \o job \o mark \o Send(m),
              mark \o job \o AcceptBlock \o mark \o BroadcastJob \o mark \o Send(m) }
  BY Zenon DEF MinerHandlers, mark, job
<1> QED BY <1>1, <1>4, <1>5, <1>6, <1>7, <1>8

LEMMA HandlersRun ==
  ASSUME NEW g \in Goroutine, NEW h \in Handlers(g), ~({"rpc", "stratum"} \subseteq services)
  PROVE  Runs(h, {}, {})
<1>1. \/ g \in Peer /\ h \in PeerHandlers(g)
      \/ h = SyncStep
      \/ g \in Client /\ h \in ClientHandlers(g)
      \/ g \in Miner /\ h \in MinerHandlers(g) /\ "stratum" \in services
      \/ h = BroadcastJob
  BY DEF Handlers, Goroutine
<1>2. "stratum" \in services => "rpc" \notin services
  OBVIOUS
<1> QED BY <1>1, <1>2, PeerHandlersRun, SyncStepRuns, ClientHandlersRun, MinerHandlersRun, JobsRun

-----------------------------------------------------------------------------
(* The invariant. *)

\* At most one of the RPC server and the Stratum bridge runs.
OneOf == ~({"rpc", "stratum"} \subseteq services)

TodoType == todo = [g \in Goroutine |-> todo[g]]

SInv == OneOf /\ TodoType /\ OwnerType /\ AllRun

\* A goroutine that waits may wait for what it waits for; see Allowed.
LEMMA WaitsAllowed ==
  ASSUME SInv, NEW g \in Goroutine, todo[g] # <<>>
  PROVE  /\ Allowed(Held(g), Head(todo[g]))
         /\ Runs(Tail(todo[g]), After(Held(g), Head(todo[g])), {})
BY RunsTail DEF SInv, AllRun

\* A step of g changes what g holds as After says, and nothing of the others.
LEMMA StepKeeps ==
  ASSUME SInv, NEW g \in Goroutine, Goes(g), OwnerType', todo[g] # <<>>,
         Held(g)' = After(Held(g), Head(todo[g])),
         \A k \in Goroutine : k # g => Held(k)' = Held(k)
  PROVE  SInv'
<1>1. OneOf' /\ TodoType' /\ todo'[g] = Tail(todo[g]) /\ \A k \in Goroutine : k # g => todo'[k] = todo[k]
  BY DEF Goes, SInv, OneOf, TodoType
<1>2. ASSUME NEW k \in Goroutine PROVE Runs(todo'[k], Held(k)', {})
  <2>1. CASE k = g
    BY <1>1, <2>1, WaitsAllowed
  <2>2. CASE k # g
    BY <1>1, <2>2 DEF SInv, AllRun
  <2> QED BY <2>1, <2>2
<1>3. AllRun'
  BY <1>2 DEF AllRun
<1> QED BY <1>1, <1>3 DEF SInv

LEMMA LockKeeps ==
  ASSUME SInv, NEW g \in Goroutine, LockMutex(g)
  PROVE  SInv'
<1> DEFINE x == Head(todo[g])
<1>1. todo[g] # <<>> /\ x.op = "lock" /\ owner[x.on] = None /\ Goes(g)
      /\ owner' = [owner EXCEPT ![x.on] = g]
  BY DEF LockMutex, At, On
<1>2. Allowed(Held(g), x)
  BY <1>1, WaitsAllowed
<1> HIDE DEF x
<1>3. x.on \in Mutex /\ After(Held(g), x) = Held(g) \cup {x.on}
  BY <1>1, <1>2 DEF Allowed, After
<1>4. None \notin Goroutine /\ owner \in [Mutex -> Goroutine \cup {None}]
  BY ServicesAssumption DEF SInv, OwnerType
<1>5. OwnerType'
  BY <1>1, <1>4 DEF OwnerType
<1>6. \A k \in Goroutine : k # g => Held(k)' = Held(k)
  BY <1>1, <1>3, <1>4 DEF Held
<1>7. Held(g)' = Held(g) \cup {x.on}
  BY <1>1, <1>3, <1>4 DEF Held
<1> QED BY <1>1, <1>3, <1>5, <1>6, <1>7, StepKeeps DEF x

LEMMA UnlockKeeps ==
  ASSUME SInv, NEW g \in Goroutine, UnlockMutex(g)
  PROVE  SInv'
<1> DEFINE x == Head(todo[g])
<1>1. todo[g] # <<>> /\ x.op = "unlock" /\ Goes(g) /\ owner' = [owner EXCEPT ![x.on] = None]
  BY DEF UnlockMutex, At, On
<1>2. Allowed(Held(g), x)
  BY <1>1, WaitsAllowed
<1> HIDE DEF x
<1>3. x.on \in Held(g) /\ After(Held(g), x) = Held(g) \ {x.on}
  BY <1>1, <1>2 DEF Allowed, After
<1>4. x.on \in Mutex /\ owner[x.on] = g
  BY <1>3 DEF Held
<1>5. None \notin Goroutine /\ owner \in [Mutex -> Goroutine \cup {None}]
  BY ServicesAssumption DEF SInv, OwnerType
<1>6. OwnerType'
  BY <1>1, <1>5 DEF OwnerType
<1>7. \A k \in Goroutine : k # g => Held(k)' = Held(k)
  BY <1>1, <1>4, <1>5 DEF Held
<1>8. Held(g)' = Held(g) \ {x.on}
  BY <1>1, <1>4, <1>5 DEF Held
<1> QED BY <1>1, <1>3, <1>6, <1>7, <1>8, StepKeeps DEF x

\* Touch and Write leave the mutexes as they are.
LEMMA PassKeeps ==
  ASSUME SInv, NEW g \in Goroutine, TouchMutex(g) \/ WriteConn(g)
  PROVE  SInv'
<1> DEFINE x == Head(todo[g])
<1>1. todo[g] # <<>> /\ x.op \in {"touch", "write"} /\ Goes(g) /\ owner' = owner
  BY DEF TouchMutex, WriteConn, At
<1> HIDE DEF x
<1>2. After(Held(g), x) = Held(g)
  BY <1>1 DEF After
<1>3. OwnerType' /\ \A k \in Goroutine : Held(k)' = Held(k)
  BY <1>1 DEF OwnerType, Held, SInv
<1> QED BY <1>1, <1>2, <1>3, StepKeeps DEF x

LEMMA StartKeeps ==
  ASSUME SInv, NEW g \in Goroutine, Start(g)
  PROVE  SInv'
<1>1. PICK h \in Handlers(g) : todo' = [todo EXCEPT ![g] = h]
  BY DEF Start
<1>2. todo[g] = <<>> /\ services' = services /\ owner' = owner
  BY DEF Start
<1>3. Runs(h, {}, {})
  BY <1>1, HandlersRun DEF SInv, OneOf
<1>4. Held(g) = {}
  <2>1. Runs(<<>>, Held(g), {})
    BY <1>2 DEF SInv, AllRun
  <2>2. PICK d : Trace(<<>>, Held(g), {}, d)
    BY <2>1 DEF Runs
  <2>3. Len(<<>>) + 1 = 1
    OBVIOUS
  <2> QED BY <2>2, <2>3 DEF Trace
<1>5. TodoType' /\ todo'[g] = h /\ \A k \in Goroutine : k # g => todo'[k] = todo[k]
  BY <1>1 DEF SInv, TodoType
<1>6. OneOf' /\ OwnerType' /\ \A k \in Goroutine : Held(k)' = Held(k)
  BY <1>2 DEF SInv, OneOf, OwnerType, Held
<1>7. ASSUME NEW k \in Goroutine PROVE Runs(todo'[k], Held(k)', {})
  BY <1>3, <1>4, <1>5, <1>6 DEF SInv, AllRun
<1>8. AllRun'
  BY <1>7 DEF AllRun
<1> QED BY <1>5, <1>6, <1>8 DEF SInv

LEMMA SInvInit ==
  ASSUME Init, OneOf
  PROVE  SInv
<1>1. TodoType /\ OwnerType
  BY DEF Init, TodoType, OwnerType
<1>2. \A g \in Goroutine : todo[g] = <<>> /\ Held(g) = {}
  BY ServicesAssumption DEF Init, Held
<1>3. AllRun
  BY <1>2, RunsNone DEF AllRun
<1> QED BY <1>1, <1>3 DEF SInv

LEMMA SInvNext ==
  ASSUME SInv, [Next]_vars
  PROVE  SInv'
<1>1. ASSUME NEW g \in Goroutine, Start(g) \/ Step(g) PROVE SInv'
  BY <1>1, StartKeeps, LockKeeps, UnlockKeeps, PassKeeps DEF Step
<1>2. CASE UNCHANGED vars
  BY <1>2 DEF vars, SInv, OneOf, TodoType, OwnerType, AllRun, Held
<1> QED BY <1>1, <1>2 DEF Next

\* A circle needs a goroutine that waits for an outer mutex and holds one.
LEMMA SInvNoCircle ==
  ASSUME SInv
  PROVE  NoCircularWait
<1> SUFFICES ASSUME NEW S \in (SUBSET Goroutine) \ {{}},
                    \A g \in S : \E k \in S : WaitsFor(g, k)
             PROVE  FALSE
  BY DEF NoCircularWait
<1>1. ASSUME NEW g \in S
      PROVE  On(g) \in Outer /\ \E k \in S : On(g) \in Held(k)
  <2>1. PICK k \in S : WaitsFor(g, k)
    OBVIOUS
  <2>2. g \in Goroutine /\ k \in Goroutine /\ todo[g] # <<>> /\ todo[k] # <<>>
        /\ Head(todo[g]).op \in {"lock", "touch"} /\ Head(todo[k]).op \in {"lock", "touch"}
        /\ owner[On(g)] = k
    BY <2>1 DEF WaitsFor, At
  <2>3. Allowed(Held(g), Head(todo[g])) /\ Allowed(Held(k), Head(todo[k]))
    BY <2>2, WaitsAllowed
  <2>4. On(g) \in Mutex
    BY <2>2, <2>3 DEF Allowed, On
  <2>5. On(g) \in Held(k)
    BY <2>2, <2>4 DEF Held
  <2>6. Held(k) \subseteq Outer
    BY <2>2, <2>3, <2>5 DEF Allowed
  <2> QED BY <2>5, <2>6
<1>2. PICK g \in S : TRUE
  OBVIOUS
<1>3. PICK k \in S : On(g) \in Held(k)
  BY <1>1
<1>4. WaitsFor(k, CHOOSE j \in S : WaitsFor(k, j))
  OBVIOUS
<1>5. k \in Goroutine /\ todo[k] # <<>> /\ Head(todo[k]).op \in {"lock", "touch"}
  BY <1>4 DEF WaitsFor, At
<1>6. Allowed(Held(k), Head(todo[k]))
  BY <1>5, WaitsAllowed
<1>7. On(k) \in Inner
  BY <1>3, <1>5, <1>6 DEF Allowed, On
<1> QED BY <1>1, <1>7, Kinds

(***************************************************************************)
(* For any number of peers, miners, RPC clients and busy goroutines: with  *)
(* the RPC server or the Stratum bridge but not both, the goroutines that  *)
(* runServices starts never wait for each other's mutexes in a circle, nor *)
(* one for a mutex that it holds.                                          *)
(***************************************************************************)
THEOREM NoDeadlock ==
  (\A d \in Deployments : ~({"rpc", "stratum"} \subseteq d)) /\ Spec => []NoCircularWait
<1>1. (\A d \in Deployments : ~({"rpc", "stratum"} \subseteq d)) /\ Init => SInv
  BY SInvInit DEF Init, OneOf
<1>2. SInv /\ [Next]_vars => SInv'
  BY SInvNext
<1>3. SInv => NoCircularWait
  BY SInvNoCircle
<1> QED BY <1>1, <1>2, <1>3, PTL DEF Spec

=============================================================================
