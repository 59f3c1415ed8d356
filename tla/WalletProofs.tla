---------------------------- MODULE WalletProofs ----------------------------
(***************************************************************************)
(* Proofs about the pool, the wallet and the wallet file, for every block  *)
(* tree, every set of transactions and any number of peers' goroutines and *)
(* of wallet commands.                                                     *)
(***************************************************************************)
EXTENDS Wallet, WalletKeys, SequenceTheorems, NaturalsInduction, WellFoundedInduction, TLAPS

-----------------------------------------------------------------------------
(* Induction and folds. *)

LEMMA LeastNat ==
  ASSUME NEW T \in SUBSET Nat, T # {}
  PROVE  \E x \in T : \A y \in T : x <= y
<1>1. PICK x \in T : \A y \in T : ~ (<<y, x>> \in OpToRel(<, Nat))
  BY NatLessThanWellFounded, WFMin
<1>2. \A y \in T : ~ (y < x)
  BY <1>1 DEF OpToRel
<1> QED BY <1>2

LEMMA SetInduction ==
  ASSUME NEW S, 0 \in S, \A n \in Nat : n \in S => n + 1 \in S
  PROVE  Nat \subseteq S
<1> SUFFICES ASSUME Nat \ S # {} PROVE FALSE
  OBVIOUS
<1>1. PICK x \in Nat \ S : \A y \in Nat \ S : x <= y
  BY LeastNat
<1>2. x \in Nat /\ x \notin S /\ x # 0
  BY <1>1
<1>3. x - 1 \in Nat /\ ~(x <= x - 1) /\ (x - 1) + 1 = x
  BY <1>2
<1>4. x - 1 \in S
  BY <1>1, <1>3
<1> QED BY <1>2, <1>3, <1>4

LEMMA MaxIs ==
  ASSUME NEW n \in Nat, NEW S \in SUBSET (1..n), S # {}
  PROVE  Max(S) \in S /\ \A y \in S : y <= Max(S)
<1> DEFINE T == {n - y : y \in S}
<1>0. \A y \in S : y \in Int /\ n - y \in Nat
  OBVIOUS
<1>1. T \in SUBSET Nat /\ T # {}
  BY <1>0
<1>2. PICK x \in T : \A y \in T : x <= y
  BY <1>1, LeastNat
<1>3. PICK m \in S : x = n - m
  BY <1>2
<1>4. \A y \in S : m >= y
  BY <1>2, <1>3
<1>5. Max(S) \in S /\ \A y \in S : Max(S) >= y
  BY <1>4 DEF Max
<1>6. Max(S) \in Int
  BY <1>0, <1>5
<1> QED BY <1>0, <1>5, <1>6

\* The first k steps of a fold, as the library defines it.
FoldTo(g, k, W, base, next, seq) ==
  /\ g \in [SUBSET (1..k) -> W]
  /\ \A s \in SUBSET (1..k) :
       g[s] = IF s = {} THEN base ELSE next[<<g[s \ {Max(s)}], seq[Max(s)]>>]

\* The recursive function inside FoldLeft exists.
LEMMA FoldExists ==
  ASSUME NEW W, NEW T, NEW base \in W, NEW n \in Nat, NEW seq \in [1..n -> T],
         NEW next \in [W \X T -> W]
  PROVE  \E g : FoldTo(g, n, W, base, next, seq)
<1> DEFINE S == {k \in Nat : k <= n => \E g : FoldTo(g, k, W, base, next, seq)}
<1>1. 0 \in S
  <2> DEFINE g == [s \in SUBSET (1..0) |-> base]
  <2>1. 1..0 = {}
    OBVIOUS
  <2>2. FoldTo(g, 0, W, base, next, seq)
    BY <2>1 DEF FoldTo
  <2> QED BY <2>2
<1>2. ASSUME NEW k \in Nat, k \in S PROVE k + 1 \in S
  <2> SUFFICES ASSUME k + 1 <= n PROVE \E g : FoldTo(g, k + 1, W, base, next, seq)
    OBVIOUS
  <2>1. PICK f : FoldTo(f, k, W, base, next, seq)
    BY <1>2
  <2> DEFINE j == k + 1
             g == [s \in SUBSET (1..j) |->
                     IF j \in s THEN next[<<f[s \ {j}], seq[j]>>] ELSE f[s]]
  <2>2. j \in Nat /\ j \in 1..n /\ 1..k \subseteq 1..j
    OBVIOUS
  <2>3. \A s \in SUBSET (1..j) : j \notin s => s \in SUBSET (1..k)
    OBVIOUS
  <2>4. \A s \in SUBSET (1..j) : s \ {j} \in SUBSET (1..k)
    OBVIOUS
  <2>5. ASSUME NEW s \in SUBSET (1..j), j \in s PROVE Max(s) = j
    <3>1. Max(s) \in s /\ j <= Max(s)
      BY <2>2, <2>5, MaxIs
    <3>2. Max(s) \in 1..j
      BY <3>1
    <3> QED BY <2>2, <3>1, <3>2
  <2> HIDE DEF j
  <2>6. g \in [SUBSET (1..j) -> W]
    <3> SUFFICES ASSUME NEW s \in SUBSET (1..j) PROVE g[s] \in W
      OBVIOUS
    <3>1. CASE j \in s
      <4>1. f[s \ {j}] \in W /\ seq[j] \in T
        BY <2>1, <2>2, <2>4 DEF FoldTo
      <4> QED BY <3>1, <4>1
    <3>2. CASE j \notin s
      BY <2>1, <2>3, <3>2 DEF FoldTo
    <3> QED BY <3>1, <3>2
  <2>7. ASSUME NEW s \in SUBSET (1..j)
        PROVE  g[s] = IF s = {} THEN base ELSE next[<<g[s \ {Max(s)}], seq[Max(s)]>>]
    <3>1. CASE j \in s
      <4>1. Max(s) = j /\ s # {}
        BY <2>5, <3>1
      <4>2. g[s \ {j}] = f[s \ {j}]
        OBVIOUS
      <4> QED BY <3>1, <4>1, <4>2
    <3>2. CASE j \notin s
      <4>1. s \in SUBSET (1..k) /\ s \ {Max(s)} \in SUBSET (1..k)
        BY <2>3, <3>2
      <4>2. s \ {Max(s)} \in SUBSET (1..j) /\ j \notin s \ {Max(s)}
        BY <3>2
      <4>3. g[s] = f[s] /\ g[s \ {Max(s)}] = f[s \ {Max(s)}]
        BY <3>2, <4>2
      <4>4. f[s] = IF s = {} THEN base ELSE next[<<f[s \ {Max(s)}], seq[Max(s)]>>]
        BY <2>1, <4>1 DEF FoldTo
      <4> QED BY <4>3, <4>4
    <3> QED BY <3>1, <3>2
  <2> HIDE DEF g
  <2>8. FoldTo(g, j, W, base, next, seq)
    BY <2>6, <2>7 DEF FoldTo
  <2> QED BY <2>8 DEF j
<1> HIDE DEF S
<1>3. n \in S
  BY <1>1, <1>2, SetInduction
<1> QED BY <1>3 DEF S

\* What is used of it: the values on 1..0, 1..1, and so on.
LEMMA Initials ==
  ASSUME NEW n \in Nat, NEW k \in 1..n
  PROVE  /\ 1..k \in SUBSET (1..n) /\ 1..(k - 1) \in SUBSET (1..n) /\ 1..0 = {} /\ 1..k # {}
         /\ Max(1..k) = k /\ (1..k) \ {Max(1..k)} = 1..(k - 1)
<1>1. 1..k \in SUBSET (1..k) /\ k \in 1..k /\ k \in Nat
  OBVIOUS
<1>2. Max(1..k) \in 1..k /\ k <= Max(1..k)
  BY <1>1, MaxIs
<1>3. Max(1..k) = k
  BY <1>2
<1> QED BY <1>1, <1>3

\* The equation of the fold, for functions that need not have their values in W.
FoldLike(iter, n, W, base, next, seq) ==
  /\ iter[{}] = base
  /\ \A s \in SUBSET (1..n) :
       s # {} /\ iter[s \ {Max(s)}] \in W => iter[s] = next[<<iter[s \ {Max(s)}], seq[Max(s)]>>]

\* The values of the fold on the initial segments of the sequence.
Partial(acc, n, W, base, next, seq, all) ==
  /\ acc \in [0..n -> W] /\ acc[0] = base /\ acc[n] = all
  /\ \A k \in 1..n : acc[k] = next[<<acc[k - 1], seq[k]>>]

LEMMA FoldAcc ==
  ASSUME NEW W, NEW T, NEW base \in W, NEW n \in Nat, NEW seq \in [1..n -> T],
         NEW next \in [W \X T -> W], NEW iter, FoldLike(iter, n, W, base, next, seq)
  PROVE  \E acc : Partial(acc, n, W, base, next, seq, iter[1..n])
<1> DEFINE acc == [k \in 0..n |-> iter[1..k]]
           S == {k \in Nat : k <= n => acc[k] \in W}
<1>1. acc[0] = base /\ acc[n] = iter[1..n]
  <2>1. 1..0 = {} /\ 0 \in 0..n /\ n \in 0..n
    OBVIOUS
  <2> QED BY <2>1 DEF FoldLike
<1>2. ASSUME NEW k \in 1..n, acc[k - 1] \in W
      PROVE  acc[k] = next[<<acc[k - 1], seq[k]>>] /\ acc[k] \in W
  <2>1. acc[k] = iter[1..k] /\ acc[k - 1] = iter[1..(k - 1)]
    OBVIOUS
  <2> HIDE DEF acc
  <2>2. /\ 1..k \in SUBSET (1..n) /\ 1..k # {}
        /\ Max(1..k) = k /\ (1..k) \ {Max(1..k)} = 1..(k - 1)
    BY Initials
  <2>3. iter[1..k] = next[<<iter[1..(k - 1)], seq[k]>>]
    BY <1>2, <2>1, <2>2 DEF FoldLike
  <2>4. seq[k] \in T
    OBVIOUS
  <2> QED BY <1>2, <2>1, <2>3, <2>4
<1>3. DOMAIN acc = 0..n
  OBVIOUS
<1>4. acc = [k \in 0..n |-> acc[k]]
  OBVIOUS
<1> HIDE DEF acc
<1>5. 0 \in S
  BY <1>1
<1>6. ASSUME NEW k \in Nat, k \in S PROVE k + 1 \in S
  <2> SUFFICES ASSUME k + 1 <= n PROVE acc[k + 1] \in W
    OBVIOUS
  <2>1. acc[k] \in W /\ k + 1 \in 1..n /\ (k + 1) - 1 = k
    BY <1>6
  <2> QED BY <1>2, <2>1
<1>7. Nat \subseteq S
  <2> HIDE DEF S
  <2> QED BY <1>5, <1>6, SetInduction
<1>8. \A k \in 0..n : acc[k] \in W
  BY <1>7
<1>9. acc \in [0..n -> W]
  BY <1>4, <1>8
<1>10. \A k \in 1..n : acc[k] = next[<<acc[k - 1], seq[k]>>]
  BY <1>2, <1>8
<1> QED BY <1>1, <1>9, <1>10 DEF Partial

\* One round of revalidateMempoolLocked.
Keep(c, included, filtered, t) ==
  IF t \notin included /\ Connects(c, Append(filtered, t)) THEN Append(filtered, t) ELSE filtered

\* The rounds of revalidateMempoolLocked.
KeepRounds(acc, n, c, included, pool) ==
  /\ acc \in [0..n -> Seq(Tx)] /\ acc[0] = <<>>
  /\ \A k \in 1..n : acc[k] = Keep(c, included, acc[k - 1], pool[k])

LEMMA RevalidatedIs ==
  ASSUME NEW c, NEW included, NEW n \in Nat, NEW pool \in Seq(Tx), Len(pool) = n
  PROVE  \E acc : KeepRounds(acc, n, c, included, pool) /\ acc[n] = Revalidated(c, pool, included)
<1> DEFINE W == Seq(Tx)
           next == [w \in W \X Tx |-> Keep(c, included, w[1], w[2])]
           E(f) == f = [s \in SUBSET (1..n) |->
                          IF s = {} THEN <<>> ELSE Keep(c, included, f[s \ {Max(s)}], pool[Max(s)])]
           iter == CHOOSE f : E(f)
<1>1. pool \in [1..n -> Tx] /\ DOMAIN pool = 1..n /\ <<>> \in W
  OBVIOUS
<1>2. \A a \in W, t \in Tx : Keep(c, included, a, t) \in W
  BY DEF Keep
<1>3. next \in [W \X Tx -> W] /\ \A a \in W, t \in Tx : next[<<a, t>>] = Keep(c, included, a, t)
  BY <1>2
<1>4. Revalidated(c, pool, included) = iter[1..n]
  BY <1>1 DEF Revalidated, FoldLeft, MapThenFoldSet, Keep
<1> HIDE DEF W, next
<1>5. PICK g : FoldTo(g, n, W, <<>>, next, pool)
  BY <1>1, <1>3, FoldExists
<1>6. ASSUME NEW s \in SUBSET (1..n), s # {}
      PROVE  s \ {Max(s)} \in SUBSET (1..n) /\ pool[Max(s)] \in Tx
  BY <1>1, <1>6, MaxIs
<1>7. E(g)
  <2>1. ASSUME NEW s \in SUBSET (1..n)
        PROVE  g[s] = IF s = {} THEN <<>> ELSE Keep(c, included, g[s \ {Max(s)}], pool[Max(s)])
    BY <1>3, <1>5, <1>6 DEF FoldTo
  <2> QED BY <1>5, <2>1 DEF FoldTo
<1>8. E(iter)
  BY <1>7
<1> HIDE DEF iter
<1>9. /\ iter[{}] = <<>>
      /\ \A s \in SUBSET (1..n) : s # {} =>
           iter[s] = Keep(c, included, iter[s \ {Max(s)}], pool[Max(s)])
  BY <1>8
<1> HIDE DEF E
<1>10. FoldLike(iter, n, W, <<>>, next, pool)
  BY <1>3, <1>6, <1>9 DEF FoldLike
<1>11. PICK acc : Partial(acc, n, W, <<>>, next, pool, iter[1..n])
  <2>1. <<>> \in W /\ pool \in [1..n -> Tx] /\ next \in [W \X Tx -> W]
    BY <1>1, <1>3
  <2> QED BY <1>10, <2>1, FoldAcc
<1>12. ASSUME NEW k \in 1..n PROVE acc[k] = Keep(c, included, acc[k - 1], pool[k])
  <2>1. acc[k - 1] \in W /\ pool[k] \in Tx
    BY <1>1, <1>11 DEF Partial
  <2> QED BY <1>3, <1>11, <2>1 DEF Partial
<1> QED BY <1>4, <1>11, <1>12 DEF W, Partial, KeepRounds

\* Transactions offered to the pool one after the other.
OfferRounds(acc, n, c, included, pool, offered) ==
  /\ acc \in [0..n -> Seq(Tx)] /\ acc[0] = pool
  /\ \A k \in 1..n : acc[k] = Offer(c, included, acc[k - 1], offered[k])

LEMMA OfferedIs ==
  ASSUME NEW c, NEW included, NEW pool \in Seq(Tx), NEW n \in Nat, NEW offered \in Seq(Tx), Len(offered) = n
  PROVE  \E acc : OfferRounds(acc, n, c, included, pool, offered) /\ acc[n] = OfferAll(c, included, pool, offered)
<1> DEFINE W == Seq(Tx)
           next == [w \in W \X Tx |-> Offer(c, included, w[1], w[2])]
           E(f) == f = [s \in SUBSET (1..n) |->
                          IF s = {} THEN pool ELSE Offer(c, included, f[s \ {Max(s)}], offered[Max(s)])]
           iter == CHOOSE f : E(f)
<1>1. offered \in [1..n -> Tx] /\ DOMAIN offered = 1..n /\ pool \in W
  OBVIOUS
<1>2. \A a \in W, t \in Tx : Offer(c, included, a, t) \in W
  BY DEF Offer, Accepted
<1>3. next \in [W \X Tx -> W] /\ \A a \in W, t \in Tx : next[<<a, t>>] = Offer(c, included, a, t)
  BY <1>2
<1>4. OfferAll(c, included, pool, offered) = iter[1..n]
  BY <1>1 DEF OfferAll, FoldLeft, MapThenFoldSet
<1> HIDE DEF W, next
<1>5. PICK g : FoldTo(g, n, W, pool, next, offered)
  BY <1>1, <1>3, FoldExists
<1>6. ASSUME NEW s \in SUBSET (1..n), s # {}
      PROVE  s \ {Max(s)} \in SUBSET (1..n) /\ offered[Max(s)] \in Tx
  BY <1>1, <1>6, MaxIs
<1>7. E(g)
  <2>1. ASSUME NEW s \in SUBSET (1..n)
        PROVE  g[s] = IF s = {} THEN pool ELSE Offer(c, included, g[s \ {Max(s)}], offered[Max(s)])
    BY <1>3, <1>5, <1>6 DEF FoldTo
  <2> QED BY <1>5, <2>1 DEF FoldTo
<1>8. E(iter)
  BY <1>7
<1> HIDE DEF iter
<1>9. /\ iter[{}] = pool
      /\ \A s \in SUBSET (1..n) : s # {} =>
           iter[s] = Offer(c, included, iter[s \ {Max(s)}], offered[Max(s)])
  BY <1>8
<1> HIDE DEF E
<1>10. FoldLike(iter, n, W, pool, next, offered)
  BY <1>3, <1>6, <1>9 DEF FoldLike
<1>11. PICK acc : Partial(acc, n, W, pool, next, offered, iter[1..n])
  <2>1. pool \in W /\ offered \in [1..n -> Tx] /\ next \in [W \X Tx -> W]
    BY <1>1, <1>3
  <2> QED BY <1>10, <2>1, FoldAcc
<1>12. ASSUME NEW k \in 1..n PROVE acc[k] = Offer(c, included, acc[k - 1], offered[k])
  <2>1. acc[k - 1] \in W /\ offered[k] \in Tx
    BY <1>1, <1>11 DEF Partial
  <2> QED BY <1>3, <1>11, <2>1 DEF Partial
<1> QED BY <1>4, <1>11, <1>12 DEF W, Partial, OfferRounds

\* The transactions of the disconnected blocks, lowest block first.
ConcatRounds(acc, n, blocks) ==
  /\ acc \in [0..n -> Seq(Tx)] /\ acc[0] = <<>>
  /\ \A k \in 1..n : acc[k] = TxsOf[blocks[k]] \o acc[k - 1]

LEMMA ReturnedIs ==
  ASSUME NEW n \in Nat, NEW note, NEW blocks \in Seq(Block), blocks = note.disconnected, Len(blocks) = n
  PROVE  \E acc : ConcatRounds(acc, n, blocks) /\ acc[n] = Returned(note)
<1> DEFINE W == Seq(Tx)
           next == [w \in W \X Block |-> TxsOf[w[2]] \o w[1]]
           E(f) == f = [s \in SUBSET (1..n) |->
                          IF s = {} THEN <<>> ELSE TxsOf[blocks[Max(s)]] \o f[s \ {Max(s)}]]
           iter == CHOOSE f : E(f)
<1>1. blocks \in [1..n -> Block] /\ DOMAIN blocks = 1..n /\ <<>> \in W
  OBVIOUS
<1>2. \A a \in W, t \in Block : TxsOf[t] \o a \in W
  BY MempoolAssumption
<1>3. next \in [W \X Block -> W] /\ \A a \in W, t \in Block : next[<<a, t>>] = TxsOf[t] \o a
  BY <1>2
<1>4. Returned(note) = iter[1..n]
  BY <1>1 DEF Returned, FoldLeft, MapThenFoldSet
<1> HIDE DEF W, next
<1>5. PICK g : FoldTo(g, n, W, <<>>, next, blocks)
  BY <1>1, <1>3, FoldExists
<1>6. ASSUME NEW s \in SUBSET (1..n), s # {}
      PROVE  s \ {Max(s)} \in SUBSET (1..n) /\ blocks[Max(s)] \in Block
  BY <1>1, <1>6, MaxIs
<1>7. E(g)
  <2>1. ASSUME NEW s \in SUBSET (1..n)
        PROVE  g[s] = IF s = {} THEN <<>> ELSE TxsOf[blocks[Max(s)]] \o g[s \ {Max(s)}]
    BY <1>3, <1>5, <1>6 DEF FoldTo
  <2> QED BY <1>5, <2>1 DEF FoldTo
<1>8. E(iter)
  BY <1>7
<1> HIDE DEF iter
<1>9. /\ iter[{}] = <<>>
      /\ \A s \in SUBSET (1..n) : s # {} =>
           iter[s] = TxsOf[blocks[Max(s)]] \o iter[s \ {Max(s)}]
  BY <1>8
<1> HIDE DEF E
<1>10. FoldLike(iter, n, W, <<>>, next, blocks)
  BY <1>3, <1>6, <1>9 DEF FoldLike
<1>11. PICK acc : Partial(acc, n, W, <<>>, next, blocks, iter[1..n])
  <2>1. <<>> \in W /\ blocks \in [1..n -> Block] /\ next \in [W \X Block -> W]
    BY <1>1, <1>3
  <2> QED BY <1>10, <2>1, FoldAcc
<1>12. ASSUME NEW k \in 1..n PROVE acc[k] = TxsOf[blocks[k]] \o acc[k - 1]
  <2>1. acc[k - 1] \in W /\ blocks[k] \in Block
    BY <1>1, <1>11 DEF Partial
  <2> QED BY <1>3, <1>11, <2>1 DEF Partial
<1> QED BY <1>4, <1>11, <1>12 DEF W, Partial, ConcatRounds

-----------------------------------------------------------------------------
(* Transactions that connect. *)

LEMMA FundedIs ==
  /\ \A S, o : o \in Funded(S) <=> o \in S /\ Value[o] # 0
  /\ \A A, B : Funded(A \cup B) = Funded(A) \cup Funded(B)
BY DEF Funded

\* t connects to the chain c behind the transactions of S.
Fits(c, S, t) ==
  \A o \in Inputs[t] : o \in (Unspent(c) \cup Funded(S)) \ Spent(S) /\ Mature(c, o)

FirstOf(s, i) == {s[j] : j \in 1..(i - 1)}

LEMMA ConnectsIs ==
  ASSUME NEW c, NEW s \in Seq(Tx)
  PROVE  Connects(c, s) <=> \A i \in 1..Len(s) : Fits(c, FirstOf(s, i), s[i])
<1>1. DOMAIN s = 1..Len(s)
  OBVIOUS
<1> QED BY <1>1 DEF Connects, Fits, FirstOf

LEMMA ConnectsNone ==
  ASSUME NEW c
  PROVE  Connects(c, <<>>)
<1>1. PICK s : s = <<>>
  OBVIOUS
<1>2. s \in Seq(Tx) /\ Len(s) = 0 /\ 1..Len(s) = {}
  BY <1>1
<1>3. Connects(c, s)
  BY <1>2, ConnectsIs
<1> QED BY <1>1, <1>3

LEMMA ConnectsAppend ==
  ASSUME NEW c, NEW s \in Seq(Tx), NEW t \in Tx
  PROVE  /\ Append(s, t) \in Seq(Tx)
         /\ Range(Append(s, t)) = Range(s) \cup {t}
         /\ Connects(c, Append(s, t)) <=> Connects(c, s) /\ Fits(c, Range(s), t)
<1> DEFINE r == Append(s, t)
           n == Len(s)
<1>1. r \in Seq(Tx) /\ Len(r) = n + 1 /\ r[n + 1] = t /\ n \in Nat /\ \A i \in 1..n : r[i] = s[i]
  OBVIOUS
<1>2. DOMAIN s = 1..n /\ DOMAIN r = 1..(n + 1)
  BY <1>1
<1> HIDE DEF r, n
<1>3. \A i \in 1..n : FirstOf(r, i) = FirstOf(s, i)
  BY <1>1 DEF FirstOf
<1>4. FirstOf(r, n + 1) = Range(s)
  BY <1>1, <1>2 DEF FirstOf, Range
<1>5. Range(r) = Range(s) \cup {t}
  <2>1. \A x \in Range(r) : x \in Range(s) \cup {t}
    BY <1>1, <1>2 DEF Range
  <2>2. \A x \in Range(s) \cup {t} : x \in Range(r)
    BY <1>1, <1>2 DEF Range
  <2> QED BY <2>1, <2>2
<1>6. Connects(c, r) <=> \A i \in 1..(n + 1) : Fits(c, FirstOf(r, i), r[i])
  BY <1>1, ConnectsIs
<1>7. Connects(c, s) <=> \A i \in 1..n : Fits(c, FirstOf(s, i), s[i])
  BY ConnectsIs DEF n
<1>8. (\A i \in 1..(n + 1) : Fits(c, FirstOf(r, i), r[i]))
        <=> (\A i \in 1..n : Fits(c, FirstOf(r, i), r[i])) /\ Fits(c, FirstOf(r, n + 1), r[n + 1])
  <2>1. \A i : i \in 1..(n + 1) <=> i \in 1..n \/ i = n + 1
    BY <1>1
  <2> QED BY <2>1, Zenon
<1>9. (\A i \in 1..n : Fits(c, FirstOf(r, i), r[i])) <=> (\A i \in 1..n : Fits(c, FirstOf(s, i), s[i]))
  BY <1>1, <1>3
<1>10. Connects(c, r) <=> Connects(c, s) /\ Fits(c, Range(s), t)
  BY <1>1, <1>4, <1>6, <1>7, <1>8, <1>9
<1> QED BY <1>1, <1>5, <1>10 DEF r

LEMMA RevalidatedConnects ==
  ASSUME NEW c, NEW pool \in Seq(Tx), NEW included
  PROVE  Revalidated(c, pool, included) \in Seq(Tx) /\ Connects(c, Revalidated(c, pool, included))
<1>1. PICK n \in Nat : n = Len(pool)
  OBVIOUS
<1>2. PICK acc : KeepRounds(acc, n, c, included, pool) /\ acc[n] = Revalidated(c, pool, included)
  BY <1>1, RevalidatedIs
<1> DEFINE S == {k \in Nat : k <= n => Connects(c, acc[k])}
<1>3. 0 \in S
  BY <1>2, ConnectsNone DEF KeepRounds
<1>4. ASSUME NEW k \in Nat, k \in S PROVE k + 1 \in S
  <2> SUFFICES ASSUME k + 1 <= n PROVE Connects(c, acc[k + 1])
    OBVIOUS
  <2>1. Connects(c, acc[k]) /\ k + 1 \in 1..n /\ (k + 1) - 1 = k
    BY <1>4
  <2>2. acc[k + 1] = Keep(c, included, acc[k], pool[k + 1])
    BY <1>2, <2>1 DEF KeepRounds
  <2> QED BY <2>1, <2>2 DEF Keep
<1> HIDE DEF S
<1>5. n \in S
  BY <1>3, <1>4, SetInduction
<1>6. Connects(c, acc[n])
  BY <1>5 DEF S
<1>7. acc[n] \in Seq(Tx)
  BY <1>2 DEF KeepRounds
<1> QED BY <1>2, <1>6, <1>7

LEMMA AfterNoteConnects ==
  ASSUME NEW c, NEW pool \in Seq(Tx), NEW note \in Note
  PROVE  AfterNote(c, pool, note) \in Seq(Tx) /\ Connects(c, AfterNote(c, pool, note))
<1>1. PICK d : d = note.disconnected
  OBVIOUS
<1>2. d \in Seq(Block)
  BY <1>1 DEF Note
<1>3. PICK m \in Nat : m = Len(d)
  BY <1>2
<1>4. PICK acc : ConcatRounds(acc, m, d) /\ acc[m] = Returned(note)
  BY <1>1, <1>2, <1>3, ReturnedIs
<1>5. PICK offered \in Seq(Tx) : offered = Returned(note)
  BY <1>4 DEF ConcatRounds
<1>6. PICK n \in Nat : n = Len(offered)
  OBVIOUS
<1>7. PICK included : included = TxsIn(note.connected)
  OBVIOUS
<1>8. PICK acc2 : OfferRounds(acc2, n, c, included, pool, offered)
                  /\ acc2[n] = OfferAll(c, included, pool, offered)
  BY <1>6, OfferedIs
<1>9. acc2[n] \in Seq(Tx)
  BY <1>8 DEF OfferRounds
<1>10. AfterNote(c, pool, note) = Revalidated(c, acc2[n], included)
  BY <1>5, <1>7, <1>8 DEF AfterNote
<1> QED BY <1>9, <1>10, RevalidatedConnects

-----------------------------------------------------------------------------
(* The pool. *)

LEMMA BranchesAre ==
  ASSUME NEW n \in Nat, NEW s \in Branches(n)
  PROVE  /\ s \in Seq(Block) /\ Len(s) \in Nat \ {0} /\ s # <<>>
         /\ \A i \in 2..Len(s) : Parent[s[i]] = s[i - 1]
<1>1. PICK k \in 1..n : s \in [1..k -> Block] /\ \A i \in 2..k : Parent[s[i]] = s[i - 1]
  BY DEF Branches
<1>2. s \in Seq(Block) /\ Len(s) = k
  BY <1>1
<1> QED BY <1>1, <1>2

LEMMA NextBranches ==
  /\ \A s \in ShortBranches : s \in Seq(Block) /\ Len(s) \in Nat \ {0} /\ s # <<>>
  /\ \A s \in LongBranches : s \in Seq(Block) /\ Len(s) \in Nat \ {0} /\ s # <<>>
<1>1. 2 \in Nat /\ 3 \in Nat
  OBVIOUS
<1> QED BY <1>1, BranchesAre DEF ShortBranches, LongBranches

\* A goroutine has a callback to make after every change of the chain by a peer's block.
LEMMA ConnectNotes ==
  ASSUME TypeOK, NEW h \in Handler, NEW s \in Seq(Block), s # <<>>, ConnectBlocks(h, s)
  PROVE  TypeOK' /\ ~Quiet'
<1> DEFINE ns == [i \in DOMAIN s |-> [disconnected |-> <<>>, connected |-> <<s[i]>>]]
<1>1. DOMAIN s = 1..Len(s) /\ Len(s) \in Nat /\ Len(s) # 0
  OBVIOUS
<1>2. \A i \in 1..Len(s) : [disconnected |-> <<>>, connected |-> <<s[i]>>] \in Note
  BY DEF Note
<1>3. ns \in [1..Len(s) -> Note]
  BY <1>1, <1>2
<1>4. ns \in Seq(Note) /\ Len(ns) = Len(s)
  BY <1>1, <1>3
<1>5. ns # <<>>
  BY <1>1, <1>4
<1>6. notes' = [notes EXCEPT ![h] = ns] /\ chain' = chain \o s /\ mempool' = mempool
  BY DEF ConnectBlocks
<1> HIDE DEF ns
<1>7. notes' \in [Handler -> Seq(Note)] /\ notes'[h] = ns
  BY <1>4, <1>6 DEF TypeOK
<1>8. chain' \in Seq(Block)
  BY <1>6 DEF TypeOK
<1> QED BY <1>5, <1>6, <1>7, <1>8 DEF TypeOK, Quiet

LEMMA DisconnectedIs ==
  ASSUME TypeOK, NEW fork \in Nat, fork < Len(chain)
  PROVE  Disconnected(fork) \in Seq(Block) /\ SubSeq(chain, 1, fork) \in Seq(Block)
<1>1. PICK c \in Seq(Block) : c = chain
  BY DEF TypeOK
<1>2. PICK d : d = SubSeq(c, fork + 1, Len(c))
  OBVIOUS
<1>3. d \in Seq(Block) /\ SubSeq(c, 1, fork) \in Seq(Block)
  BY <1>1, <1>2
<1>4. Reverse(d) \in [1..Len(d) -> Block]
  BY <1>3 DEF Reverse
<1>5. Reverse(d) \in Seq(Block)
  BY <1>3, <1>4
<1> QED BY <1>1, <1>2, <1>3, <1>5 DEF Disconnected

LEMMA ReorganizeNotes ==
  ASSUME TypeOK, NEW h \in Handler, NEW fork \in 0..Len(chain), NEW s \in Seq(Block),
         ReorganizeTo(h, fork, s)
  PROVE  TypeOK' /\ ~Quiet'
<1> DEFINE note == [disconnected |-> Disconnected(fork), connected |-> s]
<1>1. fork \in Nat /\ fork < Len(chain)
  BY DEF ReorganizeTo, TypeOK
<1>2. note \in Note
  BY <1>1, DisconnectedIs DEF Note
<1>3. notes' = [notes EXCEPT ![h] = <<note>>] /\ chain' = SubSeq(chain, 1, fork) \o s
      /\ mempool' = mempool
  BY DEF ReorganizeTo
<1> HIDE DEF note
<1>4. <<note>> \in Seq(Note) /\ <<note>> # <<>>
  BY <1>2
<1>5. notes' \in [Handler -> Seq(Note)] /\ notes'[h] = <<note>>
  BY <1>3, <1>4 DEF TypeOK
<1>6. chain' \in Seq(Block)
  BY <1>1, <1>3, DisconnectedIs
<1> QED BY <1>3, <1>4, <1>5, <1>6 DEF TypeOK, Quiet

LEMMA AcceptedIs ==
  ASSUME NEW c, NEW pool \in Seq(Tx), NEW t \in Tx
  PROVE  /\ Accepted(c, pool, t) \in Seq(Tx)
         /\ Accepted(c, pool, t) = pool \/ Connects(c, Accepted(c, pool, t))
BY DEF Accepted

\* What a step may do to the node: one of the node's, or the wallet's request.
NodeNext == Next \/ (\E t \in Tx : SubmitRawTransaction(t)) \/ UNCHANGED vars

LEMMA PoolNext ==
  ASSUME TypeOK, PoolMineable, NodeNext
  PROVE  TypeOK' /\ PoolMineable'
<1>1. ASSUME NEW t \in Tx, AcceptTransaction(t) \/ SubmitRawTransaction(t)
      PROVE  TypeOK' /\ PoolMineable'
  <2>1. mempool' = Accepted(chain, mempool, t) /\ chain' = chain /\ notes' = notes
    BY <1>1 DEF AcceptTransaction, SubmitRawTransaction
  <2>2. mempool' \in Seq(Tx) /\ (mempool' = mempool \/ Connects(chain, mempool'))
    BY <2>1, AcceptedIs DEF TypeOK
  <2>3. TypeOK'
    BY <2>1, <2>2 DEF TypeOK
  <2>4. Quiet' => Quiet
    BY <2>1 DEF Quiet
  <2>5. Quiet' => Connects(chain', mempool')
    BY <2>1, <2>2, <2>4 DEF PoolMineable
  <2> QED BY <2>3, <2>5 DEF PoolMineable
<1>2. ASSUME NEW b \in Block, SubmitBlock(b) PROVE TypeOK' /\ PoolMineable'
  <2>1. chain' \in Seq(Block) /\ notes' = notes
        /\ mempool' = Revalidated(chain', mempool, Range(TxsOf[b]))
    BY <1>2 DEF SubmitBlock, TypeOK
  <2>2. mempool' \in Seq(Tx) /\ Connects(chain', mempool')
    BY <2>1, RevalidatedConnects DEF TypeOK
  <2> QED BY <2>1, <2>2 DEF TypeOK, PoolMineable
<1>3. ASSUME NEW h \in Handler, NEW s \in ShortBranches, ConnectBlocks(h, s)
      PROVE  TypeOK' /\ PoolMineable'
  <2>1. TypeOK' /\ ~Quiet'
    BY <1>3, NextBranches, ConnectNotes
  <2> QED BY <2>1 DEF PoolMineable
<1>4. ASSUME NEW h \in Handler, NEW fork \in 0..Len(chain), NEW s \in LongBranches,
             ReorganizeTo(h, fork, s)
      PROVE  TypeOK' /\ PoolMineable'
  <2>1. TypeOK' /\ ~Quiet'
    BY <1>4, NextBranches, ReorganizeNotes
  <2> QED BY <2>1 DEF PoolMineable
<1>5. ASSUME NEW h \in Handler, Deliver(h) PROVE TypeOK' /\ PoolMineable'
  <2>1. PICK note : note = Head(notes[h])
    OBVIOUS
  <2>2. notes[h] \in Seq(Note) /\ notes[h] # <<>> /\ notes' = [notes EXCEPT ![h] = Tail(@)]
        /\ chain' = chain /\ mempool' = AfterNote(chain, mempool, note)
    BY <1>5, <2>1 DEF Deliver, TakesNote, TypeOK
  <2>3. note \in Note /\ Tail(notes[h]) \in Seq(Note)
    BY <2>1, <2>2
  <2>4. mempool' \in Seq(Tx) /\ Connects(chain', mempool')
    BY <2>2, <2>3, AfterNoteConnects DEF TypeOK
  <2>5. notes' \in [Handler -> Seq(Note)]
    BY <2>2, <2>3 DEF TypeOK
  <2> QED BY <2>2, <2>4, <2>5 DEF TypeOK, PoolMineable
<1>6. CASE UNCHANGED vars
  BY <1>6 DEF vars, TypeOK, PoolMineable, Quiet
<1> QED BY <1>1, <1>2, <1>3, <1>4, <1>5, <1>6 DEF NodeNext, Next

\* The wallet's steps leave the node alone, but for the request that submits.
LEMMA WalletNode ==
  ASSUME [WalletNext]_allVars
  PROVE  NodeNext
<1>1. ASSUME NEW t \in Tx, Send(t) PROVE NodeNext
  BY <1>1 DEF Send, NodeNext
<1>2. CASE NodeStep
  BY <1>2 DEF NodeStep, NodeNext
<1>3. CASE GetBestBlock \/ GetBlock \/ GetRawMempool \/ BuildDraftTx \/ Balance \/ DraftTx
  BY <1>3 DEF GetBestBlock, GetBlock, GetRawMempool, BuildDraftTx, Balance, DraftTx, NodeNext
<1>4. CASE UNCHANGED allVars
  BY <1>4 DEF allVars, NodeNext
<1> QED BY <1>1, <1>2, <1>3, <1>4 DEF WalletNext, WalletStep

LEMMA PoolInit ==
  ASSUME WalletInit
  PROVE  TypeOK /\ PoolMineable
<1>1. chain = <<>> /\ mempool = <<>> /\ notes = [h \in Handler |-> <<>>]
  BY DEF WalletInit, Init
<1>2. TypeOK
  BY <1>1 DEF TypeOK
<1>3. Connects(chain, mempool)
  BY <1>1, ConnectsNone
<1> QED BY <1>2, <1>3 DEF PoolMineable

(***************************************************************************)
(* For every block tree and any number of goroutines that report blocks    *)
(* and reorganisations late and in any order: when the last callback has   *)
(* been made, the pool connects to the chain as a whole.  The types of the *)
(* chain, the pool and the callbacks are part of the invariant.            *)
(***************************************************************************)
THEOREM PoolStaysMineable == WalletSpec => [](TypeOK /\ PoolMineable)
<1>1. WalletInit => TypeOK /\ PoolMineable
  BY PoolInit
<1>2. (TypeOK /\ PoolMineable) /\ [WalletNext]_allVars => (TypeOK /\ PoolMineable)'
  BY WalletNode, PoolNext
<1> QED BY <1>1, <1>2, PTL DEF WalletSpec

-----------------------------------------------------------------------------
(* The chain: every block extends the ones before it. *)

Valid(c) == \A i \in 1..Len(c) : Extends(SubSeq(c, 1, i - 1), c[i])

LEMMA ValidPrefix ==
  ASSUME NEW c \in Seq(Block), NEW k \in 0..Len(c), Valid(c)
  PROVE  SubSeq(c, 1, k) \in Seq(Block) /\ Len(SubSeq(c, 1, k)) = k /\ Valid(SubSeq(c, 1, k))
<1> DEFINE d == SubSeq(c, 1, k)
<1>1. d \in Seq(Block) /\ Len(d) = k /\ \A i \in 1..k : d[i] = c[i]
  OBVIOUS
<1>2. ASSUME NEW i \in 1..k PROVE SubSeq(d, 1, i - 1) = SubSeq(c, 1, i - 1) /\ i \in 1..Len(c)
  <2>1. SubSeq(c, 1, i - 1) = [j \in 1..(i - 1) |-> c[j]] /\ SubSeq(d, 1, i - 1) = [j \in 1..(i - 1) |-> d[j]]
    BY <1>1
  <2>2. \A j \in 1..(i - 1) : d[j] = c[j]
    BY <1>1
  <2> QED BY <2>1, <2>2
<1> HIDE DEF d
<1>3. Valid(d)
  BY <1>1, <1>2 DEF Valid
<1> QED BY <1>1, <1>3 DEF d

LEMMA ValidConcat ==
  ASSUME NEW c \in Seq(Block), NEW s \in Seq(Block), Valid(c), ExtendsBy(c, s)
  PROVE  c \o s \in Seq(Block) /\ Len(c \o s) = Len(c) + Len(s) /\ Valid(c \o s)
<1> DEFINE d == c \o s
           m == Len(c)
           n == Len(s)
<1>1. d \in Seq(Block) /\ Len(d) = m + n /\ m \in Nat /\ n \in Nat /\ DOMAIN s = 1..n
  OBVIOUS
<1>2. (\A i \in 1..m : d[i] = c[i]) /\ \A i \in 1..n : d[m + i] = s[i]
  OBVIOUS
<1>3. ASSUME NEW i \in 1..m PROVE Extends(SubSeq(d, 1, i - 1), d[i])
  <2>1. SubSeq(c, 1, i - 1) = [j \in 1..(i - 1) |-> c[j]] /\ SubSeq(d, 1, i - 1) = [j \in 1..(i - 1) |-> d[j]]
    BY <1>1
  <2>2. \A j \in 1..(i - 1) : d[j] = c[j]
    BY <1>2
  <2>3. SubSeq(d, 1, i - 1) = SubSeq(c, 1, i - 1)
    BY <2>1, <2>2
  <2> QED BY <1>2, <2>3 DEF Valid
<1>4. ASSUME NEW i \in 1..n PROVE Extends(SubSeq(d, 1, (m + i) - 1), d[m + i])
  <2> DEFINE e == c \o SubSeq(s, 1, i - 1)
             f == SubSeq(d, 1, (m + i) - 1)
  <2>1. SubSeq(s, 1, i - 1) \in Seq(Block) /\ Len(SubSeq(s, 1, i - 1)) = i - 1
        /\ \A j \in 1..(i - 1) : SubSeq(s, 1, i - 1)[j] = s[j]
    OBVIOUS
  <2>2. e \in Seq(Block) /\ Len(e) = m + (i - 1)
    BY <2>1
  <2>3. f \in Seq(Block) /\ Len(f) = (m + i) - 1 /\ \A j \in 1..((m + i) - 1) : f[j] = d[j]
    BY <1>1
  <2>4. ASSUME NEW j \in 1..((m + i) - 1) PROVE e[j] = d[j]
    <3>1. CASE j <= m
      BY <2>1, <3>1
    <3>2. CASE j > m
      <4>1. j - m \in 1..(i - 1) /\ j - m \in 1..n /\ m + (j - m) = j
        BY <3>2
      <4>2. e[j] = s[j - m]
        BY <2>1, <3>2, <4>1
      <4> QED BY <1>2, <4>1, <4>2
    <3> QED BY <3>1, <3>2
  <2>5. e = f
    <3>1. Len(e) = (m + i) - 1
      BY <1>1, <2>2
    <3> HIDE DEF e, f, d, m, n
    <3>2. PICK k : k = (m + i) - 1
      OBVIOUS
    <3>3. e = [j \in 1..k |-> e[j]] /\ f = [j \in 1..k |-> f[j]]
      BY <2>2, <2>3, <3>1, <3>2
    <3> QED BY <2>3, <2>4, <3>2, <3>3
  <2>6. Extends(e, s[i])
    BY <1>1 DEF ExtendsBy
  <2> QED BY <1>2, <2>5, <2>6
<1>5. ASSUME NEW i \in 1..Len(d) PROVE Extends(SubSeq(d, 1, i - 1), d[i])
  <2>1. CASE i <= m
    BY <1>1, <1>3, <2>1
  <2>2. CASE i > m
    <3>1. i - m \in 1..n /\ m + (i - m) = i
      BY <1>1, <2>2
    <3> HIDE DEF d, m, n
    <3> QED BY <1>4, <3>1
  <2> QED BY <1>1, <2>1, <2>2
<1>6. Valid(d)
  BY <1>5 DEF Valid
<1> QED BY <1>1, <1>6

LEMMA ValidAppend ==
  ASSUME NEW c \in Seq(Block), NEW b \in Block, Valid(c), Extends(c, b)
  PROVE  Valid(Append(c, b)) /\ Len(Append(c, b)) = Len(c) + 1
<1> DEFINE d == Append(c, b)
           n == Len(c)
<1>1. d \in Seq(Block) /\ Len(d) = n + 1 /\ n \in Nat /\ d[n + 1] = b /\ \A i \in 1..n : d[i] = c[i]
  OBVIOUS
<1> HIDE DEF d
<1>2. ASSUME NEW i \in 1..(n + 1)
      PROVE  SubSeq(d, 1, i - 1) = SubSeq(c, 1, i - 1)
  <2>1. SubSeq(c, 1, i - 1) = [j \in 1..(i - 1) |-> c[j]] /\ SubSeq(d, 1, i - 1) = [j \in 1..(i - 1) |-> d[j]]
    BY <1>1
  <2>2. \A j \in 1..(i - 1) : d[j] = c[j]
    BY <1>1
  <2> QED BY <2>1, <2>2
<1>3. SubSeq(c, 1, (n + 1) - 1) = c
  <2>1. (n + 1) - 1 = n
    BY <1>1
  <2>2. SubSeq(c, 1, n) = [j \in 1..n |-> c[j]] /\ c = [j \in 1..n |-> c[j]]
    OBVIOUS
  <2> QED BY <2>1, <2>2
<1>4. ASSUME NEW i \in 1..(n + 1) PROVE Extends(SubSeq(d, 1, i - 1), d[i])
  <2>1. CASE i = n + 1
    BY <1>1, <1>2, <1>3, <2>1
  <2>2. CASE i \in 1..n
    BY <1>1, <1>2, <2>2 DEF Valid
  <2> QED BY <1>1, <2>1, <2>2
<1> QED BY <1>1, <1>4 DEF Valid, d

\* The chain stays valid and never gets shorter.
LEMMA ChainNext ==
  ASSUME TypeOK, Valid(chain), NodeNext
  PROVE  Valid(chain') /\ Len(chain') >= Len(chain)
<1>0. chain \in Seq(Block) /\ Len(chain) \in Nat
  BY DEF TypeOK
<1>1. CASE chain' = chain
  BY <1>0, <1>1
<1>2. ASSUME NEW b \in Block, SubmitBlock(b) PROVE Valid(chain') /\ Len(chain') >= Len(chain)
  <2>1. Extends(chain, b) /\ chain' = Append(chain, b)
    BY <1>2 DEF SubmitBlock
  <2>2. Valid(chain') /\ Len(chain') = Len(chain) + 1
    BY <1>0, <2>1, ValidAppend
  <2> QED BY <1>0, <2>2
<1>3. ASSUME NEW h \in Handler, NEW s \in ShortBranches, ConnectBlocks(h, s)
      PROVE  Valid(chain') /\ Len(chain') >= Len(chain)
  <2>1. s \in Seq(Block) /\ ExtendsBy(chain, s) /\ chain' = chain \o s /\ Len(s) \in Nat
    BY <1>3, NextBranches DEF ConnectBlocks
  <2>2. Valid(chain') /\ Len(chain') = Len(chain) + Len(s)
    BY <1>0, <2>1, ValidConcat
  <2> QED BY <1>0, <2>1, <2>2
<1>4. ASSUME NEW h \in Handler, NEW fork \in 0..Len(chain), NEW s \in LongBranches,
             ReorganizeTo(h, fork, s)
      PROVE  Valid(chain') /\ Len(chain') >= Len(chain)
  <2>1. PICK c : c = SubSeq(chain, 1, fork)
    OBVIOUS
  <2>2. c \in Seq(Block) /\ Len(c) = fork /\ Valid(c)
    BY <1>0, <2>1, ValidPrefix
  <2>3. s \in Seq(Block) /\ ExtendsBy(c, s) /\ chain' = c \o s /\ Len(s) \in Nat
        /\ fork + Len(s) > Len(chain)
    BY <1>4, <2>1, NextBranches DEF ReorganizeTo, IsLonger
  <2>4. Valid(chain') /\ Len(chain') = Len(c) + Len(s)
    BY <2>2, <2>3, ValidConcat
  <2> QED BY <1>0, <2>2, <2>3, <2>4
<1>5. ASSUME NEW t \in Tx, AcceptTransaction(t) \/ SubmitRawTransaction(t) PROVE chain' = chain
  BY <1>5 DEF AcceptTransaction, SubmitRawTransaction
<1>6. ASSUME NEW h \in Handler, Deliver(h) PROVE chain' = chain
  BY <1>6 DEF Deliver
<1>7. CASE UNCHANGED vars
  BY <1>1, <1>7 DEF vars
<1> QED BY <1>1, <1>2, <1>3, <1>4, <1>5, <1>6, <1>7 DEF NodeNext, Next

\* A valid chain has no block twice: their parents would be the same block too, and
\* the lowest block's parent is the genesis block.
LEMMA BlocksOnce ==
  ASSUME NEW c \in Seq(Block), Valid(c), NEW i \in 1..Len(c), NEW j \in 1..Len(c), c[i] = c[j]
  PROVE  i = j
<1>1. ASSUME NEW k \in 1..Len(c)
      PROVE  Parent[c[k]] = IF k = 1 THEN Genesis ELSE c[k - 1]
  <2>1. PICK d : d = SubSeq(c, 1, k - 1)
    OBVIOUS
  <2>2. d \in Seq(Block) /\ Len(d) = k - 1 /\ \A x \in 1..(k - 1) : d[x] = c[x]
    BY <2>1
  <2>3. Parent[c[k]] = TipOf(d)
    BY <2>1 DEF Valid, Extends
  <2>4. CASE k = 1
    BY <2>2, <2>3, <2>4 DEF TipOf
  <2>5. CASE k # 1
    <3>1. d # <<>> /\ k - 1 \in 1..(k - 1)
      BY <2>2, <2>5
    <3> QED BY <2>2, <2>3, <2>5, <3>1 DEF TipOf, Last
  <2> QED BY <2>4, <2>5
<1>2. \A k \in 1..Len(c) : c[k] # Genesis
  BY MempoolAssumption
<1> DEFINE T == {k \in 1..Len(c) : \E x \in 1..Len(c) : k < x /\ c[k] = c[x]}
<1>3. T = {}
  <2> SUFFICES ASSUME T # {} PROVE FALSE
    OBVIOUS
  <2>1. T \in SUBSET Nat
    OBVIOUS
  <2>2. PICK k \in T : \A y \in T : k <= y
    BY <2>1, LeastNat
  <2>3. PICK x \in 1..Len(c) : k < x /\ c[k] = c[x]
    OBVIOUS
  <2>4. k \in 1..Len(c) /\ x # 1 /\ x - 1 \in 1..Len(c)
    BY <2>3
  <2>5. Parent[c[x]] = c[x - 1]
    BY <1>1, <2>3, <2>4
  <2>6. CASE k = 1
    BY <1>1, <1>2, <2>3, <2>4, <2>5, <2>6
  <2>7. CASE k # 1
    <3>1. c[k - 1] = c[x - 1] /\ k - 1 \in 1..Len(c) /\ k - 1 < x - 1
      <4>1. k - 1 \in 1..Len(c) /\ k - 1 < x - 1
        BY <2>3, <2>4, <2>7
      <4>2. Parent[c[k]] = c[k - 1]
        BY <1>1, <2>4, <2>7
      <4> QED BY <2>3, <2>5, <4>1, <4>2
    <3>2. k - 1 \in T /\ ~(k <= k - 1)
      BY <2>4, <3>1
    <3> QED BY <2>2, <3>2
  <2> QED BY <2>6, <2>7
<1>4. ~(i < j) /\ ~(j < i)
  BY <1>3
<1> QED BY <1>4

-----------------------------------------------------------------------------
(* Reading blocks and the pool. *)

Entry(o, height, coinbase, pending) ==
  [out |-> o, height |-> height, coinbase |-> coinbase, pending |-> pending]

LEMMA ApplyTxIs ==
  ASSUME NEW us \in SUBSET UTXO, NEW o \in Output, NEW spends, NEW height \in Nat,
         NEW coinbase \in BOOLEAN, NEW pending \in BOOLEAN
  PROVE  LET e == Entry(o, height, coinbase, pending)
             after == ApplyTx(us, o, spends, height, coinbase, pending)
         IN /\ e \in UTXO /\ e.out = o /\ e.height = height
            /\ e.coinbase = coinbase /\ e.pending = pending
            /\ after = {u \in us : u.out \notin spends \cup ({o} \cap Mine)}
                        \cup (IF o \in Mine THEN {e} ELSE {})
            /\ after \in SUBSET UTXO
<1> DEFINE e == Entry(o, height, coinbase, pending)
           after == ApplyTx(us, o, spends, height, coinbase, pending)
<1>1. /\ e \in UTXO /\ e.out = o /\ e.height = height
      /\ e.coinbase = coinbase /\ e.pending = pending
  BY DEF Entry, UTXO
<1>2. after = {u \in us : u.out \notin spends \cup ({o} \cap Mine)} \cup {Entry(x, height, coinbase, pending) : x \in {o} \cap Mine}
  BY DEF ApplyTx, Entry
<1>3. {Entry(x, height, coinbase, pending) : x \in {o} \cap Mine} = IF o \in Mine THEN {e} ELSE {}
  OBVIOUS
<1> HIDE DEF e, after
<1>4. after \in SUBSET UTXO
  BY <1>1, <1>2, <1>3
<1> QED BY <1>1, <1>2, <1>3, <1>4 DEF e, after

\* Transactions applied to the wallet's map one after the other.
ApplyRounds(acc, n, us, ts, height, pending) ==
  /\ acc \in [0..n -> SUBSET UTXO] /\ acc[0] = us
  /\ \A k \in 1..n : acc[k] = ApplyTx(acc[k - 1], ts[k], Inputs[ts[k]], height, FALSE, pending)

LEMMA ApplyTxsIs ==
  ASSUME NEW n \in Nat, NEW us \in SUBSET UTXO, NEW ts \in Seq(Tx),
         Len(ts) = n, NEW height \in Nat, NEW pending \in BOOLEAN
  PROVE  \E acc : ApplyRounds(acc, n, us, ts, height, pending)
                   /\ acc[n] = ApplyTxs(us, ts, height, pending)
<1> DEFINE W == SUBSET UTXO
           next == [w \in W \X Tx |-> ApplyTx(w[1], w[2], Inputs[w[2]], height, FALSE, pending)]
           E(f) == f = [s \in SUBSET (1..n) |->
                          IF s = {} THEN us ELSE ApplyTx(f[s \ {Max(s)}], ts[Max(s)], Inputs[ts[Max(s)]], height, FALSE, pending)]
           iter == CHOOSE f : E(f)
<1>1. ts \in [1..n -> Tx] /\ DOMAIN ts = 1..n /\ us \in W
  OBVIOUS
<1>2. \A a \in W, t \in Tx : ApplyTx(a, t, Inputs[t], height, FALSE, pending) \in W
  <2> SUFFICES ASSUME NEW a \in W, NEW t \in Tx
               PROVE  ApplyTx(a, t, Inputs[t], height, FALSE, pending) \in W
    OBVIOUS
  <2>1. PICK no, sp : no = FALSE /\ sp = Inputs[t]
    OBVIOUS
  <2>no. no \in BOOLEAN
    BY <2>1
  <2>2. t \in Output /\ a \in SUBSET UTXO
    BY DEF Output
  <2>3. ApplyTx(a, t, sp, height, no, pending) \in SUBSET UTXO
    BY <2>2, <2>no, ApplyTxIs
  <2> QED BY <2>1, <2>3
<1>3. next \in [W \X Tx -> W] /\ \A a \in W, t \in Tx : next[<<a, t>>] = ApplyTx(a, t, Inputs[t], height, FALSE, pending)
  BY <1>2
<1>4. ApplyTxs(us, ts, height, pending) = iter[1..n]
  BY <1>1 DEF ApplyTxs, FoldLeft, MapThenFoldSet
<1> HIDE DEF W, next
<1>5. PICK g : FoldTo(g, n, W, us, next, ts)
  BY <1>1, <1>3, FoldExists
<1>6. ASSUME NEW s \in SUBSET (1..n), s # {}
      PROVE  s \ {Max(s)} \in SUBSET (1..n) /\ ts[Max(s)] \in Tx
  BY <1>1, <1>6, MaxIs
<1>7. E(g)
  <2>1. ASSUME NEW s \in SUBSET (1..n)
        PROVE  g[s] = IF s = {} THEN us ELSE ApplyTx(g[s \ {Max(s)}], ts[Max(s)], Inputs[ts[Max(s)]], height, FALSE, pending)
    BY <1>3, <1>5, <1>6 DEF FoldTo
  <2> QED BY <1>5, <2>1 DEF FoldTo
<1>8. E(iter)
  BY <1>7
<1> HIDE DEF iter
<1>9. /\ iter[{}] = us
      /\ \A s \in SUBSET (1..n) : s # {} =>
           iter[s] = ApplyTx(iter[s \ {Max(s)}], ts[Max(s)], Inputs[ts[Max(s)]], height, FALSE, pending)
  BY <1>8
<1> HIDE DEF E
<1>10. FoldLike(iter, n, W, us, next, ts)
  BY <1>3, <1>6, <1>9 DEF FoldLike
<1>11. PICK acc : Partial(acc, n, W, us, next, ts, iter[1..n])
  <2>1. us \in W /\ ts \in [1..n -> Tx] /\ next \in [W \X Tx -> W]
    BY <1>1, <1>3
  <2> QED BY <1>10, <2>1, FoldAcc
<1>12. ASSUME NEW k \in 1..n PROVE acc[k] = ApplyTx(acc[k - 1], ts[k], Inputs[ts[k]], height, FALSE, pending)
  <2>1. acc[k - 1] \in W /\ ts[k] \in Tx
    BY <1>1, <1>11 DEF Partial
  <2> QED BY <1>3, <1>11, <2>1 DEF Partial
<1> QED BY <1>4, <1>11, <1>12 DEF W, Partial, ApplyRounds

LEMMA ApplyTxsKinds ==
  ASSUME NEW us \in SUBSET UTXO, NEW ts \in Seq(Tx), NEW height \in Nat, NEW pending \in BOOLEAN
  PROVE  /\ ApplyTxs(us, ts, height, pending) \in SUBSET UTXO
         /\ \A u \in ApplyTxs(us, ts, height, pending) : u \in us \/ ~u.coinbase
<1>1. PICK n \in Nat : n = Len(ts)
  OBVIOUS
<1>2. PICK acc : ApplyRounds(acc, n, us, ts, height, pending)
                 /\ acc[n] = ApplyTxs(us, ts, height, pending)
  BY <1>1, ApplyTxsIs
<1>3. acc \in [0..n -> SUBSET UTXO] /\ acc[0] = us
  BY <1>2 DEF ApplyRounds
<1> DEFINE S == {k \in Nat : k <= n => \A u \in acc[k] : u \in us \/ ~u.coinbase}
<1>4. 0 \in S
  BY <1>3
<1>5. ASSUME NEW k \in Nat, k \in S PROVE k + 1 \in S
  <2> SUFFICES ASSUME k + 1 <= n, NEW u \in acc[k + 1] PROVE u \in us \/ ~u.coinbase
    OBVIOUS
  <2>1. k + 1 \in 1..n /\ (k + 1) - 1 = k /\ k \in 0..n /\ \A v \in acc[k] : v \in us \/ ~v.coinbase
    BY <1>5
  <2>2. PICK t : t = ts[k + 1]
    OBVIOUS
  <2>3. acc[k + 1] = ApplyTx(acc[k], t, Inputs[t], height, FALSE, pending)
    BY <1>2, <2>1, <2>2 DEF ApplyRounds
  <2>4. t \in Output /\ acc[k] \in SUBSET UTXO
    BY <1>1, <1>3, <2>1, <2>2 DEF Output
  <2>5. u \in acc[k] \/ u.coinbase = FALSE
    <3>1. PICK no \in BOOLEAN : no = FALSE
      OBVIOUS
    <3>2. PICK a, e, sp : a = acc[k] /\ e = Entry(t, height, no, pending) /\ sp = Inputs[t]
      OBVIOUS
    <3>3. e.coinbase = no /\ ApplyTx(a, t, sp, height, no, pending)
            = {v \in a : v.out \notin sp \cup ({t} \cap Mine)} \cup (IF t \in Mine THEN {e} ELSE {})
      BY <2>4, <3>2, ApplyTxIs
    <3>4. u \in {v \in a : v.out \notin sp \cup ({t} \cap Mine)} \cup (IF t \in Mine THEN {e} ELSE {})
      BY <2>3, <3>1, <3>2, <3>3
    <3> QED BY <3>1, <3>2, <3>3, <3>4
  <2> QED BY <2>1, <2>5
<1> HIDE DEF S
<1>6. n \in S
  BY <1>4, <1>5, SetInduction
<1>7. \A u \in acc[n] : u \in us \/ ~u.coinbase
  BY <1>6 DEF S
<1>8. acc[n] \in SUBSET UTXO
  BY <1>3
<1> QED BY <1>2, <1>7, <1>8

LEMMA ApplyBlockKinds ==
  ASSUME NEW us \in SUBSET UTXO, NEW h \in 1..Len(chain), chain \in Seq(Block)
  PROVE  /\ ApplyBlock(us, h) \in SUBSET UTXO
         /\ \A u \in ApplyBlock(us, h) : u \in us \/ ~u.coinbase \/ u.height = h
<1>1. PICK b \in Block : b = chain[h]
  OBVIOUS
<1>2. PICK cb : cb = ApplyTx(us, b, {}, h, TRUE, FALSE)
  OBVIOUS
<1>3. b \in Output /\ TxsOf[b] \in Seq(Tx) /\ TRUE \in BOOLEAN /\ FALSE \in BOOLEAN /\ h \in Nat
  BY MempoolAssumption DEF Output
<1>4. cb \in SUBSET UTXO /\ \A u \in cb : u \in us \/ u.height = h
  <2>1. PICK yes \in BOOLEAN, no \in BOOLEAN : yes = TRUE /\ no = FALSE
    OBVIOUS
  <2>2. PICK e, sp : e = Entry(b, h, yes, no) /\ sp = {}
    OBVIOUS
  <2>3. e.height = h /\ ApplyTx(us, b, sp, h, yes, no) \in SUBSET UTXO
        /\ ApplyTx(us, b, sp, h, yes, no) = {v \in us : v.out \notin sp \cup ({b} \cap Mine)} \cup (IF b \in Mine THEN {e} ELSE {})
    <3>1. e = Entry(b, h, yes, no) /\ b \in Output /\ h \in Nat
      BY <1>3, <2>2
    <3> QED BY <3>1, ApplyTxIs
  <2> QED BY <1>2, <2>1, <2>2, <2>3
<1>5. ApplyBlock(us, h) = ApplyTxs(cb, TxsOf[b], h, FALSE)
  BY <1>1, <1>2 DEF ApplyBlock
<1>6. PICK no \in BOOLEAN : no = FALSE
  OBVIOUS
<1>7. /\ ApplyTxs(cb, TxsOf[b], h, no) \in SUBSET UTXO
      /\ \A u \in ApplyTxs(cb, TxsOf[b], h, no) : u \in cb \/ ~u.coinbase
  BY <1>3, <1>4, ApplyTxsKinds
<1> QED BY <1>4, <1>5, <1>6, <1>7

-----------------------------------------------------------------------------
(* Maturity. *)

\* The wallet never knows a tip above the node's, and its coinbases have a height.
ScanBounds ==
  /\ WalletTypeOK /\ Valid(chain) /\ tip <= Len(chain)
  /\ step = "idle" => utxos = {}
  /\ step = "blocks" => at >= 1
  /\ \A u \in utxos : u.coinbase => u.height >= 1

LEMMA ResetBounds ==
  ASSUME WalletTypeOK, Reset, TypeOK', Valid(chain')
  PROVE  ScanBounds'
<1>1. step' = "idle" /\ tip' = 0 /\ at' = 0 /\ utxos' = {} /\ selected' = {} /\ moved' = FALSE
  BY DEF Reset
<1>2. WalletTypeOK'
  BY <1>1 DEF WalletTypeOK
<1>3. Len(chain') \in Nat
  BY DEF TypeOK
<1> QED BY <1>1, <1>2, <1>3 DEF ScanBounds

LEMMA ScanBoundsInit ==
  ASSUME WalletInit
  PROVE  ScanBounds
<1>1. TypeOK /\ chain = <<>>
  BY PoolInit DEF WalletInit, Init
<1>2. Valid(chain) /\ Len(chain) = 0
  BY <1>1 DEF Valid
<1>3. step = "idle" /\ tip = 0 /\ at = 0 /\ utxos = {} /\ selected = {} /\ moved = FALSE
  BY DEF WalletInit
<1>4. WalletTypeOK
  BY <1>1, <1>3 DEF WalletTypeOK
<1> QED BY <1>2, <1>3, <1>4 DEF ScanBounds

LEMMA ScanBoundsNext ==
  ASSUME ScanBounds, PoolMineable, [WalletNext]_allVars
  PROVE  ScanBounds'
<1>1. NodeNext /\ TypeOK /\ Valid(chain)
  BY WalletNode DEF ScanBounds, WalletTypeOK
<1>2. TypeOK' /\ Valid(chain') /\ Len(chain') >= Len(chain)
  BY <1>1, PoolNext, ChainNext
<1>3. tip <= Len(chain') /\ Len(chain) \in Nat /\ Len(chain') \in Nat /\ tip \in Nat
  BY <1>1, <1>2 DEF ScanBounds, WalletTypeOK, TypeOK
<1>4. CASE NodeStep \/ UNCHANGED allVars
  <2>1. UNCHANGED <<step, tip, at, utxos, selected>> /\ moved' \in BOOLEAN
    BY <1>4 DEF NodeStep, allVars, wallet, ScanBounds, WalletTypeOK
  <2> QED BY <1>2, <1>3, <2>1 DEF ScanBounds, WalletTypeOK
<1>5. CASE GetBestBlock
  <2>1. step = "idle" /\ step' = "blocks" /\ tip' = Len(chain) /\ at' = 1 /\ chain' = chain
        /\ UNCHANGED <<utxos, selected, moved>>
    BY <1>5 DEF GetBestBlock, vars
  <2> QED BY <1>2, <1>3, <2>1 DEF ScanBounds, WalletTypeOK
<1>6. CASE GetBlock
  <2>1. step = "blocks" /\ at <= tip /\ utxos' = ApplyBlock(utxos, at) /\ at' = at + 1
        /\ UNCHANGED <<chain, step, tip, selected, moved>>
    BY <1>6 DEF GetBlock, vars
  <2>2. at \in 1..Len(chain) /\ utxos \in SUBSET UTXO /\ chain \in Seq(Block)
    BY <1>3, <2>1 DEF ScanBounds, WalletTypeOK, TypeOK
  <2>3. utxos' \in SUBSET UTXO /\ \A u \in utxos' : u \in utxos \/ ~u.coinbase \/ u.height = at
    BY <2>1, <2>2, ApplyBlockKinds
  <2>4. \A u \in utxos' : u.coinbase => u.height >= 1
    BY <2>2, <2>3 DEF ScanBounds
  <2>5. at' \in Nat /\ at' >= 1
    BY <2>1, <2>2
  <2> QED BY <1>2, <1>3, <2>1, <2>3, <2>4, <2>5 DEF ScanBounds, WalletTypeOK
<1>7. CASE GetRawMempool
  <2>1. utxos' = ApplyTxs(utxos, mempool, 0, TRUE) /\ step' = "draft"
        /\ UNCHANGED <<chain, tip, at, selected, moved>>
    BY <1>7 DEF GetRawMempool, vars
  <2>2. mempool \in Seq(Tx) /\ utxos \in SUBSET UTXO /\ TRUE \in BOOLEAN /\ 0 \in Nat
    BY DEF ScanBounds, WalletTypeOK, TypeOK
  <2>3. utxos' \in SUBSET UTXO /\ \A u \in utxos' : u \in utxos \/ ~u.coinbase
    BY <2>1, <2>2, ApplyTxsKinds
  <2>4. \A u \in utxos' : u.coinbase => u.height >= 1
    BY <2>3 DEF ScanBounds
  <2> QED BY <1>2, <1>3, <2>1, <2>3, <2>4 DEF ScanBounds, WalletTypeOK
<1>8. CASE BuildDraftTx
  <2>1. PICK s \in SUBSET utxos : selected' = {u.out : u \in s}
    BY <1>8 DEF BuildDraftTx
  <2>2. step' = "submit" /\ UNCHANGED <<chain, tip, at, utxos, moved>>
    BY <1>8 DEF BuildDraftTx, vars
  <2>3. selected' \subseteq Output
    BY <2>1 DEF ScanBounds, WalletTypeOK, UTXO
  <2> QED BY <1>2, <1>3, <2>2, <2>3 DEF ScanBounds, WalletTypeOK
<1>9. CASE Balance \/ DraftTx \/ \E t \in Tx : Send(t)
  <2>1. Reset /\ WalletTypeOK
    BY <1>9 DEF Balance, DraftTx, Send, ScanBounds
  <2> QED BY <1>2, <2>1, ResetBounds
<1> QED BY <1>4, <1>5, <1>6, <1>7, <1>8, <1>9 DEF WalletNext, WalletStep

LEMMA BoundsMature ==
  ASSUME ScanBounds
  PROVE  MatureIsMature
<1> SUFFICES ASSUME NEW u \in utxos, u.coinbase, IsMature(u), u.height <= Len(chain),
                    chain[u.height] = u.out, NEW i \in DOMAIN chain, chain[i] = u.out
             PROVE  Len(chain) + 1 >= i + Maturity
  BY DEF MatureIsMature, Mature
<1>1. chain \in Seq(Block) /\ Len(chain) \in Nat /\ Valid(chain) /\ tip \in Nat /\ tip <= Len(chain)
      /\ Maturity \in Nat
  BY MempoolAssumption DEF ScanBounds, WalletTypeOK, TypeOK
<1>2. u.height \in Nat /\ u.height >= 1
  BY DEF ScanBounds, WalletTypeOK, UTXO
<1>3. u.height \in 1..Len(chain) /\ i \in 1..Len(chain)
  BY <1>1, <1>2
<1>4. i = u.height
  BY <1>1, <1>3, BlocksOnce
<1>5. tip + 1 >= u.height + Maturity
  BY DEF IsMature
<1> QED BY <1>1, <1>3, <1>4, <1>5

(***************************************************************************)
(* For every maturity and whatever the node does between two requests: a   *)
(* coinbase that the wallet calls mature by the tip it asked for first is  *)
(* mature for the node, if the chain still has it.                         *)
(***************************************************************************)
THEOREM StaleTipIsSafe == WalletSpec => []MatureIsMature
<1>1. WalletInit => ScanBounds /\ PoolMineable
  BY ScanBoundsInit, PoolInit
<1>2. (ScanBounds /\ PoolMineable) /\ [WalletNext]_allVars => (ScanBounds /\ PoolMineable)'
  <2> SUFFICES ASSUME ScanBounds, PoolMineable, [WalletNext]_allVars
               PROVE  ScanBounds' /\ PoolMineable'
    OBVIOUS
  <2>1. TypeOK /\ NodeNext
    BY WalletNode DEF ScanBounds, WalletTypeOK
  <2> QED BY <2>1, ScanBoundsNext, PoolNext
<1>3. ScanBounds => MatureIsMature
  BY BoundsMature
<1> QED BY <1>1, <1>2, <1>3, PTL DEF WalletSpec

-----------------------------------------------------------------------------
(* The ledger of a valid chain. *)

\* The chain c spends only what it created and what is worth something.
Closed(c) == Spent(TxsIn(c)) \subseteq Funded(Range(c) \cup TxsIn(c))

\* What it created and did not spend, worth nothing or not.
Created(c) == (Range(c) \cup TxsIn(c)) \ Spent(TxsIn(c))

LEMMA CreatedIs ==
  ASSUME NEW c, Closed(c)
  PROVE  Created(c) = Unspent(c) \cup Skipped(c) /\ Unspent(c) = Funded(Created(c))
<1>1. PICK A, B : A = Range(c) \cup TxsIn(c) /\ B = Spent(TxsIn(c))
  OBVIOUS
<1>2. Created(c) = A \ B /\ Unspent(c) = Funded(A) \ B /\ B \subseteq Funded(A)
  BY <1>1 DEF Created, Unspent, Closed
<1>3. Skipped(c) = {o \in A : Value[o] = 0}
  BY <1>1 DEF Skipped
<1> QED BY <1>2, <1>3 DEF Funded

LEMMA SpentUnion ==
  ASSUME NEW A, NEW B
  PROVE  Spent(A \cup B) = Spent(A) \cup Spent(B)
BY DEF Spent

LEMMA SpentBy ==
  ASSUME NEW A, NEW o
  PROVE  o \in Spent(A) <=> \E t \in A : o \in Inputs[t]
BY DEF Spent

\* Transactions that connect to c one after the other: none of them is in c, none comes
\* twice, none is spent before it comes, and they spend only what there is.
LEMMA Ledger ==
  ASSUME NEW c \in Seq(Block), Closed(c), NEW s \in Seq(Tx), Connects(c, s)
  PROVE  /\ Range(s) \cap TxsIn(c) = {}
         /\ Range(s) \cap Created(c) = {}
         /\ Range(s) \cap Spent(TxsIn(c)) = {}
         /\ \A i \in 1..Len(s) : s[i] \notin Spent(FirstOf(s, i)) \cup Inputs[s[i]]
         /\ Spent(Range(s)) \subseteq Unspent(c) \cup Funded(Range(s))
<1> DEFINE T == TxsIn(c)
           n == Len(s)
<1>1. \A i \in 1..n : Fits(c, FirstOf(s, i), s[i])
  BY ConnectsIs
<1>2. ASSUME NEW i \in 1..n
      PROVE  s[i] \in Tx /\ s[i] \notin Block /\ Inputs[s[i]] # {} /\ FirstOf(s, i) \subseteq Range(s)
             /\ FirstOf(s, i) \subseteq Tx
  <2>1. s[i] \in Tx /\ s[i] \notin Block /\ Inputs[s[i]] # {}
    BY MempoolAssumption
  <2>2. \A j \in 1..(i - 1) : j \in 1..n /\ s[j] \in Tx
    OBVIOUS
  <2> QED BY <2>1, <2>2 DEF FirstOf, Range
<1>3. Range(c) \subseteq Block /\ \A x \in Tx : x \notin Range(c)
  BY MempoolAssumption DEF Range
<1>4. /\ Created(c) = (Range(c) \cup T) \ Spent(T)
      /\ Unspent(c) \subseteq Created(c)
      /\ \A S : Funded(S) \subseteq S
  BY CreatedIs, FundedIs DEF Created
<1>5. \A x \in Range(s) : \E i \in 1..n : x = s[i]
  BY DEF Range
<1> HIDE DEF T
<1>6. Spent(T) \subseteq Range(c) \cup T
  BY FundedIs DEF Closed, T
<1> DEFINE A == {i \in 1..n : s[i] \in T}
<1>7. A = {}
  <2> SUFFICES ASSUME A # {} PROVE FALSE
    OBVIOUS
  <2>1. A \in SUBSET Nat
    OBVIOUS
  <2>2. PICK i \in A : \A j \in A : i <= j
    BY <2>1, LeastNat
  <2>3. i \in 1..n /\ s[i] \in T
    OBVIOUS
  <2>4. PICK o \in Inputs[s[i]] : TRUE
    BY <1>2, <2>3
  <2>5. o \in Spent(T)
    BY <2>3, <2>4, SpentBy
  <2>6. o \in FirstOf(s, i)
    BY <1>1, <1>4, <2>3, <2>5 DEF Fits
  <2>7. PICK j \in 1..(i - 1) : o = s[j]
    BY <2>6 DEF FirstOf
  <2>8. j \in 1..n /\ o \in Tx /\ ~(i <= j)
    BY <2>3, <2>7
  <2>9. s[j] \in T
    BY <1>3, <1>6, <2>5, <2>7, <2>8
  <2> QED BY <2>2, <2>8, <2>9
<1>8. Range(s) \cap T = {}
  BY <1>5, <1>7
<1>9. \A x \in Range(s) : x \notin Range(c) \cup T
  BY <1>2, <1>3, <1>5, <1>8
<1>10. Range(s) \cap Created(c) = {} /\ Range(s) \cap Unspent(c) = {} /\ Range(s) \cap Spent(T) = {}
  BY <1>4, <1>6, <1>9
<1>11. ASSUME NEW i \in 1..n, NEW j \in 1..(i - 1) PROVE s[j] # s[i]
  <2>1. PICK o \in Inputs[s[i]] : TRUE
    BY <1>2
  <2>2. o \notin Spent(FirstOf(s, i))
    BY <1>1 DEF Fits
  <2>3. s[j] \in FirstOf(s, i)
    BY DEF FirstOf
  <2> QED BY <2>1, <2>2, <2>3, SpentBy
<1>12. ASSUME NEW i \in 1..n PROVE s[i] \notin Inputs[s[i]]
  <2> SUFFICES ASSUME s[i] \in Inputs[s[i]] PROVE FALSE
    OBVIOUS
  <2>1. s[i] \in Unspent(c) \cup FirstOf(s, i) /\ s[i] \in Range(s)
    BY <1>1, <1>4 DEF Fits, Range
  <2>2. s[i] \in FirstOf(s, i)
    BY <1>10, <2>1
  <2> QED BY <1>11, <2>2 DEF FirstOf
<1>13. ASSUME NEW i \in 1..n PROVE s[i] \notin Spent(FirstOf(s, i))
  <2> SUFFICES ASSUME s[i] \in Spent(FirstOf(s, i)) PROVE FALSE
    OBVIOUS
  <2>1. PICK t \in FirstOf(s, i) : s[i] \in Inputs[t]
    BY SpentBy
  <2>2. PICK j \in 1..(i - 1) : t = s[j]
    BY DEF FirstOf
  <2>3. j \in 1..n
    OBVIOUS
  <2>4. s[i] \in Unspent(c) \cup FirstOf(s, j) /\ s[i] \in Range(s)
    BY <1>1, <1>4, <2>1, <2>2, <2>3 DEF Fits, Range
  <2>5. PICK k \in 1..(j - 1) : s[i] = s[k]
    BY <1>10, <2>4 DEF FirstOf
  <2>6. k \in 1..(i - 1)
    BY <2>3
  <2> QED BY <1>11, <2>5, <2>6
<1>14. Spent(Range(s)) \subseteq Unspent(c) \cup Funded(Range(s))
  <2> SUFFICES ASSUME NEW o \in Spent(Range(s)) PROVE o \in Unspent(c) \cup Funded(Range(s))
    OBVIOUS
  <2>1. PICK t \in Range(s) : o \in Inputs[t]
    BY SpentBy
  <2>2. PICK i \in 1..n : t = s[i]
    BY <1>5
  <2>3. o \in Unspent(c) \cup Funded(FirstOf(s, i))
    BY <1>1, <2>1, <2>2 DEF Fits
  <2> QED BY <1>2, <2>3, FundedIs
<1> QED BY <1>8, <1>10, <1>12, <1>13, <1>14 DEF T

LEMMA PrefixStep ==
  ASSUME NEW c \in Seq(Block), NEW k \in 1..Len(c), NEW p, NEW q,
         p = SubSeq(c, 1, k - 1), q = SubSeq(c, 1, k)
  PROVE  /\ p \in Seq(Block) /\ q \in Seq(Block)
         /\ Range(q) = Range(p) \cup {c[k]}
         /\ TxsIn(q) = TxsIn(p) \cup Range(TxsOf[c[k]])
<1>1. p \in Seq(Block) /\ q \in Seq(Block) /\ Len(p) = k - 1 /\ Len(q) = k
      /\ (\A i \in 1..(k - 1) : p[i] = c[i]) /\ \A i \in 1..k : q[i] = c[i]
  <2>1. k - 1 \in 0..Len(c) /\ k \in 0..Len(c)
    OBVIOUS
  <2>2. p \in Seq(Block) /\ Len(p) = k - 1 /\ \A i \in 1..(k - 1) : p[i] = c[i]
    BY <2>1
  <2>3. q \in Seq(Block) /\ Len(q) = k /\ \A i \in 1..k : q[i] = c[i]
    BY <2>1
  <2> QED BY <2>2, <2>3
<1>2. DOMAIN p = 1..(k - 1) /\ DOMAIN q = 1..k
  BY <1>1
<1>3. \A i : i \in 1..k <=> i \in 1..(k - 1) \/ i = k
  OBVIOUS
<1>4. Range(q) = Range(p) \cup {c[k]}
  <2>1. Range(q) = {c[i] : i \in 1..k} /\ Range(p) = {c[i] : i \in 1..(k - 1)}
    BY <1>1, <1>2 DEF Range
  <2> QED BY <1>3, <2>1
<1>5. TxsIn(q) = TxsIn(p) \cup Range(TxsOf[c[k]])
  <2>1. TxsIn(q) = UNION {Range(TxsOf[c[i]]) : i \in 1..k}
    BY <1>1, <1>2 DEF TxsIn
  <2>2. TxsIn(p) = UNION {Range(TxsOf[c[i]]) : i \in 1..(k - 1)}
    BY <1>1, <1>2 DEF TxsIn
  <2> QED BY <1>3, <2>1, <2>2
<1> QED BY <1>1, <1>4, <1>5

\* The block at height k connects to the chain below it.
LEMMA BlockConnects ==
  ASSUME NEW c \in Seq(Block), Valid(c), NEW k \in 1..Len(c)
  PROVE  Connects(SubSeq(c, 1, k - 1), TxsOf[c[k]]) /\ TxsOf[c[k]] \in Seq(Tx) /\ c[k] \in Block
BY MempoolAssumption DEF Valid, Extends

LEMMA EmptyChain ==
  ASSUME NEW c, c = <<>>
  PROVE  Range(c) = {} /\ TxsIn(c) = {} /\ Created(c) = {} /\ Closed(c)
<1>1. DOMAIN c = {}
  OBVIOUS
<1>2. Range(c) = {} /\ TxsIn(c) = {}
  BY <1>1 DEF Range, TxsIn
<1>3. Spent({}) = {}
  BY DEF Spent
<1> QED BY <1>2, <1>3 DEF Created, Closed

LEMMA PrefixClosed ==
  ASSUME NEW c \in Seq(Block), Valid(c), NEW k \in 0..Len(c)
  PROVE  Closed(SubSeq(c, 1, k))
<1> DEFINE S == {i \in Nat : i <= Len(c) => Closed(SubSeq(c, 1, i))}
<1>1. 0 \in S
  <2>1. SubSeq(c, 1, 0) = <<>>
    OBVIOUS
  <2> QED BY <2>1, EmptyChain
<1>2. ASSUME NEW i \in Nat, i \in S PROVE i + 1 \in S
  <2> SUFFICES ASSUME i + 1 <= Len(c) PROVE Closed(SubSeq(c, 1, i + 1))
    OBVIOUS
  <2>1. i + 1 \in 1..Len(c) /\ (i + 1) - 1 = i /\ Closed(SubSeq(c, 1, i))
    BY <1>2
  <2>2. PICK j, p, q, ts : j = i + 1 /\ p = SubSeq(c, 1, i) /\ q = SubSeq(c, 1, j) /\ ts = TxsOf[c[j]]
    OBVIOUS
  <2>3. j \in 1..Len(c) /\ p = SubSeq(c, 1, j - 1)
    BY <2>1, <2>2
  <2>4. Closed(p) /\ Connects(p, ts) /\ ts \in Seq(Tx)
    BY <2>1, <2>2, <2>3, BlockConnects
  <2>5. p \in Seq(Block) /\ Range(q) = Range(p) \cup {c[j]} /\ TxsIn(q) = TxsIn(p) \cup Range(ts)
    BY <2>2, <2>3, PrefixStep
  <2>6. Spent(Range(ts)) \subseteq Unspent(p) \cup Funded(Range(ts))
    BY <2>4, <2>5, Ledger
  <2>7. Unspent(p) \subseteq Funded(Range(p) \cup TxsIn(p))
    BY DEF Unspent
  <2>8. Spent(TxsIn(q)) \subseteq Funded(Range(p) \cup TxsIn(p)) \cup Funded(Range(ts))
    <3>1. Spent(TxsIn(q)) = Spent(TxsIn(p)) \cup Spent(Range(ts))
      BY <2>5, SpentUnion
    <3>2. Spent(TxsIn(p)) \subseteq Funded(Range(p) \cup TxsIn(p))
      BY <2>4 DEF Closed
    <3> QED BY <2>6, <2>7, <3>1, <3>2, Zenon
  <2>9. Closed(q)
    <3>1. PICK A, B, D : A = Range(p) \cup TxsIn(p) /\ B = Range(ts) /\ D = Range(q) \cup TxsIn(q)
      OBVIOUS
    <3>2. A \subseteq D /\ B \subseteq D
      BY <2>5, <3>1
    <3>3. Funded(A) \subseteq Funded(D) /\ Funded(B) \subseteq Funded(D)
      BY <3>2 DEF Funded
    <3>4. Spent(TxsIn(q)) \subseteq Funded(D)
      BY <2>8, <3>1, <3>3
    <3> QED BY <3>1, <3>4 DEF Closed
  <2> QED BY <2>2, <2>9
<1> HIDE DEF S
<1>3. k \in S
  BY <1>1, <1>2, SetInduction
<1> QED BY <1>3 DEF S

\* What the coinbase b and the transactions ts on top of the chain p leave unspent in q.
Settles(p, q, b, ts) ==
  /\ Created(q) = (Created(p) \cup {b} \cup Range(ts)) \ Spent(Range(ts))
  /\ \A i \in 1..Len(ts) : ts[i] \notin Spent(FirstOf(ts, i)) \cup Inputs[ts[i]]

LEMMA UnspentStep ==
  ASSUME NEW c \in Seq(Block), Valid(c), NEW k \in 1..Len(c), NEW p, NEW q, NEW ts,
         p = SubSeq(c, 1, k - 1), q = SubSeq(c, 1, k), ts = TxsOf[c[k]]
  PROVE  Settles(p, q, c[k], ts)
<1>1. p \in Seq(Block) /\ Range(q) = Range(p) \cup {c[k]} /\ TxsIn(q) = TxsIn(p) \cup Range(ts)
  BY PrefixStep
<1>2. Closed(p) /\ Connects(p, ts) /\ ts \in Seq(Tx) /\ c[k] \in Block
  <2>1. k - 1 \in 0..Len(c)
    OBVIOUS
  <2> QED BY <2>1, PrefixClosed, BlockConnects
<1>3. Range(ts) \cap Spent(TxsIn(p)) = {}
      /\ \A i \in 1..Len(ts) : ts[i] \notin Spent(FirstOf(ts, i)) \cup Inputs[ts[i]]
  BY <1>1, <1>2, Ledger
<1>4. c[k] \notin Range(p)
  <2>1. Len(p) = k - 1 /\ \A i \in 1..(k - 1) : p[i] = c[i]
    OBVIOUS
  <2>2. DOMAIN p = 1..(k - 1)
    BY <1>1, <2>1
  <2>3. \A i \in 1..(k - 1) : i \in 1..Len(c) /\ i # k
    OBVIOUS
  <2>4. \A i \in 1..(k - 1) : c[i] # c[k]
    BY <2>3, BlocksOnce
  <2>5. ASSUME c[k] \in Range(p)
        PROVE  FALSE
    <3>1. PICK i \in DOMAIN p : p[i] = c[k]
      BY <2>5 DEF Range
    <3> QED BY <3>1, <2>1, <2>2, <2>4
  <2> QED BY <2>5
<1>5. TxsIn(p) \subseteq Tx
  <2>1. \A i \in DOMAIN p : p[i] \in Block
    BY <1>1
  <2>2. \A b \in Block : Range(TxsOf[b]) \subseteq Tx
    BY MempoolAssumption DEF Range
  <2> QED BY <2>1, <2>2 DEF TxsIn
<1>6. c[k] \notin Spent(TxsIn(p))
  BY <1>2, <1>4, <1>5, MempoolAssumption, FundedIs DEF Closed
<1>7. Created(q) = ((Range(p) \cup {c[k]}) \cup (TxsIn(p) \cup Range(ts)))
                     \ (Spent(TxsIn(p)) \cup Spent(Range(ts)))
  BY <1>1, SpentUnion DEF Created
<1>8. Created(p) = (Range(p) \cup TxsIn(p)) \ Spent(TxsIn(p))
  BY DEF Created
<1>9. Created(q) = (Created(p) \cup {c[k]} \cup Range(ts)) \ Spent(Range(ts))
  BY <1>3, <1>6, <1>7, <1>8
<1> QED BY <1>3, <1>9 DEF Settles

-----------------------------------------------------------------------------
(* What the wallet's map says of the outputs X. *)

\* The map has the wallet's outputs of X and no others.  A coinbase is at its height in c;
\* what is pending is in P, the rest in N.
Reflects(us, X, c, N, P) ==
  /\ us \in SUBSET UTXO
  /\ \A u \in us : /\ u.out \in Mine /\ u.out \in X
                   /\ u.coinbase => u.height \in 1..Len(c) /\ c[u.height] = u.out
                   /\ ~u.coinbase => u.out \in Tx
                   /\ u.pending => u.out \in P
                   /\ ~u.pending => u.out \in N
  /\ \A o \in Mine : o \in X => \E u \in us : u.out = o

LEMMA ReflectsTx ==
  ASSUME NEW us, NEW X, NEW c, NEW N, NEW P, Reflects(us, X, c, N, P),
         NEW o \in Output, NEW sp, NEW h \in Nat, NEW coinbase \in BOOLEAN, NEW pending \in BOOLEAN,
         coinbase => h \in 1..Len(c) /\ c[h] = o, ~coinbase => o \in Tx,
         pending => o \in P, ~pending => o \in N
  PROVE  Reflects(ApplyTx(us, o, sp, h, coinbase, pending), (X \ sp) \cup {o}, c, N, P)
<1>1. PICK e, after : e = Entry(o, h, coinbase, pending) /\ after = ApplyTx(us, o, sp, h, coinbase, pending)
  OBVIOUS
<1>2. us \in SUBSET UTXO
  BY DEF Reflects
<1>3. /\ e \in UTXO /\ e.out = o /\ e.height = h /\ e.coinbase = coinbase /\ e.pending = pending
      /\ after = {u \in us : u.out \notin sp \cup ({o} \cap Mine)} \cup (IF o \in Mine THEN {e} ELSE {})
      /\ after \in SUBSET UTXO
  BY <1>1, <1>2, ApplyTxIs
<1>4. ASSUME NEW u \in after
      PROVE  /\ u.out \in Mine /\ u.out \in (X \ sp) \cup {o}
             /\ u.coinbase => u.height \in 1..Len(c) /\ c[u.height] = u.out
             /\ ~u.coinbase => u.out \in Tx
             /\ u.pending => u.out \in P
             /\ ~u.pending => u.out \in N
  <2>1. CASE u \in us /\ u.out \notin sp
    BY <2>1 DEF Reflects
  <2>2. CASE u = e /\ o \in Mine
    BY <1>3, <2>2
  <2> QED BY <1>3, <2>1, <2>2
<1>5. ASSUME NEW x \in Mine, x \in (X \ sp) \cup {o} PROVE \E u \in after : u.out = x
  <2>1. CASE x = o
    BY <1>3, <2>1
  <2>2. CASE x # o
    <3>1. PICK u \in us : u.out = x
      BY <1>5, <2>2 DEF Reflects
    <3> QED BY <1>3, <1>5, <2>2, <3>1
  <2> QED BY <2>1, <2>2
<1>6. Reflects(after, (X \ sp) \cup {o}, c, N, P)
  BY <1>3, <1>4, <1>5 DEF Reflects
<1> QED BY <1>1, <1>6

LEMMA ReflectsTxs ==
  ASSUME NEW us, NEW U, NEW c, NEW N, NEW P, Reflects(us, U, c, N, P),
         NEW s \in Seq(Tx), NEW h \in Nat, NEW pending \in BOOLEAN,
         \A i \in 1..Len(s) : s[i] \notin Spent(FirstOf(s, i)) \cup Inputs[s[i]],
         pending => Range(s) \subseteq P, ~pending => Range(s) \subseteq N
  PROVE  Reflects(ApplyTxs(us, s, h, pending), (U \cup Range(s)) \ Spent(Range(s)), c, N, P)
<1>1. PICK n \in Nat : n = Len(s)
  OBVIOUS
<1>2. us \in SUBSET UTXO
  BY DEF Reflects
<1>3. PICK acc : ApplyRounds(acc, n, us, s, h, pending) /\ acc[n] = ApplyTxs(us, s, h, pending)
  BY <1>1, <1>2, ApplyTxsIs
<1>4. acc[0] = us
  BY <1>3 DEF ApplyRounds
<1> DEFINE F(k) == {s[j] : j \in 1..k}
           S == {k \in Nat : k <= n => Reflects(acc[k], (U \cup F(k)) \ Spent(F(k)), c, N, P)}
<1>5. 0 \in S
  <2>1. F(0) = {} /\ Spent({}) = {}
    BY DEF Spent
  <2> HIDE DEF F
  <2>2. (U \cup F(0)) \ Spent(F(0)) = U
    BY <2>1
  <2> QED BY <1>4, <2>2
<1>6. ASSUME NEW k \in Nat, k \in S PROVE k + 1 \in S
  <2> SUFFICES ASSUME k + 1 <= n
               PROVE  Reflects(acc[k + 1], (U \cup F(k + 1)) \ Spent(F(k + 1)), c, N, P)
    OBVIOUS
  <2>1. k + 1 \in 1..n /\ (k + 1) - 1 = k
    BY <1>6
  <2>2. PICK t : t = s[k + 1]
    OBVIOUS
  <2>3. t \in Tx /\ t \in Output /\ t \in Range(s)
    BY <1>1, <2>1, <2>2 DEF Output, Range
  <2>4. FirstOf(s, k + 1) = F(k)
    BY <2>1 DEF FirstOf
  <2>5. t \notin Spent(F(k)) /\ t \notin Inputs[t]
    BY <1>1, <2>1, <2>2, <2>4
  <2>6. F(k + 1) = F(k) \cup {t}
    <3>1. \A i : i \in 1..(k + 1) <=> i \in 1..k \/ i = k + 1
      OBVIOUS
    <3> QED BY <2>2, <3>1
  <2>7. acc[k + 1] = ApplyTx(acc[k], t, Inputs[t], h, FALSE, pending)
    BY <1>3, <2>1, <2>2 DEF ApplyRounds
  <2>8. PICK A, G : A = F(k) /\ G = F(k + 1)
    OBVIOUS
  <2>9. Reflects(acc[k], (U \cup A) \ Spent(A), c, N, P)
    BY <1>6, <2>1, <2>8
  <2> HIDE DEF F, S
  <2>no. PICK no \in BOOLEAN : no = FALSE
    OBVIOUS
  <2>10. PICK X, sp, a : no = FALSE /\ X = (U \cup A) \ Spent(A) /\ sp = Inputs[t] /\ a = acc[k]
    BY <2>no
  <2>11. Reflects(ApplyTx(a, t, sp, h, no, pending), (X \ sp) \cup {t}, c, N, P)
    <3>1. Reflects(a, X, c, N, P)
      BY <2>9, <2>10
    <3>2. (no => h \in 1..Len(c) /\ c[h] = t) /\ (~no => t \in Tx)
      BY <2>3, <2>10
    <3>3. (pending => t \in P) /\ (~pending => t \in N)
      BY <2>3
    <3> QED BY <2>3, <3>1, <3>2, <3>3, ReflectsTx
  <2>12. (X \ sp) \cup {t} = (U \cup G) \ Spent(G)
    <3>1. G = A \cup {t} /\ t \notin Spent(A) /\ t \notin sp
      BY <2>5, <2>6, <2>8, <2>10
    <3>2. Spent(G) = Spent(A) \cup sp
      BY <2>10, <3>1 DEF Spent
    <3> QED BY <2>10, <3>1, <3>2
  <2>13. Reflects(acc[k + 1], (U \cup G) \ Spent(G), c, N, P)
    BY <2>7, <2>10, <2>11, <2>12
  <2> QED BY <2>8, <2>13
<1> HIDE DEF S
<1>7. n \in S
  BY <1>5, <1>6, SetInduction
<1>8. Reflects(acc[n], (U \cup F(n)) \ Spent(F(n)), c, N, P)
  BY <1>7 DEF S
<1>9. F(n) = Range(s)
  BY <1>1 DEF Range
<1> QED BY <1>3, <1>8, <1>9
LEMMA ReflectsBlock ==
  ASSUME chain \in Seq(Block), Valid(chain), NEW h \in 1..Len(chain), NEW us, NEW p, NEW q,
         p = SubSeq(chain, 1, h - 1), q = SubSeq(chain, 1, h),
         NEW none, Reflects(us, Created(p), chain, Output, none)
  PROVE  Reflects(ApplyBlock(us, h), Created(q), chain, Output, none)
<1>1. PICK c, b, ts : c = chain /\ b = chain[h] /\ ts = TxsOf[b]
  OBVIOUS
<1>2. /\ Created(q) = (Created(p) \cup {b} \cup Range(ts)) \ Spent(Range(ts))
      /\ \A i \in 1..Len(ts) : ts[i] \notin Spent(FirstOf(ts, i)) \cup Inputs[ts[i]]
  <2>1. c \in Seq(Block) /\ Valid(c) /\ h \in 1..Len(c) /\ p = SubSeq(c, 1, h - 1)
        /\ q = SubSeq(c, 1, h) /\ ts = TxsOf[c[h]]
    BY <1>1
  <2>2. Settles(p, q, c[h], ts)
    BY <2>1, UnspentStep
  <2> QED BY <1>1, <2>2 DEF Settles
<1>3. b \in Block /\ b \in Output /\ ts \in Seq(Tx) /\ h \in Nat /\ Range(ts) \subseteq Output
  <2>1. b \in Block /\ ts \in Seq(Tx)
    BY <1>1, MempoolAssumption
  <2> QED BY <2>1 DEF Output, Range
<1>yes. PICK yes \in BOOLEAN, no \in BOOLEAN : yes = TRUE /\ no = FALSE
  OBVIOUS
<1>4. PICK sp, X : yes = TRUE /\ no = FALSE /\ sp = {} /\ X = Created(p)
  BY <1>yes
<1>5. PICK cb : cb = ApplyTx(us, b, sp, h, yes, no)
  OBVIOUS
<1>6. Reflects(cb, X \cup {b}, c, Output, none)
  <2>1. Reflects(us, X, c, Output, none)
    BY <1>1, <1>4
  <2>2. (yes => h \in 1..Len(c) /\ c[h] = b) /\ (~yes => b \in Tx) /\ (no => b \in none) /\ (~no => b \in Output)
    BY <1>1, <1>3, <1>4
  <2>3. Reflects(ApplyTx(us, b, sp, h, yes, no), (X \ sp) \cup {b}, c, Output, none)
    BY <1>3, <2>1, <2>2, ReflectsTx
  <2> QED BY <1>4, <1>5, <2>3
<1>7. Reflects(ApplyTxs(cb, ts, h, no), ((X \cup {b}) \cup Range(ts)) \ Spent(Range(ts)), c, Output, none)
  <2>1. (no => Range(ts) \subseteq none) /\ (~no => Range(ts) \subseteq Output)
    BY <1>3, <1>4
  <2>2. PICK U : U = X \cup {b}
    OBVIOUS
  <2>3. Reflects(cb, U, c, Output, none)
    BY <1>6, <2>2
  <2>4. Reflects(ApplyTxs(cb, ts, h, no), (U \cup Range(ts)) \ Spent(Range(ts)), c, Output, none)
    BY <1>2, <1>3, <2>1, <2>3, ReflectsTxs
  <2> QED BY <2>2, <2>4
<1>8. ApplyBlock(us, h) = ApplyTxs(cb, ts, h, no)
  BY <1>1, <1>4, <1>5 DEF ApplyBlock
<1> QED BY <1>1, <1>2, <1>4, <1>7, <1>8

LEMMA ReflectsPool ==
  ASSUME NEW c \in Seq(Block), Valid(c), NEW s \in Seq(Tx), Connects(c, s), NEW us,
         Reflects(us, Created(c), c, Output, {})
  PROVE  Reflects(ApplyTxs(us, s, 0, TRUE), (Created(c) \cup Range(s)) \ Spent(Range(s)),
                  c, Created(c), Range(s))
<1>1. Closed(c)
  <2>1. Len(c) \in 0..Len(c) /\ SubSeq(c, 1, Len(c)) = c
    OBVIOUS
  <2> QED BY <2>1, PrefixClosed
<1>2. \A i \in 1..Len(s) : s[i] \notin Spent(FirstOf(s, i)) \cup Inputs[s[i]]
  BY <1>1, Ledger
<1>yes. PICK yes \in BOOLEAN, z \in Nat : yes = TRUE /\ z = 0
  OBVIOUS
<1>3. PICK U, R : yes = TRUE /\ z = 0 /\ U = Created(c) /\ R = Range(s)
  BY <1>yes
<1>4. Reflects(us, U, c, U, R)
  BY <1>3 DEF Reflects
<1>5. (yes => Range(s) \subseteq R) /\ (~yes => Range(s) \subseteq U)
  BY <1>3
<1>6. Reflects(ApplyTxs(us, s, z, yes), (U \cup Range(s)) \ Spent(Range(s)), c, U, R)
  BY <1>2, <1>4, <1>5, ReflectsTxs
<1> QED BY <1>3, <1>6

\* What the wallet knows of a node that has kept still.
ScanView ==
  /\ step = "blocks" /\ ~moved =>
       /\ tip = Len(chain) /\ at \in 1..(tip + 1)
       /\ Reflects(utxos, Created(SubSeq(chain, 1, at - 1)), chain, Output, {})
  /\ step \in {"draft", "submit"} /\ ~moved =>
       /\ tip = Len(chain)
       /\ Connects(chain, mempool) =>
            Reflects(utxos, (Created(chain) \cup Range(mempool)) \ Spent(Range(mempool)),
                     chain, Created(chain), Range(mempool))
  /\ step = "submit" => selected \subseteq {u.out : u \in {v \in utxos : IsSpendableUTXO(v)}}

LEMMA ScanViewNext ==
  ASSUME ScanBounds, ScanView, [WalletNext]_allVars
  PROVE  ScanView'
<1>0. chain \in Seq(Block) /\ mempool \in Seq(Tx) /\ Valid(chain) /\ tip \in Nat /\ at \in Nat
      /\ Len(chain) \in Nat /\ step \in {"idle", "blocks", "draft", "submit"}
  BY DEF ScanBounds, WalletTypeOK, TypeOK
<1>1. CASE UNCHANGED allVars
  BY <1>1 DEF allVars, vars, wallet, ScanView, IsSpendableUTXO, IsMature
<1>2. CASE NodeStep
  <2>1. UNCHANGED <<step, tip, at, utxos, selected>> /\ moved' = (moved \/ step # "idle")
    BY <1>2 DEF NodeStep
  <2> QED BY <2>1 DEF ScanView, IsSpendableUTXO, IsMature
<1>3. CASE GetBestBlock
  <2>1. step = "idle" /\ step' = "blocks" /\ tip' = Len(chain) /\ at' = 1 /\ chain' = chain /\ utxos' = utxos
    BY <1>3 DEF GetBestBlock, vars
  <2>2. utxos = {} /\ at' \in 1..(tip' + 1) /\ at' - 1 = 0
    BY <1>0, <2>1 DEF ScanBounds
  <2>3. PICK c, e : c = chain /\ e = SubSeq(c, 1, 0)
    OBVIOUS
  <2>4. Created(e) = {}
    <3>1. e = <<>>
      BY <1>0, <2>3
    <3> QED BY <3>1, EmptyChain
  <2>5. Reflects(utxos', Created(e), c, Output, {})
    BY <2>1, <2>2, <2>4 DEF Reflects
  <2> QED BY <2>1, <2>2, <2>3, <2>5 DEF ScanView
<1>4. CASE GetBlock
  <2>1. step = "blocks" /\ at <= tip /\ utxos' = ApplyBlock(utxos, at) /\ at' = at + 1
        /\ UNCHANGED <<chain, step, tip, moved>>
    BY <1>4 DEF GetBlock, vars
  <2> SUFFICES ASSUME ~moved
               PROVE  tip = Len(chain) /\ at' \in 1..(tip + 1)
                      /\ Reflects(utxos', Created(SubSeq(chain, 1, at' - 1)), chain, Output, {})
    BY <2>1 DEF ScanView
  <2>2. tip = Len(chain) /\ at \in 1..Len(chain) /\ at' \in 1..(tip + 1) /\ at' - 1 = at
    BY <1>0, <2>1 DEF ScanView
  <2>3. PICK us, p, q, none, h : us = utxos /\ p = SubSeq(chain, 1, at - 1) /\ q = SubSeq(chain, 1, at)
                                 /\ none = {} /\ h = at
    OBVIOUS
  <2>4. Reflects(us, Created(p), chain, Output, none)
    BY <2>1, <2>3 DEF ScanView
  <2>5. h \in 1..Len(chain) /\ p = SubSeq(chain, 1, h - 1) /\ q = SubSeq(chain, 1, h)
    BY <2>2, <2>3
  <2>6. Reflects(ApplyBlock(us, h), Created(q), chain, Output, none)
    BY <1>0, <2>4, <2>5, ReflectsBlock
  <2> QED BY <2>1, <2>2, <2>3, <2>6
<1>5. CASE GetRawMempool
  <2>1. step = "blocks" /\ at > tip /\ step' = "draft" /\ utxos' = ApplyTxs(utxos, mempool, 0, TRUE)
        /\ UNCHANGED <<chain, mempool, tip, moved>>
    BY <1>5 DEF GetRawMempool, vars
  <2> SUFFICES ASSUME ~moved
               PROVE  /\ tip = Len(chain)
                      /\ Connects(chain, mempool) =>
                           Reflects(utxos', (Created(chain) \cup Range(mempool)) \ Spent(Range(mempool)),
                                    chain, Created(chain), Range(mempool))
    BY <2>1 DEF ScanView
  <2>2. tip = Len(chain) /\ at - 1 = Len(chain)
        /\ Reflects(utxos, Created(SubSeq(chain, 1, at - 1)), chain, Output, {})
    BY <1>0, <2>1 DEF ScanView
  <2>3. PICK c, s, us : c = chain /\ s = mempool /\ us = utxos
    OBVIOUS
  <2>4. SubSeq(c, 1, Len(c)) = c
    BY <1>0, <2>3
  <2>5. Reflects(us, Created(c), c, Output, {})
    BY <2>2, <2>3, <2>4
  <2>6. Connects(c, s) => Reflects(ApplyTxs(us, s, 0, TRUE), (Created(c) \cup Range(s)) \ Spent(Range(s)),
                                   c, Created(c), Range(s))
    BY <1>0, <2>3, <2>5, ReflectsPool
  <2> QED BY <2>1, <2>2, <2>3, <2>6
<1>6. CASE BuildDraftTx
  <2>1. PICK need \in Needs, s \in SUBSET utxos : Selects(s, need) /\ selected' = {u.out : u \in s}
    BY <1>6 DEF BuildDraftTx
  <2>2. step = "draft" /\ step' = "submit" /\ UNCHANGED <<chain, mempool, tip, utxos, moved>>
    BY <1>6 DEF BuildDraftTx, vars
  <2>3. s \subseteq {u \in utxos : IsSpendableUTXO(u)}
    BY <2>1 DEF Selects
  <2>4. selected' \subseteq {u.out : u \in {v \in utxos' : IsSpendableUTXO(v)'}}
    BY <2>1, <2>2, <2>3 DEF IsSpendableUTXO, IsMature
  <2> QED BY <2>2, <2>4 DEF ScanView
<1>7. CASE Balance \/ DraftTx \/ \E t \in Tx : Send(t)
  <2>1. step' = "idle"
    BY <1>7 DEF Balance, DraftTx, Send, Reset
  <2> QED BY <2>1 DEF ScanView
<1> QED BY <1>1, <1>2, <1>3, <1>4, <1>5, <1>6, <1>7 DEF WalletNext, WalletStep
\* An entry of the map that reflects c and the pool s has the height the node gives it.
LEMMA EntryHeight ==
  ASSUME NEW c \in Seq(Block), Valid(c), NEW u, u.coinbase \in BOOLEAN, u.out \in Output,
         u.coinbase => u.height \in 1..Len(c) /\ c[u.height] = u.out,
         ~u.coinbase => u.out \in Tx
  PROVE  Mature(c, u.out) <=> (u.coinbase => Len(c) + 1 >= u.height + Maturity)
<1>1. DOMAIN c = 1..Len(c) /\ \A i \in 1..Len(c) : c[i] \in Block
  OBVIOUS
<1>2. CASE u.coinbase
  <2>1. u.height \in 1..Len(c) /\ c[u.height] = u.out
    BY <1>2
  <2>2. \A i \in 1..Len(c) : c[i] = u.out <=> i = u.height
    BY <2>1, BlocksOnce
  <2> QED BY <1>1, <1>2, <2>1, <2>2 DEF Mature
<1>3. CASE ~u.coinbase
  <2>1. \A i \in 1..Len(c) : c[i] # u.out
    BY <1>1, <1>3, MempoolAssumption
  <2> QED BY <1>1, <1>3, <2>1 DEF Mature
<1> QED BY <1>2, <1>3

LEMMA ViewMatches ==
  ASSUME ScanBounds, ScanView, step \in {"draft", "submit"}, ~moved, Connects(chain, mempool)
  PROVE  LET pool == Range(mempool) IN
         /\ {u.out : u \in {v \in utxos : IsSpendableUTXO(v)}} =
              {o \in Mine \cap (Unspent(chain) \cup Skipped(chain)) : Mature(chain, o)} \ Spent(pool)
         /\ {u.out : u \in {v \in utxos : v.pending}} = (Mine \cap pool) \ Spent(pool)
<1>1. PICK c, s, R, U, us : c = chain /\ s = mempool /\ R = Range(s) /\ U = Created(c) /\ us = utxos
  OBVIOUS
<1>2. c \in Seq(Block) /\ s \in Seq(Tx) /\ Valid(c) /\ Connects(c, s) /\ tip = Len(c)
  BY <1>1 DEF ScanBounds, ScanView, WalletTypeOK, TypeOK
<1>3. Reflects(us, (U \cup R) \ Spent(R), c, U, R)
  BY <1>1 DEF ScanView
<1>4. R \cap U = {} /\ U = Unspent(c) \cup Skipped(c)
  <2>1. Len(c) \in 0..Len(c) /\ SubSeq(c, 1, Len(c)) = c
    BY <1>2
  <2>2. Closed(c)
    BY <1>2, <2>1, PrefixClosed
  <2> QED BY <1>1, <1>2, <2>2, Ledger, CreatedIs
<1>5. ASSUME NEW u \in us
      PROVE  /\ u.out \in Mine /\ u.out \in (U \cup R) /\ u.out \notin Spent(R)
             /\ (u.pending => u.out \in R) /\ (~u.pending => u.out \in U)
             /\ u.pending \in BOOLEAN
             /\ Mature(c, u.out) <=> IsMature(u)
  <2>1. u \in UTXO
    BY <1>3 DEF Reflects
  <2>2. u.coinbase \in BOOLEAN /\ u.out \in Output /\ u.pending \in BOOLEAN
    BY <2>1 DEF UTXO
  <2>3. /\ u.out \in Mine /\ u.out \in (U \cup R) \ Spent(R)
        /\ u.coinbase => u.height \in 1..Len(c) /\ c[u.height] = u.out
        /\ ~u.coinbase => u.out \in Tx
        /\ u.pending => u.out \in R
        /\ ~u.pending => u.out \in U
    BY <1>3 DEF Reflects
  <2>4. Mature(c, u.out) <=> (u.coinbase => Len(c) + 1 >= u.height + Maturity)
    BY <1>2, <2>2, <2>3, EntryHeight
  <2>5. Mature(c, u.out) <=> IsMature(u)
    BY <1>2, <2>4 DEF IsMature
  <2> QED BY <2>2, <2>3, <2>5
<1>6. \A o \in Mine : o \in U \cup R /\ o \notin Spent(R) => \E u \in us : u.out = o
  BY <1>3 DEF Reflects
<1>7. {u.out : u \in {v \in us : IsSpendableUTXO(v)}} = {o \in Mine \cap U : Mature(c, o)} \ Spent(R)
  <2>1. ASSUME NEW u \in us, IsSpendableUTXO(u)
        PROVE  u.out \in {o \in Mine \cap U : Mature(c, o)} \ Spent(R)
    BY <1>5, <2>1 DEF IsSpendableUTXO
  <2>2. ASSUME NEW o \in Mine, o \in U, Mature(c, o), o \notin Spent(R)
        PROVE  \E u \in us : IsSpendableUTXO(u) /\ u.out = o
    <3>1. PICK u \in us : u.out = o
      BY <1>6, <2>2
    <3> QED BY <1>4, <1>5, <2>2, <3>1 DEF IsSpendableUTXO
  <2> QED BY <2>1, <2>2
<1>8. {u.out : u \in {v \in us : v.pending}} = (Mine \cap R) \ Spent(R)
  <2>1. ASSUME NEW u \in us, u.pending PROVE u.out \in (Mine \cap R) \ Spent(R)
    BY <1>5, <2>1
  <2>2. ASSUME NEW o \in Mine, o \in R, o \notin Spent(R) PROVE \E u \in us : u.pending /\ u.out = o
    <3>1. PICK u \in us : u.out = o
      BY <1>6, <2>2
    <3> QED BY <1>4, <1>5, <2>2, <3>1
  <2> QED BY <2>1, <2>2
<1> QED BY <1>1, <1>4, <1>7, <1>8

\* The wallet's invariant: bounds, the node's own, and the view of a node that kept still.
ScanInv == ScanBounds /\ PoolMineable /\ ScanView

LEMMA ScanInvariant == WalletSpec => []ScanInv
<1>1. WalletInit => ScanInv
  <2> SUFFICES ASSUME WalletInit PROVE ScanInv
    OBVIOUS
  <2>1. ScanView
    BY DEF WalletInit, ScanView
  <2> QED BY <2>1, ScanBoundsInit, PoolInit DEF ScanInv
<1>2. ScanInv /\ [WalletNext]_allVars => ScanInv'
  <2> SUFFICES ASSUME ScanInv, [WalletNext]_allVars PROVE ScanInv'
    OBVIOUS
  <2>1. ScanBounds /\ PoolMineable /\ ScanView
    BY DEF ScanInv
  <2>2. TypeOK /\ NodeNext
    BY <2>1, WalletNode DEF ScanBounds, WalletTypeOK
  <2>3. ScanBounds' /\ PoolMineable' /\ ScanView'
    BY <2>1, <2>2, ScanBoundsNext, PoolNext, ScanViewNext
  <2> QED BY <2>3 DEF ScanInv
<1> QED BY <1>1, <1>2, PTL DEF WalletSpec

(***************************************************************************)
(* For every block tree, set of keys, amounts and maturity: if the node    *)
(* kept still and its pool connects, the map that ScanWallet built request *)
(* by request is the node's view and the outputs worth nothing: spendable  *)
(* is what the chain has unspent, or left out as worth nothing, and mature *)
(* and the pool does not spend, pending what the pool creates.             *)
(***************************************************************************)
THEOREM ScanIsTheNodesView == WalletSpec => []ScanMatchesNode
<1>1. ScanInv => ScanMatchesNode
  <2> SUFFICES ASSUME ScanInv, step = "draft", ~moved, Connects(chain, mempool)
               PROVE  LET pool == Range(mempool) IN
                      /\ {u.out : u \in {v \in utxos : IsSpendableUTXO(v)}} =
                           {o \in Mine \cap (Unspent(chain) \cup Skipped(chain)) : Mature(chain, o)} \ Spent(pool)
                      /\ {u.out : u \in {v \in utxos : v.pending}} = (Mine \cap pool) \ Spent(pool)
    BY DEF ScanMatchesNode
  <2>1. ScanBounds /\ ScanView /\ step \in {"draft", "submit"}
    BY DEF ScanInv
  <2> QED BY <2>1, ViewMatches
<1> QED BY <1>1, ScanInvariant, PTL

(***************************************************************************)
(* For every selection buildDraftTx may make: a payment from a scan during *)
(* which the node kept still is accepted by acceptTransactionLocked if and *)
(* only if none of its inputs is worth nothing.                            *)
(***************************************************************************)
THEOREM StillNodeAccepts == WalletSpec => DraftIsAccepted
<1>1. ScanInv /\ [WalletNext]_allVars
        => [\A t \in Tx : Send(t) /\ ~moved /\ Connects(chain, mempool)
              => (t \in Range(mempool') <=> selected = Funded(selected))]_allVars
  <2> SUFFICES ASSUME ScanInv, NEW t \in Tx, Send(t), ~moved, Connects(chain, mempool)
               PROVE  t \in Range(mempool') <=> selected = Funded(selected)
    OBVIOUS
  <2>1. step = "submit" /\ Inputs[t] = selected /\ mempool' = Accepted(chain, mempool, t)
    BY DEF Send, SubmitRawTransaction
  <2>2. ScanBounds /\ ScanView /\ step \in {"draft", "submit"} /\ mempool \in Seq(Tx)
    BY <2>1 DEF ScanInv, ScanBounds, WalletTypeOK, TypeOK
  <2>3. Inputs[t] \subseteq {u.out : u \in {v \in utxos : IsSpendableUTXO(v)}}
    BY <2>1, <2>2 DEF ScanView
  <2>4. {u.out : u \in {v \in utxos : IsSpendableUTXO(v)}} =
          {o \in Mine \cap (Unspent(chain) \cup Skipped(chain)) : Mature(chain, o)} \ Spent(Range(mempool))
    BY <2>2, ViewMatches
  <2>5. selected = Funded(selected) <=> \A o \in Inputs[t] : Value[o] # 0
    BY <2>1, FundedIs
  <2>6. PICK c, s : c = chain /\ s = mempool
    OBVIOUS
  <2>7. s \in Seq(Tx) /\ Connects(c, s)
    BY <2>2, <2>6
  <2>8. ASSUME \A o \in Inputs[t] : Value[o] # 0 PROVE t \in Range(Accepted(c, s, t))
    <3>1. \A o \in Skipped(c) : Value[o] = 0
      BY DEF Skipped
    <3>2. Fits(c, Range(s), t)
      BY <2>3, <2>4, <2>6, <2>8, <3>1 DEF Fits
    <3>3. Connects(c, Append(s, t)) /\ Range(Append(s, t)) = Range(s) \cup {t}
      BY <2>7, <3>2, ConnectsAppend
    <3> QED BY <3>3 DEF Accepted
  <2>9. ASSUME NEW o \in Inputs[t], Value[o] = 0 PROVE t \notin Range(Accepted(c, s, t))
    <3>1. \A S : ~Fits(c, S, t)
      BY <2>9, FundedIs DEF Fits, Unspent
    <3>2. ~Connects(c, Append(s, t))
      BY <2>7, <3>1, ConnectsAppend
    <3>3. t \notin Range(s)
      <4>1. \A i \in 1..Len(s) : Fits(c, FirstOf(s, i), s[i])
        BY <2>7, ConnectsIs
      <4> QED BY <2>7, <3>1, <4>1 DEF Range
    <3> QED BY <3>2, <3>3 DEF Accepted
  <2> QED BY <2>1, <2>5, <2>6, <2>8, <2>9
<1> QED BY <1>1, ScanInvariant, PTL DEF WalletSpec, DraftIsAccepted

-----------------------------------------------------------------------------
(* The callback of a reorganisation. *)

LEMMA RangeConcat ==
  ASSUME NEW a \in Seq(Tx), NEW b \in Seq(Tx)
  PROVE  a \o b \in Seq(Tx) /\ Range(a \o b) = Range(a) \cup Range(b)
<1> DEFINE d == a \o b
           m == Len(a)
           n == Len(b)
<1>1. d \in Seq(Tx) /\ Len(d) = m + n /\ m \in Nat /\ n \in Nat
  OBVIOUS
<1>2. (\A i \in 1..m : d[i] = a[i]) /\ \A i \in 1..n : d[m + i] = b[i]
  OBVIOUS
<1>3. DOMAIN a = 1..m /\ DOMAIN b = 1..n /\ DOMAIN d = 1..(m + n)
  BY <1>1
<1> HIDE DEF d, m, n
<1>4. ASSUME NEW i \in 1..(m + n) PROVE d[i] \in Range(a) \cup Range(b)
  <2>1. CASE i \in 1..m
    BY <1>2, <1>3, <2>1 DEF Range
  <2>2. CASE i > m
    <3>1. i - m \in 1..n /\ m + (i - m) = i
      BY <1>1, <2>2
    <3> QED BY <1>2, <1>3, <3>1 DEF Range
  <2> QED BY <1>1, <2>1, <2>2
<1>5. ASSUME NEW i \in 1..m PROVE a[i] \in Range(d)
  <2>1. i \in 1..(m + n)
    BY <1>1
  <2> QED BY <1>2, <1>3, <2>1 DEF Range
<1>6. ASSUME NEW i \in 1..n PROVE b[i] \in Range(d)
  <2>1. m + i \in 1..(m + n)
    BY <1>1
  <2> QED BY <1>2, <1>3, <2>1 DEF Range
<1>7. Range(d) = Range(a) \cup Range(b)
  BY <1>3, <1>4, <1>5, <1>6 DEF Range
<1> QED BY <1>1, <1>7 DEF d

\* Every transaction of a disconnected block is offered.
LEMMA AllReturned ==
  ASSUME NEW note \in Note
  PROVE  Returned(note) \in Seq(Tx) /\ TxsIn(note.disconnected) \subseteq Range(Returned(note))
<1>1. PICK d \in Seq(Block), m \in Nat : d = note.disconnected /\ m = Len(d)
  BY DEF Note
<1>2. PICK acc : ConcatRounds(acc, m, d) /\ acc[m] = Returned(note)
  BY <1>1, ReturnedIs
<1> DEFINE S == {k \in Nat : k <= m => \A i \in 1..k : Range(TxsOf[d[i]]) \subseteq Range(acc[k])}
<1>3. 0 \in S
  OBVIOUS
<1>4. ASSUME NEW k \in Nat, k \in S PROVE k + 1 \in S
  <2> SUFFICES ASSUME k + 1 <= m
               PROVE  \A i \in 1..(k + 1) : Range(TxsOf[d[i]]) \subseteq Range(acc[k + 1])
    OBVIOUS
  <2>1. k + 1 \in 1..m /\ (k + 1) - 1 = k /\ k \in 0..m /\ k <= m
    BY <1>4
  <2>2. PICK a, b : a = TxsOf[d[k + 1]] /\ b = acc[k]
    OBVIOUS
  <2>3. acc[k + 1] = a \o b
    BY <1>2, <2>1, <2>2 DEF ConcatRounds
  <2>4. a \in Seq(Tx)
    BY <1>1, <2>1, <2>2, MempoolAssumption
  <2>5. b \in Seq(Tx)
    BY <1>2, <2>1, <2>2 DEF ConcatRounds
  <2>6. Range(acc[k + 1]) = Range(a) \cup Range(b)
    BY <2>3, <2>4, <2>5, RangeConcat
  <2>7. \A i \in 1..k : Range(TxsOf[d[i]]) \subseteq Range(b)
    BY <1>4, <2>1, <2>2
  <2>8. \A i : i \in 1..(k + 1) <=> i \in 1..k \/ i = k + 1
    OBVIOUS
  <2> QED BY <2>2, <2>6, <2>7, <2>8
<1> HIDE DEF S
<1>5. m \in S
  BY <1>3, <1>4, SetInduction
<1>6. \A i \in 1..m : Range(TxsOf[d[i]]) \subseteq Range(acc[m])
  BY <1>5 DEF S
<1>7. DOMAIN d = 1..m
  BY <1>1
<1>8. acc[m] \in Seq(Tx)
  BY <1>2 DEF ConcatRounds
<1> QED BY <1>1, <1>2, <1>6, <1>7, <1>8 DEF TxsIn

\* What is offered to a pool that connects leaves it one that connects, and takes nothing out.
LEMMA OfferedConnects ==
  ASSUME NEW c, NEW included, NEW pool \in Seq(Tx), NEW n \in Nat, NEW offered \in Seq(Tx),
         Len(offered) = n, NEW acc, OfferRounds(acc, n, c, included, pool, offered),
         Connects(c, pool)
  PROVE  \A k \in 0..n : /\ acc[k] \in Seq(Tx) /\ Connects(c, acc[k])
                         /\ Range(acc[k]) \subseteq Range(acc[n])
<1>1. \A k \in 0..n : acc[k] \in Seq(Tx)
  BY DEF OfferRounds
<1>2. ASSUME NEW k \in Nat, k + 1 <= n
      PROVE  /\ Connects(c, acc[k]) => Connects(c, acc[k + 1])
             /\ Range(acc[k]) \subseteq Range(acc[k + 1])
  <2>1. k + 1 \in 1..n /\ (k + 1) - 1 = k /\ k \in 0..n
    BY <1>2
  <2>2. PICK a, t, b : a = acc[k] /\ t = offered[k + 1] /\ b = acc[k + 1]
    OBVIOUS
  <2>3. b = Offer(c, included, a, t) /\ t \in Tx /\ a \in Seq(Tx)
    BY <1>1, <2>1, <2>2 DEF OfferRounds
  <2>4. b = a \/ (b = Append(a, t) /\ Connects(c, b))
    BY <2>3 DEF Offer, Accepted
  <2>5. Range(Append(a, t)) = Range(a) \cup {t}
    BY <2>3, ConnectsAppend
  <2> QED BY <2>2, <2>4, <2>5
<1> DEFINE S == {k \in Nat : k <= n => Connects(c, acc[k])}
<1>3. 0 \in S
  BY DEF OfferRounds
<1>4. ASSUME NEW k \in Nat, k \in S PROVE k + 1 \in S
  BY <1>2, <1>4
<1>5. ASSUME NEW k \in 0..n PROVE Connects(c, acc[k])
  <2>1. k \in Nat
    OBVIOUS
  <2> HIDE DEF S
  <2>2. k \in S
    BY <1>3, <1>4, <2>1, SetInduction
  <2> QED BY <2>2 DEF S
<1>6. ASSUME NEW k \in 0..n PROVE Range(acc[k]) \subseteq Range(acc[n])
  <2> DEFINE D == {j \in Nat : k + j <= n => Range(acc[k]) \subseteq Range(acc[k + j])}
  <2>1. 0 \in D
    OBVIOUS
  <2>2. ASSUME NEW j \in Nat, j \in D PROVE j + 1 \in D
    <3> SUFFICES ASSUME k + (j + 1) <= n PROVE Range(acc[k]) \subseteq Range(acc[k + (j + 1)])
      OBVIOUS
    <3>1. PICK i \in Nat : i = k + j
      OBVIOUS
    <3>2. i + 1 <= n /\ k + (j + 1) = i + 1 /\ Range(acc[k]) \subseteq Range(acc[i])
      BY <2>2, <3>1
    <3> QED BY <1>2, <3>2
  <2> HIDE DEF D
  <2>3. n - k \in Nat /\ k + (n - k) = n /\ n <= n
    OBVIOUS
  <2>4. n - k \in D
    BY <2>1, <2>2, <2>3, SetInduction
  <2> QED BY <2>3, <2>4 DEF D
<1> QED BY <1>1, <1>5, <1>6

\* A pool that connects and has nothing of the new blocks comes through unchanged.
LEMMA RevalidatedSame ==
  ASSUME NEW c, NEW pool \in Seq(Tx), NEW included, Connects(c, pool), Range(pool) \cap included = {}
  PROVE  Revalidated(c, pool, included) = pool
<1>1. PICK n \in Nat : n = Len(pool)
  OBVIOUS
<1>2. PICK acc : KeepRounds(acc, n, c, included, pool) /\ acc[n] = Revalidated(c, pool, included)
  BY <1>1, RevalidatedIs
<1>3. acc[0] = <<>> /\ \A k \in 0..n : acc[k] \in Seq(Tx)
  BY <1>2 DEF KeepRounds
<1>4. \A i \in 1..n : Fits(c, FirstOf(pool, i), pool[i]) /\ pool[i] \in Tx /\ pool[i] \notin included
  <2>1. DOMAIN pool = 1..n
    BY <1>1
  <2> QED BY <1>1, <2>1, ConnectsIs DEF Range
<1> DEFINE S == {k \in Nat : k <= n => Connects(c, acc[k]) /\ Len(acc[k]) = k
                                       /\ \A i \in 1..k : acc[k][i] = pool[i]}
<1>5. 0 \in S
  BY <1>3, ConnectsNone
<1>6. ASSUME NEW k \in Nat, k \in S PROVE k + 1 \in S
  <2> SUFFICES ASSUME k + 1 <= n
               PROVE  Connects(c, acc[k + 1]) /\ Len(acc[k + 1]) = k + 1
                      /\ \A i \in 1..(k + 1) : acc[k + 1][i] = pool[i]
    OBVIOUS
  <2>1. k + 1 \in 1..n /\ (k + 1) - 1 = k /\ k \in 0..n /\ k <= n
    BY <1>6
  <2>2. PICK a, t : a = acc[k] /\ t = pool[k + 1]
    OBVIOUS
  <2>3. a \in Seq(Tx) /\ Connects(c, a) /\ Len(a) = k /\ \A i \in 1..k : a[i] = pool[i]
    BY <1>3, <1>6, <2>1, <2>2
  <2>4. t \in Tx /\ t \notin included
    BY <1>4, <2>1, <2>2
  <2>5. Range(a) = FirstOf(pool, k + 1)
    <3>1. DOMAIN a = 1..k
      BY <2>3
    <3> QED BY <2>1, <2>3, <3>1 DEF Range, FirstOf
  <2>6. Fits(c, Range(a), t)
    BY <1>4, <2>1, <2>2, <2>5
  <2>7. Connects(c, Append(a, t))
    BY <2>3, <2>4, <2>6, ConnectsAppend
  <2>8. acc[k + 1] = Append(a, t)
    <3>1. acc[k + 1] = Keep(c, included, a, t)
      BY <1>2, <2>1, <2>2 DEF KeepRounds
    <3> QED BY <2>4, <2>7, <3>1 DEF Keep
  <2>9. Len(Append(a, t)) = k + 1 /\ \A i \in 1..(k + 1) : Append(a, t)[i] = pool[i]
    BY <2>2, <2>3, <2>4
  <2> QED BY <2>7, <2>8, <2>9
<1> HIDE DEF S
<1>7. n \in S
  BY <1>5, <1>6, SetInduction
<1>8. PICK r : r = acc[n]
  OBVIOUS
<1>9. r \in Seq(Tx) /\ Len(r) = n /\ \A i \in 1..n : r[i] = pool[i]
  BY <1>3, <1>7, <1>8 DEF S
<1>10. r = pool
  BY <1>1, <1>9
<1> QED BY <1>2, <1>8, <1>10

LEMMA CallbackReturns ==
  ASSUME NEW c \in Seq(Block), Valid(c), NEW pool \in Seq(Tx), Connects(c, pool), NEW note \in Note,
         Range(note.connected) \subseteq Range(c),
         NEW t \in TxsIn(note.disconnected), t \notin TxsIn(note.connected), Connects(c, <<t>>)
  PROVE  LET after == AfterNote(c, pool, note)
         IN t \in Range(after) \/ \E u \in Range(after) : Inputs[u] \cap Inputs[t] # {}
<1>1. PICK included : included = TxsIn(note.connected)
  OBVIOUS
<1>2. PICK offered \in Seq(Tx) : offered = Returned(note)
  BY AllReturned
<1>3. PICK n \in Nat : n = Len(offered)
  OBVIOUS
<1>4. PICK acc : OfferRounds(acc, n, c, included, pool, offered)
                 /\ acc[n] = OfferAll(c, included, pool, offered)
  BY <1>3, OfferedIs
<1>5. \A k \in 0..n : acc[k] \in Seq(Tx) /\ Connects(c, acc[k]) /\ Range(acc[k]) \subseteq Range(acc[n])
  BY <1>3, <1>4, OfferedConnects
<1>6. PICK p : p = acc[n]
  OBVIOUS
<1>7. p \in Seq(Tx) /\ Connects(c, p)
  BY <1>5, <1>6
<1>8. Closed(c)
  <2>1. Len(c) \in 0..Len(c) /\ SubSeq(c, 1, Len(c)) = c
    OBVIOUS
  <2> QED BY <2>1, PrefixClosed
<1>9. included \subseteq TxsIn(c)
  <2> SUFFICES ASSUME NEW x \in included PROVE x \in TxsIn(c)
    OBVIOUS
  <2>1. PICK d : d = note.connected
    OBVIOUS
  <2>2. PICK i \in DOMAIN d : x \in Range(TxsOf[d[i]])
    BY <1>1, <2>1 DEF TxsIn
  <2>3. d[i] \in Range(c)
    BY <2>1 DEF Range
  <2>4. PICK j \in DOMAIN c : c[j] = d[i]
    BY <2>3 DEF Range
  <2> QED BY <2>2, <2>4 DEF TxsIn
<1>10. Range(p) \cap included = {}
  <2>1. Range(p) \cap TxsIn(c) = {}
    BY <1>7, <1>8, Ledger
  <2> QED BY <1>9, <2>1
<1>11. AfterNote(c, pool, note) = p
  <2>1. AfterNote(c, pool, note) = Revalidated(c, p, included)
    BY <1>1, <1>2, <1>4, <1>6 DEF AfterNote
  <2>2. Revalidated(c, p, included) = p
    BY <1>7, <1>10, RevalidatedSame
  <2> QED BY <2>1, <2>2
<1>12. PICK k \in 1..n : offered[k] = t
  <2>1. t \in Range(offered) /\ DOMAIN offered = 1..n
    BY <1>2, <1>3, AllReturned
  <2> QED BY <2>1 DEF Range
<1>13. t \in Tx /\ k - 1 \in 0..n /\ k \in 0..n
  BY <1>3, <1>12
<1>14. PICK a : a = acc[k - 1]
  OBVIOUS
<1>15. a \in Seq(Tx) /\ Connects(c, a) /\ Range(a) \subseteq Range(p) /\ Range(acc[k]) \subseteq Range(p)
  BY <1>5, <1>6, <1>13, <1>14
<1>16. acc[k] = Accepted(c, a, t)
  <2>1. acc[k] = Offer(c, included, a, t)
    BY <1>4, <1>12, <1>14 DEF OfferRounds
  <2> QED BY <1>1, <2>1 DEF Offer
<1>17. CASE t \in Range(a)
  BY <1>11, <1>15, <1>17
<1>18. CASE t \notin Range(a) /\ Connects(c, Append(a, t))
  <2>1. acc[k] = Append(a, t)
    BY <1>16, <1>18 DEF Accepted
  <2>2. Range(Append(a, t)) = Range(a) \cup {t}
    BY <1>13, <1>15, ConnectsAppend
  <2> QED BY <1>11, <1>15, <2>1, <2>2
<1>19. CASE ~Connects(c, Append(a, t))
  <2>1. ~Fits(c, Range(a), t)
    BY <1>13, <1>15, <1>19, ConnectsAppend
  <2>2. PICK one : one = <<t>>
    OBVIOUS
  <2>3. one \in Seq(Tx) /\ Len(one) = 1 /\ one[1] = t /\ 1 \in 1..Len(one) /\ Connects(c, one)
    BY <1>13, <2>2
  <2>4. Fits(c, FirstOf(one, 1), one[1])
    BY <2>3, ConnectsIs
  <2>5. FirstOf(one, 1) = {} /\ Spent({}) = {} /\ Funded({}) = {}
    BY DEF FirstOf, Spent, Funded
  <2>6. \A o \in Inputs[t] : o \in Unspent(c) /\ Mature(c, o)
    BY <2>3, <2>4, <2>5 DEF Fits
  <2>7. PICK o \in Inputs[t] : o \in Spent(Range(a))
    BY <2>1, <2>6 DEF Fits
  <2>8. PICK u \in Range(a) : o \in Inputs[u]
    BY <2>7, SpentBy
  <2> QED BY <1>11, <1>15, <2>7, <2>8
<1> QED BY <1>17, <1>18, <1>19

(***************************************************************************)
(* For every block tree and any number of goroutines: the callback of a    *)
(* reorganisation, NotifyChainReorganized, puts back each disconnected     *)
(* transaction that is valid on the chain and in conflict with nothing the *)
(* pool keeps, if the pool connected before it and the blocks it reports   *)
(* are still on the chain.                                                 *)
(***************************************************************************)
THEOREM CallbackReturnsValid == WalletSpec => ReturnsValid
<1> DEFINE Returns == \A h \in Handler :
                        LET note == Head(notes[h]) IN
                        Deliver(h) /\ Connects(chain, mempool) /\ Range(note.connected) \subseteq Range(chain) =>
                          \A t \in TxsIn(note.disconnected) \ TxsIn(note.connected) :
                             Connects(chain, <<t>>) =>
                                \/ t \in Range(mempool')
                                \/ \E u \in Range(mempool') : Inputs[u] \cap Inputs[t] # {}
<1>1. ScanInv /\ [WalletNext]_allVars => [Returns]_vars
  <2> SUFFICES ASSUME ScanInv, NEW h \in Handler, NEW note, note = Head(notes[h]), Deliver(h),
                      Connects(chain, mempool), Range(note.connected) \subseteq Range(chain),
                      NEW t \in TxsIn(note.disconnected) \ TxsIn(note.connected), Connects(chain, <<t>>)
               PROVE  \/ t \in Range(mempool')
                      \/ \E u \in Range(mempool') : Inputs[u] \cap Inputs[t] # {}
    OBVIOUS
  <2>1. chain \in Seq(Block) /\ mempool \in Seq(Tx) /\ Valid(chain) /\ notes[h] \in Seq(Note)
    BY DEF ScanInv, ScanBounds, WalletTypeOK, TypeOK
  <2>2. notes[h] # <<>> /\ mempool' = AfterNote(chain, mempool, note)
    BY DEF Deliver, TakesNote
  <2>3. note \in Note
    BY <2>1, <2>2
  <2>4. PICK after : after = AfterNote(chain, mempool, note)
    OBVIOUS
  <2>5. t \in Range(after) \/ \E u \in Range(after) : Inputs[u] \cap Inputs[t] # {}
    BY <2>1, <2>3, <2>4, CallbackReturns
  <2> QED BY <2>2, <2>4, <2>5
<1>2. ReturnsValid <=> [][Returns]_vars
  BY DEF ReturnsValid
<1> HIDE DEF Returns
<1> QED BY <1>1, <1>2, ScanInvariant, PTL DEF WalletSpec

-----------------------------------------------------------------------------
(***************************************************************************)
(* The wallet file, for any number of processes, keys and passphrases.     *)
(*                                                                         *)
(* A command writes the copy it holds, so what is true of the file must be *)
(* true of every copy; the copies of idle processes are empty wallets.     *)
(***************************************************************************)

OneSealIn(w) == \A r \in w.keys : r.salt = w.salt

OnePassIn(w) == \E pass \in Passphrase \cup {NoPass} : \A r \in w.keys : Opens(w, r, pass)

\* What the file and all copies have in common.
Around == {mem[p] : p \in Proc} \cup ({file} \ {Absent, Torn})

\* The inductive invariant.
WInv == KeysTypeOK /\ \A w \in Around : OneSealIn(w) /\ (~mistyped => OnePassIn(w))

-----------------------------------------------------------------------------
(* The operations on a wallet. *)

\* A wallet that took a key has its old keys and one more, sealed like them.
LEMMA AddPrivateKeyFacts ==
    ASSUME NEW w \in WalletRec, NEW k \in Key, NEW pass \in Passphrase \cup {NoPass},
           NEW v \in AddPrivateKey(w, k, pass)
    PROVE  /\ v \in WalletRec
           /\ v.salt = w.salt
           /\ OneSealIn(w) => OneSealIn(v)
           /\ v.keys = w.keys \cup {SealedRec(w, k, pass)}
<1> DEFINE r == SealedRec(w, k, pass)
<1>1. v = WithKey(w, r) /\ Derives(w, pass)
  BY DEF AddPrivateKey
<1>2. r \in KeyRec /\ r.salt = w.salt
  <2>1. CASE IsEncrypted(w)
    BY <1>1, <2>1 DEF SealedRec, Derives, IsEncrypted, KeyRec, WalletRec
  <2>2. CASE ~IsEncrypted(w)
    BY <2>2 DEF SealedRec, IsEncrypted, KeyRec, WalletRec
  <2> QED BY <2>1, <2>2
<1>3. v.salt = w.salt /\ v.keys = w.keys \cup {r} /\ v \in WalletRec
  BY <1>1, <1>2 DEF WithKey, WalletRec
<1> QED
  BY <1>2, <1>3 DEF OneSealIn

\* A wallet that was sealed again has one salt and one passphrase.
LEMMA ResealFacts ==
    ASSUME NEW w \in WalletRec, NEW s \in Salt, NEW pass \in Passphrase
    PROVE  /\ Reseal(w, s, pass) \in WalletRec
           /\ OneSealIn(Reseal(w, s, pass))
           /\ OnePassIn(Reseal(w, s, pass))
<1> DEFINE v == Reseal(w, s, pass)
<1>1. Keys(w) \subseteq Key
  BY DEF Keys, WalletRec, KeyRec
<1>2. v.salt = s /\ v.keys = {[key |-> k, salt |-> s, pass |-> pass] : k \in Keys(w)}
  BY DEF Reseal
<1>3. \A r \in v.keys : r \in KeyRec /\ r.salt = s /\ r.pass = pass
  BY <1>1, <1>2 DEF KeyRec
<1>4. v \in WalletRec
  BY <1>2, <1>3 DEF WalletRec, Reseal
<1>5. OneSealIn(v)
  BY <1>2, <1>3 DEF OneSealIn
<1>6. OnePassIn(v)
  BY <1>2, <1>3 DEF OnePassIn, Opens
<1> QED BY <1>4, <1>5, <1>6

\* ImportPrivateKey refuses more, and adds no other way.
LEMMA ImportAdds ==
    ASSUME NEW w, NEW k, NEW pass
    PROVE  ImportPrivateKey(w, k, pass) \subseteq AddPrivateKey(w, k, pass)
BY DEF ImportPrivateKey

\* A new wallet has no keys.
LEMMA NewWalletFacts ==
    ASSUME NEW s \in Salt, NEW pass \in Passphrase \cup {NoPass}
    PROVE  NewWallet(pass, s) \in WalletRec /\ NewWallet(pass, s).keys = {}
BY DEF NewWallet, WalletRec

\* Nor has the copy of an idle process.
LEMMA EmptyFacts == Empty \in WalletRec /\ Empty.keys = {} /\ OneSealIn(Empty) /\ OnePassIn(Empty)
BY DEF Empty, WalletRec, OneSealIn, OnePassIn

-----------------------------------------------------------------------------
(* The steps. *)

\* What a command tells is a key and a passphrase each.
LEMMA ToldTyped ==
    ASSUME NEW w \in WalletRec, NEW ks
    PROVE  {[key |-> r.key, pass |-> r.pass] : r \in w.keys \ ks} \in SUBSET Told
<1>1. \A r \in w.keys : r.key \in Key /\ r.pass \in Passphrase \cup {NoPass}
  BY DEF WalletRec, KeyRec
<1> QED BY <1>1 DEF Told

\* A command that has a wallet to save.
LEMMA SavesStep ==
    ASSUME KeysTypeOK, NEW p \in Proc, NEW w \in WalletRec, Saves(p, w),
           overlapped' \in BOOLEAN, mistyped' \in BOOLEAN
    PROVE  KeysTypeOK' /\ Around' \subseteq Around \cup {w}
<1>1. file' \in WalletRec \cup {Absent, Torn} /\ acked' \in SUBSET Told
  BY DEF Saves, KeysTypeOK
<1>2. pc' \in [Proc -> {"idle", "loaded", "save", "write"}] /\ mem' \in [Proc -> WalletRec]
  BY DEF Saves, KeysTypeOK
<1>3. tells' \in [Proc -> SUBSET Told]
  BY ToldTyped DEF Saves, KeysTypeOK
<1>4. \A q \in Proc : mem'[q] = mem[q] \/ mem'[q] = w
  BY DEF Saves, KeysTypeOK
<1> QED BY <1>1, <1>2, <1>3, <1>4 DEF KeysTypeOK, Around, Saves

\* The commands that add a key.
LEMMA CreateStep ==
    ASSUME KeysTypeOK, NEW p \in Proc, Create(p)
    PROVE  /\ KeysTypeOK' /\ mistyped' = mistyped
           /\ \E w \in WalletRec : /\ Saves(p, w) /\ Around' \subseteq Around \cup {w}
                                   /\ OneSealIn(w) /\ OnePassIn(w)
<1>1. PICK k \in Key, pass \in Good \cup {NoPass}, s \in Salt :
         \E w \in AddPrivateKey(NewWallet(pass, s), k, pass) : Saves(p, w)
  BY DEF Create
<1>2. PICK w \in AddPrivateKey(NewWallet(pass, s), k, pass) : Saves(p, w)
  BY <1>1
<1> DEFINE n == NewWallet(pass, s)
<1>3. pass \in Passphrase \cup {NoPass}
  BY WalletKeysAssumption
<1>4. n \in WalletRec /\ n.keys = {}
  BY <1>3, NewWalletFacts
<1>5. /\ w \in WalletRec /\ w.salt = n.salt /\ (OneSealIn(n) => OneSealIn(w))
      /\ w.keys = n.keys \cup {SealedRec(n, k, pass)}
  BY <1>2, <1>3, <1>4, AddPrivateKeyFacts
<1>6. OneSealIn(w)
  BY <1>4, <1>5 DEF OneSealIn
<1>7. OnePassIn(w)
  <2>1. \A r \in w.keys : r = SealedRec(n, k, pass) /\ r.salt = w.salt
    BY <1>4, <1>5, <1>6 DEF OneSealIn
  <2>2. SealedRec(n, k, pass).pass = pass \/ ~IsEncrypted(w)
    BY <1>5 DEF SealedRec, IsEncrypted
  <2> QED BY <1>3, <2>1, <2>2 DEF OnePassIn, Opens
<1>8. overlapped' \in BOOLEAN /\ mistyped' = mistyped /\ mistyped' \in BOOLEAN
  BY DEF Create, Begin, KeysTypeOK
<1>9. KeysTypeOK' /\ Around' \subseteq Around \cup {w}
  BY <1>2, <1>5, <1>8, SavesStep
<1> QED BY <1>2, <1>5, <1>6, <1>7, <1>8, <1>9

LEMMA AddStep ==
    ASSUME KeysTypeOK, NEW p \in Proc, NewAddress(p) \/ ImportPrivKey(p)
    PROVE  /\ KeysTypeOK'
           /\ \E w \in WalletRec : /\ Saves(p, w) /\ Around' \subseteq Around \cup {w}
                                   /\ w.salt = mem[p].salt /\ mem[p].keys \subseteq w.keys
                                   /\ OneSealIn(mem[p]) => OneSealIn(w)
                                   /\ OneSealIn(mem[p]) /\ ~mistyped' => OnePassIn(w)
           /\ ~mistyped' => ~mistyped
<1>1. PICK k \in Key, pass \in Passphrase \cup {NoPass} :
         /\ \E w \in AddPrivateKey(mem[p], k, pass) : Saves(p, w)
         /\ Mistypes(p, pass)
  BY ImportAdds DEF NewAddress, ImportPrivKey
<1>2. PICK w \in AddPrivateKey(mem[p], k, pass) : Saves(p, w)
  BY <1>1
<1> DEFINE n == mem[p]
<1>3. n \in WalletRec
  BY DEF KeysTypeOK
<1>4. /\ w \in WalletRec /\ w.salt = n.salt /\ (OneSealIn(n) => OneSealIn(w))
      /\ w.keys = n.keys \cup {SealedRec(n, k, pass)}
  BY <1>2, <1>3, AddPrivateKeyFacts
<1>5. /\ mistyped' = (mistyped \/ \E r \in n.keys : ~Opens(n, r, pass))
      /\ overlapped' = overlapped
  BY <1>1 DEF Mistypes
<1>6. ASSUME OneSealIn(n), ~mistyped' PROVE OnePassIn(w)
  <2>1. \A r \in n.keys : Opens(w, r, pass)
    BY <1>4, <1>5, <1>6 DEF Opens, IsEncrypted
  <2>2. SealedRec(n, k, pass).pass = pass \/ ~IsEncrypted(w)
    BY <1>4 DEF SealedRec, IsEncrypted
  <2>3. SealedRec(n, k, pass).salt = w.salt
    BY <1>4, <1>6 DEF OneSealIn
  <2>4. \A r \in w.keys : Opens(w, r, pass)
    BY <1>4, <2>1, <2>2, <2>3 DEF Opens
  <2> QED BY <2>4 DEF OnePassIn
<1>7. overlapped' \in BOOLEAN /\ mistyped' \in BOOLEAN
  BY <1>5 DEF KeysTypeOK
<1>8. KeysTypeOK' /\ Around' \subseteq Around \cup {w}
  BY <1>2, <1>4, <1>7, SavesStep
<1> QED BY <1>2, <1>4, <1>5, <1>6, <1>8

\* The commands that seal every key again.
LEMMA ResealStep ==
    ASSUME KeysTypeOK, NEW p \in Proc, Encrypt(p) \/ ChangePassphrase(p)
    PROVE  /\ KeysTypeOK' /\ mistyped' = mistyped
           /\ \E w \in WalletRec : /\ Saves(p, w) /\ Around' \subseteq Around \cup {w}
                                   /\ OneSealIn(w) /\ OnePassIn(w)
                                   /\ Keys(w) = Keys(mem[p])
                                   /\ OneSealIn(mem[p]) => w.keys \cap mem[p].keys = {}
<1>1. PICK pass \in Good, s \in Salt : FreshSalt(s) /\ Saves(p, Reseal(mem[p], s, pass))
  BY DEF Encrypt, ChangePassphrase, Encrypted, Changed
<1> DEFINE w == Reseal(mem[p], s, pass)
<1>2. pass \in Passphrase /\ mem[p] \in WalletRec
  BY WalletKeysAssumption DEF KeysTypeOK
<1>3. w \in WalletRec /\ OneSealIn(w) /\ OnePassIn(w)
  BY <1>2, ResealFacts
<1>4. mistyped' = mistyped /\ overlapped' \in BOOLEAN /\ mistyped' \in BOOLEAN
  BY DEF Encrypt, ChangePassphrase, KeysTypeOK
<1>5. KeysTypeOK' /\ Around' \subseteq Around \cup {w}
  BY <1>1, <1>3, <1>4, SavesStep
<1>6. Keys(w) = Keys(mem[p])
  <2> DEFINE ks == Keys(mem[p])
             seal(k) == [key |-> k, salt |-> s, pass |-> pass]
  <2>1. w.keys = {seal(k) : k \in ks}
    BY DEF Reseal
  <2>2. \A k \in ks : seal(k) \in w.keys /\ seal(k).key = k
    BY <2>1
  <2>3. \A r \in w.keys : r.key \in ks
    BY <2>1
  <2> QED
    <3> HIDE DEF ks, seal, w
    <3>1. Keys(w) = ks
      BY <2>2, <2>3 DEF Keys
    <3> QED BY <3>1 DEF ks
<1>7. s # mem[p].salt
  BY <1>1 DEF FreshSalt, Wallets
<1>8. OneSealIn(mem[p]) => w.keys \cap mem[p].keys = {}
  BY <1>7 DEF OneSealIn, Reseal
<1> QED BY <1>1, <1>3, <1>4, <1>5, <1>6, <1>8

\* The steps that make no new wallet.
LEMMA QuietStep ==
    ASSUME KeysTypeOK, NEW p \in Proc, Load(p) \/ Stop(p) \/ Truncate(p) \/ Write(p) \/ UNCHANGED keysVars
    PROVE  KeysTypeOK' /\ mistyped' = mistyped /\ Around' \subseteq Around \cup {Empty}
<1> USE WalletKeysAssumption
<1>1. CASE Load(p)
  <2>1. file \in WalletRec /\ file \in Around
    BY <1>1 DEF Load, KeysTypeOK, Around
  <2>2. mem' \in [Proc -> WalletRec] /\ \A q \in Proc : mem'[q] = mem[q] \/ mem'[q] = file
    BY <1>1, <2>1 DEF Load, KeysTypeOK
  <2>3. KeysTypeOK' /\ mistyped' = mistyped
    BY <1>1, <2>2 DEF Load, Begin, KeysTypeOK
  <2> QED BY <1>1, <2>1, <2>2, <2>3 DEF Around, Load
<1>2. CASE Stop(p)
  <2>1. mem' \in [Proc -> WalletRec] /\ \A q \in Proc : mem'[q] = mem[q] \/ mem'[q] = Empty
    BY <1>2, EmptyFacts DEF Stop, End, KeysTypeOK
  <2>2. KeysTypeOK' /\ mistyped' = mistyped
    BY <1>2, <2>1 DEF Stop, End, KeysTypeOK
  <2> QED BY <1>2, <2>1, <2>2 DEF Around, Stop
<1>3. CASE Truncate(p)
  BY <1>3 DEF Truncate, KeysTypeOK, Around
<1>4. CASE Write(p)
  <2>1. mem' \in [Proc -> WalletRec] /\ \A q \in Proc : mem'[q] = mem[q] \/ mem'[q] = Empty
    BY <1>4, EmptyFacts DEF Write, End, KeysTypeOK
  <2>2. file' = mem[p] \/ file' = Torn
    BY <1>4 DEF Write
  <2>3. acked' \in SUBSET Told
    BY <1>4 DEF Write, KeysTypeOK
  <2>4. KeysTypeOK' /\ mistyped' = mistyped
    BY <1>4, <2>1, <2>2, <2>3 DEF Write, End, KeysTypeOK
  <2> QED BY <2>1, <2>2, <2>4 DEF Around
<1>5. CASE UNCHANGED keysVars
  BY <1>5 DEF keysVars, KeysTypeOK, Around
<1> QED BY <1>1, <1>2, <1>3, <1>4, <1>5

-----------------------------------------------------------------------------
(* The theorems. *)

\* The initial state has it.
LEMMA WInvInit == KeysInit => WInv
<1> SUFFICES ASSUME KeysInit PROVE WInv
  OBVIOUS
<1>1. KeysTypeOK
  BY EmptyFacts DEF KeysInit, KeysTypeOK
<1>2. Around \subseteq {Empty}
  BY DEF KeysInit, Around
<1> QED BY <1>1, <1>2, EmptyFacts DEF WInv

\* Every command keeps it.
LEMMA WInvStep == WInv /\ [KeysNext]_keysVars => WInv'
<1> SUFFICES ASSUME WInv, [KeysNext]_keysVars PROVE WInv'
  OBVIOUS
<1> USE DEF WInv
<1>1. CASE \E p \in Proc : Create(p)
  BY <1>1, CreateStep
<1>2. CASE \E p \in Proc : NewAddress(p) \/ ImportPrivKey(p)
  <2>1. PICK p \in Proc : NewAddress(p) \/ ImportPrivKey(p)
    BY <1>2
  <2>2. mem[p] \in Around
    BY DEF Around
  <2> QED BY <2>1, <2>2, AddStep
<1>3. CASE \E p \in Proc : Encrypt(p) \/ ChangePassphrase(p)
  BY <1>3, ResealStep
<1>4. CASE \E p \in Proc : Load(p) \/ Stop(p) \/ Truncate(p) \/ Write(p)
  BY <1>4, QuietStep, EmptyFacts
<1>5. CASE UNCHANGED keysVars
  BY <1>5 DEF keysVars, KeysTypeOK, Around, OneSealIn, OnePassIn, Opens, IsEncrypted
<1> QED BY <1>1, <1>2, <1>3, <1>4, <1>5 DEF KeysNext

(***************************************************************************)
(* The wallet file, the processes' copies and what they have told are      *)
(* always of their types.                                                  *)
(***************************************************************************)
THEOREM WalletTypes == KeysSpec => []KeysTypeOK
<1>1. WInv => KeysTypeOK
  BY DEF WInv
<1> QED BY <1>1, WInvInit, WInvStep, PTL DEF KeysSpec

(***************************************************************************)
(* However the commands overlap and wherever they stop, a wallet file that *)
(* decodes holds every key under its own salt, or every key in clear.      *)
(***************************************************************************)
THEOREM FileHasOneSeal == KeysSpec => []OneSeal
<1>1. WInv => OneSeal
  BY DEF WInv, OneSeal, Readable, Around, OneSealIn
<1> QED BY <1>1, WInvInit, WInvStep, PTL DEF KeysSpec

(***************************************************************************)
(* And one passphrase opens every key of it, if every key was added under  *)
(* a passphrase that opened the others.                                    *)
(***************************************************************************)
THEOREM FileHasOnePassphrase == KeysSpec => []OnePassphrase
<1>1. WInv => OnePassphrase
  BY DEF WInv, OnePassphrase, Readable, Around, OnePassIn
<1> QED BY <1>1, WInvInit, WInvStep, PTL DEF KeysSpec

-----------------------------------------------------------------------------
(* Reported keys. *)

\* The keys reported are in w, under their passphrases.
KeptIn(told, w) ==
    \A a \in told : \E r \in w.keys : r.key = a.key /\ r.pass = a.pass /\ Opens(w, r, a.pass)

\* What will have been reported when p is done.
Outlook(p) == {a \in acked : a.key \notin {t.key : t \in tells[p]}} \cup tells[p]

Alone == \A p, q \in Proc : pc[p] # "idle" /\ pc[q] # "idle" => p = q

\* The inductive invariant: while commands take turns, a loaded copy is the file, and
\* a changed copy has what was reported before and what will be.
RInv ==
    /\ WInv
    /\ ~overlapped =>
         /\ Alone
         /\ file = Absent => acked = {}
         /\ Readable => KeptIn(acked, file)
         /\ \A p \in Proc : pc[p] = "loaded" => Readable /\ mem[p] = file
         /\ \A p \in Proc : pc[p] \in {"save", "write"} => KeptIn(Outlook(p), mem[p])

\* A command that takes over or seals again every key of a file that has all reported
\* keys has all of them, and its own.
LEMMA SavesKeeps ==
    ASSUME KeysTypeOK, NEW p \in Proc, NEW w \in WalletRec, Saves(p, w), OneSealIn(w),
           \/ acked = {}
           \/ KeptIn(acked, mem[p]) /\ w.salt = mem[p].salt /\ mem[p].keys \subseteq w.keys
           \/ KeptIn(acked, mem[p]) /\ Keys(w) = Keys(mem[p]) /\ w.keys \cap mem[p].keys = {}
    PROVE  KeptIn(Outlook(p)', mem'[p])
<1> DEFINE new == {[key |-> r.key, pass |-> r.pass] : r \in w.keys \ mem[p].keys}
<1>1. mem'[p] = w /\ tells'[p] = new /\ acked' = acked
  BY DEF Saves, KeysTypeOK
<1>2. Outlook(p)' = {a \in acked : a.key \notin {t.key : t \in new}} \cup new
  BY <1>1 DEF Outlook
<1>3. KeptIn(new, w)
  <2> SUFFICES ASSUME NEW a \in new
               PROVE  \E r \in w.keys : r.key = a.key /\ r.pass = a.pass /\ Opens(w, r, a.pass)
    BY DEF KeptIn
  <2>1. PICK r \in w.keys : a = [key |-> r.key, pass |-> r.pass]
    OBVIOUS
  <2> QED BY <2>1 DEF OneSealIn, Opens
<1>4. ASSUME NEW a \in acked, a.key \notin {t.key : t \in new}
      PROVE  \E r \in w.keys : r.key = a.key /\ r.pass = a.pass /\ Opens(w, r, a.pass)
  <2>1. CASE KeptIn(acked, mem[p]) /\ w.salt = mem[p].salt /\ mem[p].keys \subseteq w.keys
    BY <2>1 DEF KeptIn, Opens, IsEncrypted
  <2>2. CASE KeptIn(acked, mem[p]) /\ Keys(w) = Keys(mem[p]) /\ w.keys \cap mem[p].keys = {}
    <3>1. a.key \in Keys(w)
      BY <2>2 DEF KeptIn, Keys
    <3>2. PICK r \in w.keys : r.key = a.key
      BY <3>1 DEF Keys
    <3>3. [key |-> r.key, pass |-> r.pass] \in new
      BY <2>2, <3>2
    <3>4. [key |-> r.key, pass |-> r.pass].key = a.key
      BY <3>2
    <3>5. a.key \in {t.key : t \in new}
      <4> HIDE DEF new
      <4> QED BY <3>3, <3>4
    <3> QED BY <1>4, <3>5
  <2> QED BY <2>1, <2>2
<1> QED BY <1>1, <1>2, <1>3, <1>4 DEF KeptIn

\* A command that has begun alone leaves the other processes as they were.
LEMMA SavesTurn ==
    ASSUME KeysTypeOK, NEW p \in Proc, NEW w \in WalletRec, Saves(p, w), ~overlapped',
           Alone, \A q \in Proc : pc[q] # "idle" => q = p,
           file = Absent => acked = {}, Readable => KeptIn(acked, file),
           KeptIn(Outlook(p)', mem'[p])
    PROVE  /\ Alone'
           /\ file' = Absent => acked' = {}
           /\ Readable' => KeptIn(acked', file')
           /\ \A q \in Proc : pc'[q] = "loaded" => Readable' /\ mem'[q] = file'
           /\ \A q \in Proc : pc'[q] \in {"save", "write"} => KeptIn(Outlook(q)', mem'[q])
<1>1. file' = file /\ acked' = acked
  BY DEF Saves
<1>2. \A q \in Proc : pc'[q] = IF q = p THEN "save" ELSE "idle"
  BY DEF Saves, KeysTypeOK
<1>3. Alone'
  BY <1>2 DEF Alone
<1>4. Readable' => KeptIn(acked', file')
  BY <1>1 DEF Readable
<1> QED BY <1>1, <1>2, <1>3, <1>4

\* The initial state has it.
LEMMA RInvInit == KeysInit => RInv
<1> SUFFICES ASSUME KeysInit PROVE RInv
  OBVIOUS
<1> QED BY WInvInit DEF RInv, KeysInit, Alone, Readable

\* Every command keeps it.
LEMMA RInvStep == RInv /\ [KeysNext]_keysVars => RInv'
<1> SUFFICES ASSUME RInv, [KeysNext]_keysVars, ~overlapped'
             PROVE  /\ Alone'
                    /\ file' = Absent => acked' = {}
                    /\ Readable' => KeptIn(acked', file')
                    /\ \A q \in Proc : pc'[q] = "loaded" => Readable' /\ mem'[q] = file'
                    /\ \A q \in Proc : pc'[q] \in {"save", "write"} => KeptIn(Outlook(q)', mem'[q])
  BY WInvStep DEF RInv
<1>1. ~overlapped /\ KeysTypeOK /\ \A p \in Proc : OneSealIn(mem[p])
  BY DEF RInv, WInv, Around, KeysTypeOK, KeysNext, Create, Load, NewAddress, ImportPrivKey, Mistypes, Encrypt,
         ChangePassphrase, Stop, Truncate, Write, Begin, keysVars
<1>2. /\ Alone /\ (file = Absent => acked = {}) /\ (Readable => KeptIn(acked, file))
      /\ \A p \in Proc : pc[p] = "loaded" => Readable /\ mem[p] = file
      /\ \A p \in Proc : pc[p] \in {"save", "write"} => KeptIn(Outlook(p), mem[p])
  BY <1>1 DEF RInv
<1>3. CASE \E p \in Proc : Create(p)
  <2>1. PICK p \in Proc : Create(p)
    BY <1>3
  <2>2. acked = {} /\ \A q \in Proc : pc[q] # "idle" => q = p
    BY <1>2, <2>1 DEF Create, Begin
  <2>3. PICK w \in WalletRec : Saves(p, w) /\ OneSealIn(w)
    BY <1>1, <2>1, CreateStep
  <2>4. KeptIn(Outlook(p)', mem'[p])
    BY <1>1, <2>2, <2>3, SavesKeeps
  <2> QED BY <1>1, <1>2, <2>2, <2>3, <2>4, SavesTurn
<1>4. CASE \E p \in Proc : NewAddress(p) \/ ImportPrivKey(p)
  <2>1. PICK p \in Proc : NewAddress(p) \/ ImportPrivKey(p)
    BY <1>4
  <2>2. pc[p] = "loaded" /\ KeptIn(acked, mem[p]) /\ \A q \in Proc : pc[q] # "idle" => q = p
    BY <1>2, <2>1 DEF NewAddress, ImportPrivKey, Alone
  <2>3. PICK w \in WalletRec : /\ Saves(p, w) /\ OneSealIn(w)
                               /\ w.salt = mem[p].salt /\ mem[p].keys \subseteq w.keys
    BY <1>1, <2>1, AddStep
  <2>4. KeptIn(Outlook(p)', mem'[p])
    BY <1>1, <2>2, <2>3, SavesKeeps
  <2> QED BY <1>1, <1>2, <2>2, <2>3, <2>4, SavesTurn
<1>5. CASE \E p \in Proc : Encrypt(p) \/ ChangePassphrase(p)
  <2>1. PICK p \in Proc : Encrypt(p) \/ ChangePassphrase(p)
    BY <1>5
  <2>2. pc[p] = "loaded" /\ KeptIn(acked, mem[p]) /\ \A q \in Proc : pc[q] # "idle" => q = p
    BY <1>2, <2>1 DEF Encrypt, ChangePassphrase, Alone
  <2>3. PICK w \in WalletRec : /\ Saves(p, w) /\ OneSealIn(w)
                               /\ Keys(w) = Keys(mem[p]) /\ w.keys \cap mem[p].keys = {}
    BY <1>1, <2>1, ResealStep
  <2>4. KeptIn(Outlook(p)', mem'[p])
    BY <1>1, <2>2, <2>3, SavesKeeps
  <2> QED BY <1>1, <1>2, <2>2, <2>3, <2>4, SavesTurn
<1>6. CASE \E p \in Proc : Load(p)
  <2>1. PICK p \in Proc : Load(p)
    BY <1>6
  <2>2. \A q \in Proc : pc[q] = "idle"
    BY <2>1 DEF Load, Begin
  <2>3. \A q \in Proc : pc'[q] = IF q = p THEN "loaded" ELSE "idle"
    BY <1>1, <2>1, <2>2 DEF Load, KeysTypeOK
  <2>4. file' = file /\ acked' = acked /\ mem'[p] = file /\ Readable
    BY <1>1, <2>1 DEF Load, KeysTypeOK, Readable
  <2>5. Readable' => KeptIn(acked', file')
    BY <1>2, <2>4
  <2> QED BY <1>2, <2>3, <2>4, <2>5 DEF Alone, Readable
<1>7. CASE \E p \in Proc : Stop(p)
  <2>1. PICK p \in Proc : Stop(p)
    BY <1>7
  <2>2. \A q \in Proc : pc'[q] = "idle"
    BY <1>1, <1>2, <2>1 DEF Stop, End, Alone, KeysTypeOK
  <2>3. file' = file /\ acked' = acked
    BY <2>1 DEF Stop
  <2> QED BY <1>2, <2>2, <2>3 DEF Alone, Readable
<1>8. CASE \E p \in Proc : Truncate(p)
  <2>1. PICK p \in Proc : Truncate(p)
    BY <1>8
  <2>2. \A q \in Proc : pc'[q] = IF q = p THEN "write" ELSE "idle"
    BY <1>1, <1>2, <2>1 DEF Truncate, Alone, KeysTypeOK
  <2>3. file' = Torn /\ acked' = acked /\ mem' = mem /\ tells' = tells
    BY <2>1 DEF Truncate
  <2>4. KeptIn(Outlook(p), mem[p]) /\ Outlook(p)' = Outlook(p)
    BY <1>2, <2>1, <2>3 DEF Truncate, Outlook
  <2>5. file' # Absent
    BY <2>3, WalletKeysAssumption
  <2> QED BY <2>2, <2>3, <2>4, <2>5 DEF Alone, Readable
<1>9. CASE \E p \in Proc : Write(p)
  <2>1. PICK p \in Proc : Write(p)
    BY <1>9
  <2>2. \A q \in Proc : pc'[q] = "idle"
    BY <1>1, <1>2, <2>1 DEF Write, End, Alone, KeysTypeOK
  <2>3. acked' = Outlook(p) /\ KeptIn(Outlook(p), mem[p])
    BY <1>2, <2>1 DEF Write, Outlook
  <2>4. file' = mem[p] \/ file' = Torn
    BY <2>1 DEF Write
  <2>5. file' # Absent
    BY <1>1, <2>4, WalletKeysAssumption DEF KeysTypeOK
  <2>6. Readable' => KeptIn(acked', file')
    BY <2>3, <2>4 DEF Readable
  <2> QED BY <2>2, <2>5, <2>6 DEF Alone
<1>10. CASE UNCHANGED keysVars
  BY <1>2, <1>10 DEF keysVars, Alone, Readable, KeptIn, Outlook, Opens, IsEncrypted
<1> QED BY <1>3, <1>4, <1>5, <1>6, <1>7, <1>8, <1>9, <1>10 DEF KeysNext

(***************************************************************************)
(* As long as commands take turns, no reported key is lost, locked away    *)
(* under another passphrase, or laid open.                                 *)
(***************************************************************************)
THEOREM ReportedKeysKept == KeysSpec => []ReportedKept
<1>1. RInv => ReportedKept
  BY DEF RInv, ReportedKept, KeptIn
<1> QED BY <1>1, RInvInit, RInvStep, PTL DEF KeysSpec

=============================================================================
