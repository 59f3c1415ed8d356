----------------------------- MODULE SyncProofs -----------------------------
(***************************************************************************)
(* Proofs about two nodes and their connection, for every tree of valid    *)
(* blocks, every gap and every limit on a message's list.                  *)
(*                                                                         *)
(* What a node holds against the other comes from what it reads, so the    *)
(* invariant is about the messages on their way: as long as the chains are *)
(* one chain they only grow, and then whatever was sent earlier, in answer *)
(* to whatever was asked earlier still, is a part of the sender's chain    *)
(* that begins no higher than the receiver's ends.                         *)
(***************************************************************************)
EXTENDS Sync, SequenceTheorems, NaturalsInduction, WellFoundedInduction, TLAPS

\* What is sent once the handshake has ended.
SyncTypes == {"getheaders", "headers", "getblocks", "inv", "getdata", "block"}
SyncMsg == {m \in Message : m.type \in SyncTypes}

\* The only message in a channel, in the handshake.
Alone(msgs, type) == msgs # <<>> /\ Head(msgs).type = type /\ Tail(msgs) = <<>>

\* What is in the channels at each pair of phases.
Handshake(d, l, toD, toL) ==
  \/ d = "version" /\ l = "version" /\ toD = <<>> /\ Alone(toL, "version")
  \/ d = "version" /\ l = "verack" /\ Alone(toD, "version") /\ toL = <<>>
  \/ d = "verack" /\ l = "verack" /\ toD = <<>> /\ Alone(toL, "verack")
  \/ /\ d = "verack" /\ l = "active"
     /\ toD # <<>> /\ Head(toD).type = "verack" /\ Tail(toD) \in Seq(SyncMsg) /\ toL = <<>>
  \/ /\ d \in {"active", "closed", "reset"} /\ l \in {"active", "closed", "reset"}
     /\ toD \in Seq(SyncMsg) /\ toL \in Seq(SyncMsg)

\* hs is a part of c that begins no higher than at k.
Segment(hs, c, k) ==
  \E s \in 0..k : s + Len(hs) <= Len(c) /\ \A i \in 1..Len(hs) : hs[i] = c[s + i]

\* What a node with chain own may have sent to one with chain theirs.
Fits(msg, own, theirs) ==
  /\ msg.type = "getheaders" => msg.start <= Len(own)
  /\ msg.type = "headers" => Segment(msg.headers, own, Len(theirs))
  /\ msg.type = "block" => msg.block \in Range(own)

FitMsg(own, theirs) == {m \in Message : Fits(m, own, theirs)}

\* One end while the chains are one chain.
Peaceful(n) ==
  /\ score[n] = 0 /\ side[n] = {} /\ orphans[n] \subseteq Range(chain[Other(n)])
  /\ phase[n] # "reset"
  /\ phase[n] = "closed" => channel[n] = <<>> /\ channel[Other(n)] = <<>>
  /\ channel[n] \in Seq(FitMsg(chain[Other(n)], chain[n]))

OneChain(a, b) == IsPrefix(a, b) \/ IsPrefix(b, a)
Near(a, b) == Len(a) <= Len(b) + MaxGap /\ Len(b) <= Len(a) + MaxGap

NodesOK ==
  /\ chain \in [Node -> Seq(Block)] /\ side \in [Node -> SUBSET Block] /\ orphans \in [Node -> SUBSET Block]
  /\ \A n \in Node : Linked(chain[n])

ConnOK ==
  /\ phase \in [Node -> {"closed", "reset", "version", "verack", "active"}]
  /\ ownHeight \in [Node -> Heights] /\ announced \in [Node -> Heights]
  /\ channel \in [Node -> Seq(Message)] /\ score \in [Node -> 0..BanThreshold]
  /\ Handshake(phase[Dialler], phase[Listener], channel[Dialler], channel[Listener])

HistoryOK ==
  /\ forked \in BOOLEAN /\ farBehind \in BOOLEAN /\ late \in 0..MaxLate
  /\ ~forked => OneChain(chain[Dialler], chain[Listener])
  /\ ~farBehind => Near(chain[Dialler], chain[Listener])

\* The inductive invariant.
SInv ==
  /\ NodesOK /\ ConnOK /\ HistoryOK
  /\ ~forked /\ ~farBehind /\ late = 0 => \A n \in Node : Peaceful(n)

-----------------------------------------------------------------------------
(* Induction. *)

LEMMA LeastNat ==
  ASSUME NEW T \in SUBSET Nat, T # {}
  PROVE  \E x \in T : \A y \in T : x <= y
<1>1. PICK x \in T : \A y \in T : ~ (<<y, x>> \in OpToRel(<, Nat))
  BY NatLessThanWellFounded, WFMin
<1>2. \A y \in T : ~ (y < x)
  BY <1>1 DEF OpToRel
<1> QED BY <1>2

LEMMA SetInduction ==
  ASSUME NEW S, 0 \in S, \A n \in Nat : n \in S => n + 1 \in S
  PROVE  Nat \subseteq S
<1> SUFFICES ASSUME Nat \ S # {} PROVE FALSE
  OBVIOUS
<1>1. PICK x \in Nat \ S : \A y \in Nat \ S : x <= y
  BY LeastNat
<1>2. x \in Nat /\ x \notin S /\ x # 0
  BY <1>1
<1>3. x - 1 \in Nat /\ ~(x <= x - 1) /\ (x - 1) + 1 = x
  BY <1>2
<1>4. x - 1 \in S
  BY <1>1, <1>3
<1> QED BY <1>2, <1>3, <1>4

\* The results of a loop over seq, round after round.
Rounds(acc, n, W, base, next, seq) ==
  /\ acc \in [0..n -> W] /\ acc[0] = base
  /\ \A k \in 1..n : acc[k] = next[<<acc[k - 1], seq[k]>>]

\* A recursive function over the positions of a sequence exists.
LEMMA RoundsExist ==
  ASSUME NEW W, NEW T, NEW base \in W, NEW n \in Nat, NEW seq \in [1..n -> T],
         NEW next \in [W \X T -> W]
  PROVE  \E acc : Rounds(acc, n, W, base, next, seq)
<1> DEFINE S == {k \in Nat : k <= n => \E acc : Rounds(acc, k, W, base, next, seq)}
<1>1. 0 \in S
  <2> DEFINE acc == [k \in 0..0 |-> base]
  <2>1. Rounds(acc, 0, W, base, next, seq)
    BY DEF Rounds
  <2> QED BY <2>1
<1>2. ASSUME NEW k \in Nat, k \in S PROVE k + 1 \in S
  <2> SUFFICES ASSUME k + 1 <= n PROVE \E acc : Rounds(acc, k + 1, W, base, next, seq)
    OBVIOUS
  <2>1. PICK f : Rounds(f, k, W, base, next, seq)
    BY <1>2
  <2>2. f[k] \in W /\ seq[k + 1] \in T
    BY <2>1 DEF Rounds
  <2>3. PICK last \in W : last = next[<<f[k], seq[k + 1]>>]
    BY <2>2
  <2> DEFINE acc == [i \in 0..(k + 1) |-> IF i = k + 1 THEN last ELSE f[i]]
  <2>4. acc \in [0..(k + 1) -> W] /\ acc[0] = base
    BY <2>1, <2>3 DEF Rounds
  <2>5. ASSUME NEW i \in 1..(k + 1) PROVE acc[i] = next[<<acc[i - 1], seq[i]>>]
    <3>1. CASE i = k + 1
      <4>1. acc[i] = last /\ acc[i - 1] = f[k]
        BY <3>1
      <4> QED BY <2>3, <3>1, <4>1
    <3>2. CASE i # k + 1
      <4>1. acc[i] = f[i] /\ acc[i - 1] = f[i - 1] /\ i \in 1..k
        BY <3>2
      <4> QED BY <2>1, <4>1 DEF Rounds
    <3> QED BY <3>1, <3>2
  <2> HIDE DEF acc
  <2>6. Rounds(acc, k + 1, W, base, next, seq)
    BY <2>4, <2>5 DEF Rounds
  <2> QED BY <2>6
<1> HIDE DEF S
<1>3. n \in S
  BY <1>1, <1>2, SetInduction
<1> QED BY <1>3 DEF S

-----------------------------------------------------------------------------
(* Chains. *)

LEMMA BlockFacts ==
  /\ \A b \in AnyBlock : Height[b] \in Nat
  /\ \A b \in Block : /\ b # Genesis /\ Prev[b] \in AnyBlock /\ b \in AnyBlock
                      /\ Height[b] = Height[Prev[b]] + 1
  /\ Height[Genesis] = 0 /\ Genesis \in AnyBlock /\ Genesis \notin Block
  /\ \A b \in AnyBlock : b = Genesis \/ b \in Block
BY BlockAssumption, SyncAssumption DEF AnyBlock

\* A block's height is its place.
LEMMA LinkedHeights ==
  ASSUME NEW c \in Seq(Block), Linked(c)
  PROVE  \A i \in 1..Len(c) : Height[c[i]] = i
<1> DEFINE S == {k \in Nat : k \in 1..Len(c) => Height[c[k]] = k}
<1>1. 0 \in S
  OBVIOUS
<1>2. ASSUME NEW k \in Nat, k \in S PROVE k + 1 \in S
  <2> SUFFICES ASSUME k + 1 \in 1..Len(c) PROVE Height[c[k + 1]] = k + 1
    OBVIOUS
  <2>1. c[k + 1] \in Block /\ Prev[c[k + 1]] = Before(c, k + 1)
    BY DEF Linked
  <2>2. Height[c[k + 1]] = Height[Before(c, k + 1)] + 1
    BY <2>1, BlockFacts
  <2>3. Height[Before(c, k + 1)] = k
    <3>1. CASE k = 0
      BY <3>1, BlockFacts DEF Before
    <3>2. CASE k # 0
      BY <1>2, <3>2 DEF Before
    <3> QED BY <3>1, <3>2
  <2> QED BY <2>2, <2>3
<1> HIDE DEF S
<1>3. Nat \subseteq S
  BY <1>1, <1>2, SetInduction
<1> QED BY <1>3 DEF S

LEMMA TipFacts ==
  ASSUME NEW c \in Seq(Block), Linked(c)
  PROVE  TipOf(c) \in AnyBlock /\ Height[TipOf(c)] = Len(c) /\ Len(c) \in Heights
<1>1. TipOf(c) \in AnyBlock /\ Height[TipOf(c)] = Len(c)
  <2>1. CASE c = <<>>
    BY <2>1, BlockFacts DEF TipOf
  <2>2. CASE c # <<>>
    <3>1. Len(c) \in 1..Len(c) /\ c[Len(c)] \in Block
      BY <2>2
    <3> QED BY <2>2, <3>1, LinkedHeights DEF TipOf, AnyBlock
  <2> QED BY <2>1, <2>2
<1> QED BY <1>1 DEF Heights

LEMMA LinkedAppend ==
  ASSUME NEW c \in Seq(Block), Linked(c), NEW b \in Block, Prev[b] = TipOf(c)
  PROVE  /\ Append(c, b) \in Seq(Block) /\ Linked(Append(c, b)) /\ TipOf(Append(c, b)) = b
         /\ Len(Append(c, b)) = Len(c) + 1
<1> DEFINE d == Append(c, b)
<1>1. /\ d \in Seq(Block) /\ Len(d) = Len(c) + 1 /\ d[Len(c) + 1] = b
      /\ \A i \in 1..Len(c) : d[i] = c[i]
  OBVIOUS
<1> HIDE DEF d
<1>2. ASSUME NEW i \in 1..Len(d) PROVE Prev[d[i]] = Before(d, i)
  <2>1. CASE i = Len(c) + 1
    <3>1. CASE c = <<>>
      BY <1>1, <2>1, <3>1 DEF Before, TipOf
    <3>2. CASE c # <<>>
      <4>1. Len(c) \in 1..Len(c) /\ i # 1 /\ i - 1 = Len(c)
        BY <2>1, <3>2
      <4> QED BY <1>1, <2>1, <3>2, <4>1 DEF Before, TipOf
    <3> QED BY <3>1, <3>2
  <2>2. CASE i # Len(c) + 1
    BY <1>1, <2>2 DEF Before, Linked
  <2> QED BY <2>1, <2>2
<1>3. TipOf(d) = b
  BY <1>1 DEF TipOf
<1>4. Linked(d)
  BY <1>2 DEF Linked
<1> QED BY <1>1, <1>3, <1>4 DEF d

\* Two chains with a block in common have all in common below it.
LEMMA LinkedUnique ==
  ASSUME NEW c \in Seq(Block), Linked(c), NEW d \in Seq(Block), Linked(d),
         NEW i \in 1..Len(c), i <= Len(d), c[i] = d[i]
  PROVE  \A j \in 1..i : c[j] = d[j]
<1> DEFINE S == {k \in Nat : k < i => c[i - k] = d[i - k]}
<1>1. 0 \in S
  OBVIOUS
<1>2. ASSUME NEW k \in Nat, k \in S PROVE k + 1 \in S
  <2> SUFFICES ASSUME k + 1 < i PROVE c[i - (k + 1)] = d[i - (k + 1)]
    OBVIOUS
  <2>1. PICK m \in 1..i : m = i - k /\ m # 1 /\ m - 1 = i - (k + 1)
    OBVIOUS
  <2>2. c[m] = d[m] /\ m \in 1..Len(c) /\ m \in 1..Len(d)
    BY <1>2, <2>1
  <2>3. c[m - 1] = Prev[c[m]] /\ d[m - 1] = Prev[d[m]]
    BY <2>1, <2>2 DEF Linked, Before
  <2> QED BY <2>1, <2>2, <2>3
<1>3. Nat \subseteq S
  <2> HIDE DEF S
  <2> QED BY <1>1, <1>2, SetInduction
<1>4. ASSUME NEW j \in 1..i PROVE c[j] = d[j]
  <2>1. PICK k \in Nat : k = i - j
    OBVIOUS
  <2>2. k \in S /\ k < i /\ i - k = j
    BY <1>3, <2>1
  <2> QED BY <2>2
<1> QED BY <1>4

\* Every block has a chain.
LEMMA PathExists ==
  \A b \in AnyBlock : \E c \in [1..Height[b] -> Block] : Linked(c) /\ TipOf(c) = b
<1> DEFINE HasPath(b) == \E c \in [1..Height[b] -> Block] : Linked(c) /\ TipOf(c) = b
           S == {k \in Nat : \A b \in AnyBlock : Height[b] = k => HasPath(b)}
<1>1. 0 \in S
  <2> SUFFICES ASSUME NEW b \in AnyBlock, Height[b] = 0 PROVE HasPath(b)
    OBVIOUS
  <2>1. b = Genesis
    BY BlockFacts
  <2>2. PICK c : c = <<>>
    OBVIOUS
  <2>3. c \in [1..0 -> Block] /\ Len(c) = 0
    BY <2>2
  <2>4. Linked(c) /\ TipOf(c) = b
    BY <2>1, <2>2, <2>3 DEF Linked, TipOf
  <2> QED BY <2>3, <2>4
<1>2. ASSUME NEW k \in Nat, k \in S PROVE k + 1 \in S
  <2> SUFFICES ASSUME NEW b \in AnyBlock, Height[b] = k + 1 PROVE HasPath(b)
    OBVIOUS
  <2>1. b \in Block
    BY BlockFacts
  <2>2. Prev[b] \in AnyBlock /\ Height[Prev[b]] = k
    BY <2>1, BlockFacts
  <2>3. PICK c \in [1..k -> Block] : Linked(c) /\ TipOf(c) = Prev[b]
    BY <1>2, <2>2
  <2>4. c \in Seq(Block) /\ Len(c) = k
    OBVIOUS
  <2>5. PICK d \in Seq(Block) : Linked(d) /\ TipOf(d) = b /\ Len(d) = k + 1
    BY <2>1, <2>3, <2>4, LinkedAppend
  <2>6. d \in [1..(k + 1) -> Block]
    BY <2>5
  <2> QED BY <2>5, <2>6
<1>3. Nat \subseteq S
  <2> HIDE DEF S
  <2> QED BY <1>1, <1>2, SetInduction
<1> QED BY <1>3, BlockFacts

LEMMA PathFacts ==
  ASSUME NEW b \in AnyBlock
  PROVE  /\ PathTo[b] \in Seq(Block) /\ Len(PathTo[b]) = Height[b]
         /\ Linked(PathTo[b]) /\ TipOf(PathTo[b]) = b
<1>1. PathTo[b] = CHOOSE c \in [1..Height[b] -> Block] : Linked(c) /\ TipOf(c) = b
  BY DEF PathTo
<1>2. PathTo[b] \in [1..Height[b] -> Block] /\ Linked(PathTo[b]) /\ TipOf(PathTo[b]) = b
  BY <1>1, PathExists
<1>3. Height[b] \in Nat
  BY BlockFacts
<1> QED BY <1>2, <1>3

\* The chain to a block of a chain is the part of it up to there.
LEMMA PathInChain ==
  ASSUME NEW c \in Seq(Block), Linked(c), NEW i \in 1..Len(c)
  PROVE  Len(PathTo[c[i]]) = i /\ \A j \in 1..i : PathTo[c[i]][j] = c[j]
<1>1. PICK b \in Block : b = c[i]
  OBVIOUS
<1>2. PICK d : d = PathTo[b]
  OBVIOUS
<1>3. d \in Seq(Block) /\ Len(d) = Height[b] /\ Linked(d) /\ TipOf(d) = b /\ Height[b] = i
  BY <1>1, <1>2, PathFacts, LinkedHeights, BlockFacts
<1>4. d[i] = c[i]
  BY <1>1, <1>3 DEF TipOf
<1>5. \A j \in 1..i : c[j] = d[j]
  BY <1>3, <1>4, LinkedUnique
<1> QED BY <1>1, <1>2, <1>3, <1>5

-----------------------------------------------------------------------------
(* What the handlers compute. *)

\* The equation of a loop, for functions that need not have their values in W.
LoopLike(iter, n, W, base, next, seq) ==
  /\ iter = [k \in 0..n |-> iter[k]] /\ iter[0] = base
  /\ \A k \in 1..n : iter[k - 1] \in W => iter[k] = next[<<iter[k - 1], seq[k]>>]

LEMMA LoopRounds ==
  ASSUME NEW W, NEW T, NEW base \in W, NEW n \in Nat, NEW seq \in [1..n -> T],
         NEW next \in [W \X T -> W], NEW iter, LoopLike(iter, n, W, base, next, seq)
  PROVE  Rounds(iter, n, W, base, next, seq)
<1> DEFINE S == {k \in Nat : k <= n => iter[k] \in W}
<1>1. 0 \in S
  BY DEF LoopLike
<1>2. ASSUME NEW k \in Nat, k \in S PROVE k + 1 \in S
  <2> SUFFICES ASSUME k + 1 <= n PROVE iter[k + 1] \in W
    OBVIOUS
  <2>1. PICK m \in 1..n : m = k + 1 /\ m - 1 = k
    OBVIOUS
  <2>2. iter[m - 1] \in W /\ seq[m] \in T
    BY <1>2, <2>1
  <2>3. iter[m] = next[<<iter[m - 1], seq[m]>>]
    BY <2>2 DEF LoopLike
  <2> QED BY <2>1, <2>2, <2>3
<1>3. Nat \subseteq S
  <2> HIDE DEF S
  <2> QED BY <1>1, <1>2, SetInduction
<1>4. \A k \in 0..n : iter[k] \in W
  BY <1>3
<1>5. iter \in [0..n -> W]
  BY <1>4 DEF LoopLike
<1>6. ASSUME NEW k \in 1..n PROVE iter[k] = next[<<iter[k - 1], seq[k]>>]
  <2>1. iter[k - 1] \in W
    BY <1>4
  <2> QED BY <2>1 DEF LoopLike
<1>7. iter[0] = base
  BY DEF LoopLike
<1> QED BY <1>5, <1>6, <1>7 DEF Rounds

\* One round of validateHeaderChain.
TakeHeader(c, new, h) == IF Height[h] < Len(c) + Len(new) + 1 THEN new ELSE Append(new, h)

NewsRounds(acc, n, c, hs) ==
  /\ acc \in [0..n -> Seq(Block)] /\ acc[0] = <<>>
  /\ \A k \in 1..n : acc[k] = TakeHeader(c, acc[k - 1], hs[k])

LEMMA NewsIs ==
  ASSUME NEW c, NEW hs \in Seq(Block), NEW n \in Nat, n = Len(hs)
  PROVE  \E acc : NewsRounds(acc, n, c, hs) /\ News(c, hs) = acc[n]
<1> DEFINE W == Seq(Block)
           next == [w \in W \X Block |-> TakeHeader(c, w[1], w[2])]
           E(f) == f = [i \in 0..n |-> IF i = 0 THEN <<>> ELSE TakeHeader(c, f[i - 1], hs[i])]
           iter == CHOOSE f : E(f)
<1>1. hs \in [1..n -> Block] /\ <<>> \in W
  OBVIOUS
<1>2. \A a \in W, h \in Block : TakeHeader(c, a, h) \in W
  BY DEF TakeHeader
<1>3. next \in [W \X Block -> W] /\ \A a \in W, h \in Block : next[<<a, h>>] = TakeHeader(c, a, h)
  BY <1>2
<1>4. News(c, hs) = iter[n]
  BY DEF News, TakeHeader
<1> HIDE DEF W, next
<1>5. PICK g : Rounds(g, n, W, <<>>, next, hs)
  BY <1>1, <1>3, RoundsExist
<1>6. E(g)
  <2>1. ASSUME NEW i \in 0..n
        PROVE  g[i] = IF i = 0 THEN <<>> ELSE TakeHeader(c, g[i - 1], hs[i])
    <3>1. CASE i = 0
      BY <1>5, <3>1 DEF Rounds
    <3>2. CASE i # 0
      <4>1. i \in 1..n /\ g[i - 1] \in W /\ hs[i] \in Block
        BY <1>5, <3>2 DEF Rounds
      <4> QED BY <1>3, <1>5, <3>2, <4>1 DEF Rounds
    <3> QED BY <3>1, <3>2
  <2> QED BY <1>5, <2>1 DEF Rounds
<1>7. E(iter)
  BY <1>6
<1> HIDE DEF iter
<1>8. /\ iter = [k \in 0..n |-> iter[k]] /\ iter[0] = <<>>
      /\ \A k \in 1..n : iter[k] = TakeHeader(c, iter[k - 1], hs[k])
  <2>1. DOMAIN iter = 0..n /\ iter = [k \in DOMAIN iter |-> iter[k]]
    BY <1>7
  <2>2. \A k \in 0..n : iter[k] = IF k = 0 THEN <<>> ELSE TakeHeader(c, iter[k - 1], hs[k])
    BY <1>7
  <2> HIDE DEF E
  <2>3. iter[0] = <<>>
    BY <2>2
  <2>4. ASSUME NEW k \in 1..n PROVE iter[k] = TakeHeader(c, iter[k - 1], hs[k])
    BY <2>2
  <2> QED BY <2>1, <2>3, <2>4
<1> HIDE DEF E
<1>9. LoopLike(iter, n, W, <<>>, next, hs)
  <2>1. ASSUME NEW k \in 1..n, iter[k - 1] \in W PROVE iter[k] = next[<<iter[k - 1], hs[k]>>]
    <3>1. hs[k] \in Block
      BY <1>1
    <3> QED BY <1>3, <1>8, <2>1, <3>1
  <2> QED BY <1>8, <2>1 DEF LoopLike
<1>10. Rounds(iter, n, W, <<>>, next, hs)
  BY <1>1, <1>3, <1>9, LoopRounds
<1>11. NewsRounds(iter, n, c, hs)
  BY <1>8, <1>10 DEF Rounds, NewsRounds, W
<1> QED BY <1>4, <1>11

\* What is asked for is not more than what was offered.
LEMMA NewsType ==
  ASSUME NEW c \in Seq(Block), NEW hs \in Seq(Block)
  PROVE  News(c, hs) \in Seq(Block) /\ Len(News(c, hs)) <= Len(hs)
<1>1. PICK n \in Nat : n = Len(hs)
  OBVIOUS
<1>2. PICK acc : NewsRounds(acc, n, c, hs) /\ News(c, hs) = acc[n]
  BY <1>1, NewsIs
<1> DEFINE S == {k \in Nat : k <= n => Len(acc[k]) <= k}
<1>3. 0 \in S
  BY <1>2 DEF NewsRounds
<1>4. ASSUME NEW k \in Nat, k \in S PROVE k + 1 \in S
  <2> SUFFICES ASSUME k + 1 <= n PROVE Len(acc[k + 1]) <= k + 1
    OBVIOUS
  <2>1. PICK m \in 1..n : m = k + 1 /\ m - 1 = k
    OBVIOUS
  <2>2. acc[m - 1] \in Seq(Block) /\ Len(acc[m - 1]) <= k /\ acc[m] = TakeHeader(c, acc[m - 1], hs[m])
    BY <1>2, <1>4, <2>1 DEF NewsRounds
  <2>3. Len(acc[m]) <= Len(acc[m - 1]) + 1
    BY <2>2 DEF TakeHeader
  <2>4. acc[m] \in Seq(Block)
    BY <1>2 DEF NewsRounds
  <2> QED BY <2>1, <2>2, <2>3, <2>4
<1>5. Nat \subseteq S
  <2> HIDE DEF S
  <2> QED BY <1>3, <1>4, SetInduction
<1>6. Len(acc[n]) <= n /\ acc[n] \in Seq(Block)
  BY <1>2, <1>5 DEF NewsRounds
<1> QED BY <1>1, <1>2, <1>6

\* On one chain the new headers are what the other chain has above this one.
LEMMA NewsOnOneChain ==
  ASSUME NEW c \in Seq(Block), NEW e \in Seq(Block), Linked(e), NEW hs \in Seq(Block),
         Segment(hs, e, Len(c))
  PROVE  \A j \in 1..Len(News(c, hs)) : Len(c) + j <= Len(e) /\ News(c, hs)[j] = e[Len(c) + j]
<1>1. PICK n \in Nat : n = Len(hs)
  OBVIOUS
<1>2. PICK acc : NewsRounds(acc, n, c, hs) /\ News(c, hs) = acc[n]
  BY <1>1, NewsIs
<1>3. PICK s \in 0..Len(c) : s + n <= Len(e) /\ \A i \in 1..n : hs[i] = e[s + i]
  BY <1>1 DEF Segment
<1>4. PICK l \in Nat : l = Len(c)
  OBVIOUS
<1> DEFINE Above(k) == /\ Len(acc[k]) = IF s + k <= l THEN 0 ELSE s + k - l
                       /\ \A j \in 1..Len(acc[k]) : acc[k][j] = e[l + j]
           S == {k \in Nat : k <= n => Above(k)}
<1>5. 0 \in S
  <2>1. acc[0] = <<>> /\ Len(acc[0]) = 0 /\ s + 0 <= l
    BY <1>2, <1>3, <1>4 DEF NewsRounds
  <2> QED BY <2>1
<1>6. ASSUME NEW k \in Nat, k \in S PROVE k + 1 \in S
  <2> SUFFICES ASSUME k + 1 <= n PROVE Above(k + 1)
    OBVIOUS
  <2>1. PICK m \in 1..n : m = k + 1 /\ m - 1 = k
    OBVIOUS
  <2>2. PICK old : old = acc[k]
    OBVIOUS
  <2>3. /\ old \in Seq(Block) /\ Len(old) = IF s + k <= l THEN 0 ELSE s + k - l
        /\ \A j \in 1..Len(old) : old[j] = e[l + j]
    BY <1>2, <1>6, <2>2 DEF NewsRounds
  <2>4. acc[m] = TakeHeader(c, old, hs[m])
    BY <1>2, <2>1, <2>2 DEF NewsRounds
  <2>5. hs[m] = e[s + m] /\ s + m \in 1..Len(e)
    BY <1>3
  <2>6. Height[hs[m]] = s + m /\ hs[m] \in Block
    BY <2>5, LinkedHeights
  <2>7. CASE s + m <= l
    <3>1. Len(old) = 0 /\ acc[m] = old
      BY <1>4, <2>1, <2>3, <2>4, <2>6, <2>7 DEF TakeHeader
    <3> QED BY <2>1, <2>3, <2>7, <3>1
  <2>8. CASE ~(s + m <= l)
    <3>1. Len(old) = s + k - l
      BY <2>1, <2>3, <2>8
    <3>2. acc[m] = Append(old, hs[m])
      BY <1>4, <2>1, <2>4, <2>6, <3>1 DEF TakeHeader
    <3>3. Len(acc[m]) = s + m - l
      <4>1. Len(acc[m]) = Len(old) + 1
        BY <2>3, <2>6, <3>2
      <4> QED BY <2>1, <3>1, <4>1
    <3>4. ASSUME NEW j \in 1..Len(acc[m]) PROVE acc[m][j] = e[l + j]
      <4>1. CASE j = s + m - l
        <5>1. j = Len(old) + 1 /\ l + j = s + m
          BY <2>1, <3>1, <4>1
        <5> QED BY <2>3, <2>5, <2>6, <3>2, <5>1
      <4>2. CASE j # s + m - l
        <5>1. j \in 1..Len(old)
          BY <2>1, <3>1, <3>3, <4>2
        <5>2. old \in Seq(Block) /\ hs[m] \in Block
          BY <2>3, <2>6
        <5>3. acc[m][j] = old[j]
          BY <3>2, <5>1, <5>2
        <5> QED BY <2>3, <5>1, <5>3
      <4> QED BY <4>1, <4>2
    <3> QED BY <2>1, <2>8, <3>3, <3>4
  <2> QED BY <2>7, <2>8
<1>7. n \in S
  <2> HIDE DEF S
  <2> QED BY <1>5, <1>6, SetInduction
<1>8. ASSUME NEW j \in 1..Len(acc[n]) PROVE l + j <= Len(e) /\ acc[n][j] = e[l + j]
  <2>1. acc[n] \in Seq(Block) /\ Len(acc[n]) = IF s + n <= l THEN 0 ELSE s + n - l
    BY <1>2, <1>7 DEF NewsRounds
  <2>2. l + j <= Len(e)
    BY <1>3, <2>1
  <2> QED BY <1>7, <2>2
<1> QED BY <1>2, <1>4, <1>8

LEMMA PrefixIs ==
  ASSUME NEW a \in Seq(Block), NEW b \in Seq(Block)
  PROVE  IsPrefix(a, b) <=> Len(a) <= Len(b) /\ \A i \in 1..Len(a) : a[i] = b[i]
<1>1. IsPrefix(a, b) <=> Len(a) <= Len(b) /\ SubSeq(a, 1, Len(a)) = SubSeq(b, 1, Len(a))
  BY DEF IsPrefix
<1>2. ASSUME Len(a) <= Len(b)
      PROVE  SubSeq(a, 1, Len(a)) = SubSeq(b, 1, Len(a)) <=> \A i \in 1..Len(a) : a[i] = b[i]
  <2>1. PICK x : x = SubSeq(a, 1, Len(a))
    OBVIOUS
  <2>2. PICK y : y = SubSeq(b, 1, Len(a))
    OBVIOUS
  <2>3. x \in Seq(Block) /\ Len(x) = Len(a) /\ \A i \in 1..Len(a) : x[i] = a[i]
    BY <2>1
  <2>4. y \in Seq(Block) /\ Len(y) = Len(a) /\ \A i \in 1..Len(a) : y[i] = b[i]
    BY <1>2, <2>2
  <2>5. x = y <=> \A i \in 1..Len(a) : x[i] = y[i]
    BY <2>3, <2>4
  <2> QED BY <2>1, <2>2, <2>3, <2>4, <2>5
<1> QED BY <1>1, <1>2

\* Headers from a longer chain with the node's own as its beginning are never refused.
LEMMA HeadersAccepted ==
  ASSUME NEW c \in Seq(Block), NEW e \in Seq(Block), Linked(e), NEW hs \in Seq(Block),
         Segment(hs, e, Len(c)), OneChain(c, e)
  PROVE  ValidateHeaderChain(c, hs)
<1>1. PICK new : new = News(c, hs)
  OBVIOUS
<1>2. new \in Seq(Block) /\ \A j \in 1..Len(new) : Len(c) + j <= Len(e) /\ new[j] = e[Len(c) + j]
  BY <1>1, NewsType, NewsOnOneChain
<1>3. ASSUME NEW i \in 1..Len(new)
      PROVE  Height[new[i]] = Len(c) + i /\ Prev[new[i]] = IF i = 1 THEN TipOf(c) ELSE new[i-1]
  <2>1. PICK m \in 1..Len(e) : m = Len(c) + i
    BY <1>2
  <2>2. new[i] = e[m] /\ Height[e[m]] = m /\ Prev[e[m]] = Before(e, m)
    BY <1>2, <2>1, LinkedHeights DEF Linked
  <2>3. CASE i = 1
    <3>1. \A k \in 1..Len(c) : c[k] = e[k]
      <4>1. Len(c) < Len(e)
        BY <2>1
      <4> QED BY <4>1, PrefixIs DEF OneChain
    <3>2. Before(e, m) = TipOf(c)
      <4>1. CASE c = <<>>
        BY <2>1, <2>3, <4>1 DEF Before, TipOf
      <4>2. CASE c # <<>>
        <5>1. Len(c) \in 1..Len(c) /\ m # 1 /\ m - 1 = Len(c)
          BY <2>1, <2>3, <4>2
        <5> QED BY <3>1, <4>2, <5>1 DEF Before, TipOf
      <4> QED BY <4>1, <4>2
    <3> QED BY <2>1, <2>2, <2>3, <3>2
  <2>4. CASE i # 1
    <3>1. i - 1 \in 1..Len(new) /\ Len(c) + (i - 1) = m - 1 /\ m # 1
      BY <1>2, <2>1, <2>4
    <3>2. new[i - 1] = e[m - 1]
      BY <1>2, <3>1
    <3> QED BY <2>1, <2>2, <2>4, <3>1, <3>2 DEF Before
  <2> QED BY <2>3, <2>4
<1> QED BY <1>1, <1>3 DEF ValidateHeaderChain

\* headersAfter answers with a part of the chain.
LEMMA HeadersAfterFacts ==
  ASSUME NEW c \in Seq(Block), NEW start \in Nat
  PROVE  /\ HeadersAfter(c, start) \in BlockLists
         /\ \A k \in Nat : start <= k => Segment(HeadersAfter(c, start), c, k)
<1>1. PICK end : end = IF start + MaxHeaders < Len(c) THEN start + MaxHeaders ELSE Len(c)
  OBVIOUS
<1>2. end \in Nat /\ end <= Len(c) /\ end <= start + MaxHeaders
  BY <1>1, SyncAssumption
<1>3. PICK hs : hs = HeadersAfter(c, start)
  OBVIOUS
<1>4. hs = SubSeq(c, start + 1, end)
  BY <1>1, <1>3 DEF HeadersAfter
<1>5. CASE end <= start
  <2>1. hs = <<>>
    BY <1>2, <1>4, <1>5
  <2>2. hs \in Seq(Block) /\ Len(hs) = 0
    BY <2>1
  <2>3. hs \in BlockLists
    BY <2>2, SyncAssumption DEF BlockLists
  <2>4. ASSUME NEW k \in Nat PROVE Segment(hs, c, k)
    <3>1. 0 \in 0..k /\ 0 + Len(hs) <= Len(c) /\ \A i \in 1..Len(hs) : hs[i] = c[0 + i]
      BY <2>2
    <3> QED BY <3>1 DEF Segment
  <2> QED BY <1>3, <2>3, <2>4
<1>6. CASE end > start
  <2>1. /\ hs \in Seq(Block) /\ Len(hs) = end - start
        /\ \A i \in 1..(end - start) : hs[i] = c[start + i]
    BY <1>2, <1>4, <1>6
  <2>2. hs \in BlockLists
    BY <1>2, <1>6, <2>1, SyncAssumption DEF BlockLists
  <2>3. ASSUME NEW k \in Nat, start <= k PROVE Segment(hs, c, k)
    <3>1. start \in 0..k /\ start + Len(hs) <= Len(c) /\ \A i \in 1..Len(hs) : hs[i] = c[start + i]
      BY <1>2, <1>6, <2>1, <2>3
    <3> QED BY <3>1 DEF Segment
  <2> QED BY <1>3, <2>2, <2>3
<1> QED BY <1>2, <1>5, <1>6

\* One round of handleGetBlocks.
SendBlock(c, sent, b) == IF InChain(c, b) THEN Append(sent, BlockMsg(b)) ELSE sent

BlockMsgsOf(c) == {BlockMsg(b) : b \in Range(c)}

\* Only blocks of the chain are sent.
LEMMA BlockMsgsIs ==
  ASSUME NEW c \in Seq(Block), NEW bs \in Seq(Block)
  PROVE  BlockMsgs(c, bs) \in Seq(BlockMsgsOf(c))
<1>1. PICK n \in Nat : n = Len(bs)
  OBVIOUS
<1> DEFINE W == Seq(BlockMsgsOf(c))
           next == [w \in W \X Block |-> SendBlock(c, w[1], w[2])]
           E(f) == f = [i \in 0..n |-> IF i = 0 THEN <<>> ELSE SendBlock(c, f[i - 1], bs[i])]
           iter == CHOOSE f : E(f)
<1>2. bs \in [1..n -> Block] /\ <<>> \in W
  BY <1>1
<1>3. \A a \in W, b \in Block : SendBlock(c, a, b) \in W
  <2> SUFFICES ASSUME NEW a \in W, NEW b \in Block, InChain(c, b) PROVE Append(a, BlockMsg(b)) \in W
    BY DEF SendBlock
  <2>1. b \in Range(c)
    BY BlockFacts DEF InChain, Range
  <2>2. BlockMsg(b) \in BlockMsgsOf(c)
    BY <2>1 DEF BlockMsgsOf
  <2> QED BY <2>2
<1>4. next \in [W \X Block -> W] /\ \A a \in W, b \in Block : next[<<a, b>>] = SendBlock(c, a, b)
  BY <1>3
<1>5. BlockMsgs(c, bs) = iter[n]
  BY <1>1 DEF BlockMsgs, SendBlock
<1> HIDE DEF W, next
<1>6. PICK g : Rounds(g, n, W, <<>>, next, bs)
  BY <1>2, <1>4, RoundsExist
<1>7. E(g)
  <2>1. ASSUME NEW i \in 0..n
        PROVE  g[i] = IF i = 0 THEN <<>> ELSE SendBlock(c, g[i - 1], bs[i])
    <3>1. CASE i = 0
      BY <1>6, <3>1 DEF Rounds
    <3>2. CASE i # 0
      <4>1. i \in 1..n /\ g[i - 1] \in W /\ bs[i] \in Block
        BY <1>2, <1>6, <3>2 DEF Rounds
      <4> QED BY <1>4, <1>6, <3>2, <4>1 DEF Rounds
    <3> QED BY <3>1, <3>2
  <2> QED BY <1>6, <2>1 DEF Rounds
<1>8. E(iter)
  BY <1>7
<1> HIDE DEF iter
<1>9. /\ iter = [k \in 0..n |-> iter[k]] /\ iter[0] = <<>>
      /\ \A k \in 1..n : iter[k] = SendBlock(c, iter[k - 1], bs[k])
  <2>1. DOMAIN iter = 0..n /\ iter = [k \in DOMAIN iter |-> iter[k]]
    BY <1>8
  <2>2. \A k \in 0..n : iter[k] = IF k = 0 THEN <<>> ELSE SendBlock(c, iter[k - 1], bs[k])
    BY <1>8
  <2> HIDE DEF E
  <2>3. iter[0] = <<>>
    <3>1. 0 \in 0..n
      OBVIOUS
    <3> QED BY <2>2, <3>1, Zenon
  <2>4. ASSUME NEW k \in 1..n PROVE iter[k] = SendBlock(c, iter[k - 1], bs[k])
    BY <2>2
  <2> QED BY <2>1, <2>3, <2>4
<1> HIDE DEF E
<1>10. LoopLike(iter, n, W, <<>>, next, bs)
  <2>1. ASSUME NEW k \in 1..n, iter[k - 1] \in W PROVE iter[k] = next[<<iter[k - 1], bs[k]>>]
    <3>1. bs[k] \in Block
      BY <1>2
    <3> QED BY <1>4, <1>9, <2>1, <3>1
  <2> QED BY <1>9, <2>1 DEF LoopLike
<1>11. Rounds(iter, n, W, <<>>, next, bs)
  BY <1>2, <1>4, <1>10, LoopRounds
<1> QED BY <1>5, <1>11 DEF Rounds, W

-----------------------------------------------------------------------------
(* Messages and the two ends. *)

LEMMA NodeFacts ==
  /\ Dialler \in Node /\ Listener \in Node /\ Dialler # Listener
  /\ Other(Dialler) = Listener /\ Other(Listener) = Dialler
  /\ \A n \in Node : /\ n = Dialler \/ n = Listener
                     /\ Other(n) \in Node /\ Other(n) # n /\ Other(Other(n)) = n
                     /\ \A m \in Node : m = n \/ m = Other(n)
BY SyncAssumption DEF Node, Other

\* What a message read has in it.
LEMMA MessageIs ==
  ASSUME NEW m \in Message
  PROVE  /\ m.type = "version" => m.height \in Heights
         /\ m.type = "getheaders" => m.start \in Heights
         /\ m.type = "headers" => m.headers \in BlockLists
         /\ m.type = "getblocks" => m.hashes \in BlockLists
         /\ m.type \in {"inv", "getdata"} => m.hash \in Block
         /\ m.type = "block" => m.block \in Block
BY DEF Message

LEMMA HandshakeMsgs ==
  /\ \A h \in Heights : Version(h) \in Message /\ Version(h).type = "version"
  /\ VerAck \in Message /\ VerAck.type = "verack"
BY DEF Message, Version, VerAck

LEMMA SyncMsgs ==
  /\ \A h \in Heights : GetHeaders(h) \in SyncMsg /\ GetHeaders(h).type = "getheaders" /\ GetHeaders(h).start = h
  /\ \A hs \in BlockLists : Headers(hs) \in SyncMsg /\ Headers(hs).type = "headers" /\ Headers(hs).headers = hs
  /\ \A bs \in BlockLists : GetBlocks(bs) \in SyncMsg /\ GetBlocks(bs).type = "getblocks"
  /\ \A b \in Block : /\ Inv(b) \in SyncMsg /\ Inv(b).type = "inv"
                      /\ GetData(b) \in SyncMsg /\ GetData(b).type = "getdata"
                      /\ BlockMsg(b) \in SyncMsg /\ BlockMsg(b).type = "block" /\ BlockMsg(b).block = b
<1>1. \A h \in Heights : GetHeaders(h) \in SyncMsg /\ GetHeaders(h).type = "getheaders" /\ GetHeaders(h).start = h
  BY DEF Message, SyncMsg, SyncTypes, GetHeaders
<1>2. \A hs \in BlockLists : Headers(hs) \in SyncMsg /\ Headers(hs).type = "headers" /\ Headers(hs).headers = hs
  BY DEF Message, SyncMsg, SyncTypes, Headers
<1>3. \A bs \in BlockLists : GetBlocks(bs) \in SyncMsg /\ GetBlocks(bs).type = "getblocks"
  BY DEF Message, SyncMsg, SyncTypes, GetBlocks
<1>4. ASSUME NEW b \in Block
      PROVE  /\ Inv(b) \in SyncMsg /\ Inv(b).type = "inv"
             /\ GetData(b) \in SyncMsg /\ GetData(b).type = "getdata"
             /\ BlockMsg(b) \in SyncMsg /\ BlockMsg(b).type = "block" /\ BlockMsg(b).block = b
  <2>1. Inv(b) \in SyncMsg /\ Inv(b).type = "inv"
    BY DEF Message, SyncMsg, SyncTypes, Inv
  <2>2. GetData(b) \in SyncMsg /\ GetData(b).type = "getdata"
    BY DEF Message, SyncMsg, SyncTypes, GetData
  <2>3. BlockMsg(b) \in SyncMsg /\ BlockMsg(b).type = "block" /\ BlockMsg(b).block = b
    BY DEF Message, SyncMsg, SyncTypes, BlockMsg
  <2> QED BY <2>1, <2>2, <2>3
<1> QED BY <1>1, <1>2, <1>3, <1>4

LEMMA SyncMsgType == SyncMsg \subseteq Message /\ \A m \in SyncMsg : m.type \in SyncTypes
BY DEF SyncMsg

\* Wider sets have wider sequences.
LEMMA SeqWiden ==
  ASSUME NEW S, NEW T, S \subseteq T, NEW s \in Seq(S)
  PROVE  s \in Seq(T)
<1>1. s \in [1..Len(s) -> S] /\ Len(s) \in Nat
  OBVIOUS
<1>2. s \in [1..Len(s) -> T]
  BY <1>1
<1> QED BY <1>1, <1>2

\* Both ends are past the handshake.
Steady ==
  \A n \in Node : phase[n] \in {"active", "closed", "reset"} /\ channel[n] \in Seq(SyncMsg)

LEMMA SteadyHandshake ==
  Steady <=> /\ phase[Dialler] \in {"active", "closed", "reset"}
             /\ phase[Listener] \in {"active", "closed", "reset"}
             /\ channel[Dialler] \in Seq(SyncMsg) /\ channel[Listener] \in Seq(SyncMsg)
BY NodeFacts DEF Steady

\* Whoever has a message to read and is active, or sees the other end closed, is past it.
LEMMA ReaderSteady ==
  ASSUME ConnOK, NEW n \in Node,
         \/ phase[n] = "active" /\ channel[n] # <<>>
         \/ Closed(Other(n)) \/ Closed(n)
         \/ \A m \in Node : phase[m] = "active"
  PROVE  Steady
<1>1. (n = Dialler /\ Other(n) = Listener) \/ (n = Listener /\ Other(n) = Dialler)
  BY NodeFacts
<1> QED BY <1>1, NodeFacts, SteadyHandshake DEF ConnOK, Handshake, Closed, Alone

\* What a step past the handshake has to keep.
LEMMA SteadyConn ==
  ASSUME ConnOK, Steady', UNCHANGED <<ownHeight, announced>>,
         phase' \in [Node -> {"closed", "reset", "version", "verack", "active"}],
         channel' \in [Node -> Seq(Message)], score' \in [Node -> 0..BanThreshold]
  PROVE  ConnOK'
<1>1. /\ phase[Dialler]' \in {"active", "closed", "reset"} /\ phase[Listener]' \in {"active", "closed", "reset"}
      /\ channel[Dialler]' \in Seq(SyncMsg) /\ channel[Listener]' \in Seq(SyncMsg)
  BY NodeFacts DEF Steady
<1> QED BY <1>1 DEF ConnOK, Handshake

LEMMA HangUpConn ==
  ASSUME ConnOK, NEW n \in Node, Steady, NEW points \in 0..BanThreshold, HangUp(n, points)
  PROVE  ConnOK'
<1>1. score' \in [Node -> 0..BanThreshold]
  <2>1. score \in [Node -> 0..2] /\ points \in 0..2
    BY DEF ConnOK, BanThreshold
  <2>2. PICK v : v = IF score[n] + points > 2 THEN 2 ELSE score[n] + points
    OBVIOUS
  <2>3. v \in 0..2
    BY <2>1, <2>2
  <2>4. score' = [score EXCEPT ![n] = v]
    BY <2>2 DEF HangUp, Charge, BanThreshold
  <2> QED BY <2>1, <2>3, <2>4 DEF BanThreshold
<1>2. phase' \in [Node -> {"closed", "reset", "version", "verack", "active"}]
  BY DEF ConnOK, HangUp
<1>3. channel' \in [Node -> Seq(Message)]
  BY DEF ConnOK, HangUp
<1>4. Steady'
  <2>1. phase[n]' \in {"closed", "reset"} /\ channel[n]' = <<>>
    BY DEF ConnOK, HangUp
  <2>2. \A m \in Node : m # n => phase[m]' = phase[m] /\ channel[m]' = channel[m]
    BY DEF ConnOK, HangUp
  <2>3. ASSUME NEW m \in Node PROVE phase[m]' \in {"active", "closed", "reset"} /\ channel[m]' \in Seq(SyncMsg)
    <3>1. CASE m = n
      <4>1. <<>> \in Seq(SyncMsg)
        OBVIOUS
      <4>2. phase'[m] \in {"closed", "reset"} /\ channel'[m] = <<>>
        BY <2>1, <3>1
      <4> QED BY <4>1, <4>2
    <3>2. CASE m # n
      BY <2>2, <3>2 DEF Steady
    <3> QED BY <3>1, <3>2
  <2> QED BY <2>3 DEF Steady
<1> QED BY <1>1, <1>2, <1>3, <1>4, SteadyConn DEF HangUp

\* A message is read and msgs are sent.
LEMMA ReplyShape ==
  ASSUME ConnOK, NEW n \in Node, channel[n] # <<>>, NEW msgs \in Seq(Message),
         channel' = [Received(n) EXCEPT ![Other(n)] = @ \o msgs]
  PROVE  /\ channel' \in [Node -> Seq(Message)]
         /\ channel'[n] = Tail(channel[n]) /\ channel'[Other(n)] = channel[Other(n)] \o msgs
<1>1. n \in Node /\ Other(n) \in Node /\ n # Other(n)
  BY NodeFacts
<1>2. channel \in [Node -> Seq(Message)]
  BY DEF ConnOK
<1>3. Tail(channel[n]) \in Seq(Message) /\ channel[Other(n)] \o msgs \in Seq(Message)
  BY <1>1, <1>2
<1>4. Received(n) \in [Node -> Seq(Message)] /\ Received(n)[n] = Tail(channel[n])
      /\ Received(n)[Other(n)] = channel[Other(n)]
  BY <1>1, <1>2, <1>3 DEF Received
<1> HIDE DEF Received
<1> QED BY <1>1, <1>3, <1>4

LEMMA AnswerConn ==
  ASSUME ConnOK, NEW n \in Node, phase[n] = "active", channel[n] # <<>>,
         NEW msgs \in Seq(SyncMsg), NEW points \in 0..BanThreshold, Answer(n, msgs, points)
  PROVE  ConnOK'
<1>1. Steady
  BY ReaderSteady
<1>2. Other(n) \in Node /\ Other(n) # n /\ \A m \in Node : m = n \/ m = Other(n)
  BY NodeFacts
<1>3. msgs \in Seq(Message)
  BY SyncMsgType, SeqWiden
<1>4. CASE /\ channel' = [Received(n) EXCEPT ![Other(n)] = @ \o msgs]
           /\ UNCHANGED <<phase, ownHeight, announced, score>>
  <2>1. /\ channel' \in [Node -> Seq(Message)]
        /\ channel'[n] = Tail(channel[n]) /\ channel'[Other(n)] = channel[Other(n)] \o msgs
    BY <1>3, <1>4, ReplyShape
  <2>2. channel'[n] \in Seq(SyncMsg) /\ channel'[Other(n)] \in Seq(SyncMsg)
    BY <1>1, <1>2, <2>1 DEF Steady
  <2>3. Steady'
    BY <1>1, <1>2, <1>4, <2>2 DEF Steady
  <2> QED BY <1>4, <2>1, <2>3, SteadyConn DEF ConnOK
<1>5. CASE HangUp(n, points)
  BY <1>1, <1>5, HangUpConn
<1>6. CASE channel' = Received(n) /\ UNCHANGED <<phase, ownHeight, announced, score>>
  <2>1. /\ channel' \in [Node -> Seq(Message)]
        /\ channel'[n] = Tail(channel[n]) /\ channel'[Other(n)] = channel[Other(n)]
    BY <1>2, <1>6 DEF ConnOK, Received
  <2>2. channel'[n] \in Seq(SyncMsg) /\ channel'[Other(n)] \in Seq(SyncMsg)
    BY <1>1, <1>2, <2>1 DEF Steady
  <2>3. Steady'
    BY <1>1, <1>2, <1>6, <2>2 DEF Steady
  <2> QED BY <1>6, <2>1, <2>3, SteadyConn DEF ConnOK
<1> QED BY <1>4, <1>5, <1>6 DEF Answer

-----------------------------------------------------------------------------
(* The connection keeps its shape. *)

\* Readers and what they read.
LEMMA ReadsFacts ==
  ASSUME ConnOK, NEW n \in Node, NEW type, Reads(n, type)
  PROVE  /\ phase[n] = "active" /\ channel[n] # <<>>
         /\ Head(channel[n]) \in Message /\ Head(channel[n]).type = type
<1>1. channel[n] \in Seq(Message) /\ channel[n] # <<>>
  BY DEF ConnOK, Reads
<1> QED BY <1>1 DEF Reads

LEMMA HeightsNat == Heights \subseteq Nat
BY BlockFacts DEF Heights

LEMMA ConnectConn ==
  ASSUME NodesOK, ConnOK, Connect
  PROVE  ConnOK'
<1>1. \A n \in Node : Len(chain[n]) \in Heights
  BY TipFacts DEF NodesOK
<1>2. Dialler \in Node /\ Listener \in Node /\ Dialler # Listener
  BY NodeFacts
<1>3. PICK v : v = Version(Len(chain[Dialler]))
  OBVIOUS
<1>4. v \in Message /\ v.type = "version"
  BY <1>1, <1>2, <1>3, HandshakeMsgs
<1>5. channel' = [n \in Node |-> IF n = Dialler THEN <<>> ELSE <<v>>]
  BY <1>3 DEF Connect
<1>6. channel' \in [Node -> Seq(Message)] /\ channel'[Dialler] = <<>> /\ channel'[Listener] = <<v>>
  BY <1>2, <1>4, <1>5
<1>7. Alone(<<v>>, "version")
  BY <1>4 DEF Alone
<1>8. phase'[Dialler] = "version" /\ phase'[Listener] = "version"
  BY <1>2 DEF Connect
<1>9. Handshake(phase'[Dialler], phase'[Listener], channel'[Dialler], channel'[Listener])
  BY <1>6, <1>7, <1>8 DEF Handshake
<1>10. ownHeight' \in [Node -> Heights]
  BY <1>1 DEF Connect
<1>11. phase' \in [Node -> {"closed", "reset", "version", "verack", "active"}]
  BY DEF Connect
<1> QED BY <1>6, <1>9, <1>10, <1>11 DEF ConnOK, Connect

\* What an end sends in answer to a version.
VersionReply(n) == IF n = Dialler THEN VerAck ELSE Version(ownHeight[n])

LEMMA ReadVersionShape ==
  ASSUME ConnOK, NEW n \in Node, ReadVersion(n)
  PROVE  /\ channel[n] # <<>> /\ phase[n] = "version"
         /\ VersionReply(n) \in Message
         /\ VersionReply(n).type = IF n = Dialler THEN "verack" ELSE "version"
         /\ channel' \in [Node -> Seq(Message)]
         /\ channel'[n] = Tail(channel[n]) /\ channel'[Other(n)] = channel[Other(n)] \o <<VersionReply(n)>>
         /\ phase' \in [Node -> {"closed", "reset", "version", "verack", "active"}]
         /\ phase'[n] = "verack" /\ phase'[Other(n)] = phase[Other(n)]
<1>1. PICK msg : msg = VersionReply(n)
  OBVIOUS
<1>2. ownHeight[n] \in Heights /\ channel[n] # <<>> /\ phase[n] = "version"
  BY DEF ConnOK, ReadVersion
<1>3. msg \in Message /\ msg.type = IF n = Dialler THEN "verack" ELSE "version"
  BY <1>1, <1>2, HandshakeMsgs DEF VersionReply
<1>4. channel[Other(n)] \in Seq(Message)
  BY NodeFacts DEF ConnOK
<1>5. PICK msgs : msgs = <<msg>>
  OBVIOUS
<1>6. msgs \in Seq(Message) /\ msgs # <<>> /\ Head(msgs) = msg /\ Tail(msgs) = <<>>
  BY <1>3, <1>5
<1>7. Append(channel[Other(n)], msg) = channel[Other(n)] \o msgs
  BY <1>3, <1>4, <1>5
<1>8. Received(n)[Other(n)] = channel[Other(n)] /\ Received(n) \in [Node -> Seq(Message)]
  BY <1>2, NodeFacts DEF Received, ConnOK
<1>9. channel' = [Received(n) EXCEPT ![Other(n)] = Append(@, msg)]
  BY <1>1 DEF ReadVersion, VersionReply
<1>10. channel' = [Received(n) EXCEPT ![Other(n)] = @ \o msgs]
  BY <1>7, <1>8, <1>9
<1>11. /\ channel' \in [Node -> Seq(Message)]
       /\ channel'[n] = Tail(channel[n]) /\ channel'[Other(n)] = channel[Other(n)] \o msgs
  BY <1>2, <1>6, <1>10, ReplyShape
<1>12. /\ phase' \in [Node -> {"closed", "reset", "version", "verack", "active"}]
       /\ phase'[n] = "verack" /\ phase'[Other(n)] = phase[Other(n)]
  BY NodeFacts DEF ReadVersion, ConnOK
<1> QED BY <1>1, <1>2, <1>3, <1>5, <1>11, <1>12

LEMMA ReadVersionConn ==
  ASSUME ConnOK, NEW n \in Node, ReadVersion(n)
  PROVE  ConnOK'
<1>1. channel[n] # <<>> /\ phase[n] = "version"
  BY ReadVersionShape
<1>2. PICK msg : msg = VersionReply(n)
  OBVIOUS
<1>3. msg \in Message /\ msg.type = IF n = Dialler THEN "verack" ELSE "version"
  BY <1>2, ReadVersionShape
<1>4. PICK msgs : msgs = <<msg>>
  OBVIOUS
<1>5. msgs \in Seq(Message) /\ msgs # <<>> /\ Head(msgs) = msg /\ Tail(msgs) = <<>>
  BY <1>3, <1>4
<1>6. /\ channel' \in [Node -> Seq(Message)]
       /\ channel'[n] = Tail(channel[n]) /\ channel'[Other(n)] = channel[Other(n)] \o msgs
  BY <1>2, <1>4, ReadVersionShape
<1>7. /\ phase' \in [Node -> {"closed", "reset", "version", "verack", "active"}]
       /\ phase'[n] = "verack" /\ phase'[Other(n)] = phase[Other(n)]
  BY ReadVersionShape
<1>8. Handshake(phase[Dialler], phase[Listener], channel[Dialler], channel[Listener])
  BY DEF ConnOK
<1>9. CASE n = Dialler
  <2>1. phase[Listener] = "verack" /\ Alone(channel[Dialler], "version") /\ channel[Listener] = <<>>
    BY <1>1, <1>8, <1>9 DEF Handshake
  <2>2. channel'[Dialler] = <<>> /\ channel'[Listener] = msgs /\ phase'[Dialler] = "verack" /\ phase'[Listener] = "verack"
    <3>1. Other(n) = Listener
      BY <1>9, NodeFacts
    <3>2. <<>> \o msgs = msgs
      BY <1>5, ConcatEmptySeq
    <3> QED BY <1>6, <1>7, <1>9, <2>1, <3>1, <3>2 DEF Alone
  <2>3. Alone(channel'[Listener], "verack")
    BY <1>3, <1>5, <1>9, <2>2 DEF Alone
  <2>4. Handshake(phase'[Dialler], phase'[Listener], channel'[Dialler], channel'[Listener])
    BY <2>2, <2>3 DEF Handshake
  <2>5. Head(channel[n]).height \in Heights
    BY <1>1, <1>9, <2>1, MessageIs DEF Alone, ConnOK
  <2> QED BY <1>6, <1>7, <2>4, <2>5 DEF ConnOK, ReadVersion
<1>10. CASE n = Listener
  <2>1. phase[Dialler] = "version" /\ Alone(channel[Listener], "version") /\ channel[Dialler] = <<>>
    BY <1>1, <1>8, <1>10 DEF Handshake
  <2>2. channel'[Listener] = <<>> /\ channel'[Dialler] = msgs /\ phase'[Listener] = "verack" /\ phase'[Dialler] = "version"
    <3>1. Other(n) = Dialler
      BY <1>10, NodeFacts
    <3>2. <<>> \o msgs = msgs
      BY <1>5, ConcatEmptySeq
    <3> QED BY <1>6, <1>7, <1>10, <2>1, <3>1, <3>2 DEF Alone
  <2>3. Alone(channel'[Dialler], "version")
    BY <1>3, <1>5, <1>10, <2>2, NodeFacts DEF Alone
  <2>4. Handshake(phase'[Dialler], phase'[Listener], channel'[Dialler], channel'[Listener])
    BY <2>2, <2>3 DEF Handshake
  <2>5. Head(channel[n]).height \in Heights
    BY <1>1, <1>10, <2>1, MessageIs DEF Alone, ConnOK
  <2> QED BY <1>6, <1>7, <2>4, <2>5 DEF ConnOK, ReadVersion
<1> QED BY <1>9, <1>10, NodeFacts

\* What an end sends when its handshake ends.
Ack(n) == IF n = Dialler THEN <<>> ELSE <<VerAck>>
Ask(n) == IF Behind(n) THEN <<GetHeaders(Len(chain[n]))>> ELSE <<>>

LEMMA ExpectVerAckShape ==
  ASSUME NodesOK, ConnOK, NEW n \in Node, ExpectVerAck(n)
  PROVE  /\ channel[n] # <<>> /\ phase[n] = "verack"
         /\ Ack(n) \in Seq(Message) /\ Ask(n) \in Seq(SyncMsg) /\ Ask(n) \in Seq(Message)
         /\ channel' \in [Node -> Seq(Message)]
         /\ channel'[n] = Tail(channel[n]) /\ channel'[Other(n)] = channel[Other(n)] \o (Ack(n) \o Ask(n))
         /\ phase' \in [Node -> {"closed", "reset", "version", "verack", "active"}]
         /\ phase'[n] = "active" /\ phase'[Other(n)] = phase[Other(n)]
<1>1. PICK ack : ack = Ack(n)
  OBVIOUS
<1>2. PICK ask : ask = Ask(n)
  OBVIOUS
<1>3. ask \in Seq(SyncMsg)
  <2>1. Len(chain[n]) \in Heights
    BY TipFacts DEF NodesOK
  <2>2. GetHeaders(Len(chain[n])) \in SyncMsg
    BY <2>1, SyncMsgs
  <2> QED BY <1>2, <2>2 DEF Ask
<1>4. ask \in Seq(Message)
  BY <1>3, SyncMsgType, SeqWiden
<1>5. ack \in Seq(Message)
  BY <1>1, HandshakeMsgs DEF Ack
<1>6. channel[Other(n)] \in Seq(Message) /\ channel[n] # <<>> /\ phase[n] = "verack"
  BY NodeFacts DEF ConnOK, ExpectVerAck
<1>7. PICK msgs : msgs = ack \o ask
  OBVIOUS
<1>8. msgs \in Seq(Message)
  BY <1>4, <1>5, <1>7
<1>9. channel[Other(n)] \o ack \o ask = channel[Other(n)] \o msgs
  <2>1. PICK base \in Seq(Message) : base = channel[Other(n)]
    BY <1>6
  <2>2. (base \o ack) \o ask = base \o (ack \o ask)
    BY <1>4, <1>5, ConcatAssociative
  <2> QED BY <1>7, <2>1, <2>2
<1>10. Received(n)[Other(n)] = channel[Other(n)] /\ Received(n) \in [Node -> Seq(Message)]
  BY <1>6, NodeFacts DEF Received, ConnOK
<1>11. channel' = [Received(n) EXCEPT ![Other(n)] = @ \o ack \o ask]
  BY <1>1, <1>2 DEF ExpectVerAck, Ack, Ask
<1>12. channel' = [Received(n) EXCEPT ![Other(n)] = @ \o msgs]
  BY <1>9, <1>10, <1>11
<1>13. /\ channel' \in [Node -> Seq(Message)]
       /\ channel'[n] = Tail(channel[n]) /\ channel'[Other(n)] = channel[Other(n)] \o msgs
  BY <1>6, <1>8, <1>12, ReplyShape
<1>14. /\ phase' \in [Node -> {"closed", "reset", "version", "verack", "active"}]
       /\ phase'[n] = "active" /\ phase'[Other(n)] = phase[Other(n)]
  BY NodeFacts DEF ExpectVerAck, ConnOK
<1> QED BY <1>1, <1>2, <1>3, <1>4, <1>5, <1>6, <1>7, <1>13, <1>14

LEMMA ExpectVerAckConn ==
  ASSUME NodesOK, ConnOK, NEW n \in Node, ExpectVerAck(n)
  PROVE  ConnOK'
<1>1. PICK ack : ack = Ack(n)
  OBVIOUS
<1>2. PICK ask : ask = Ask(n)
  OBVIOUS
<1>3. ask \in Seq(SyncMsg)
  BY <1>2, ExpectVerAckShape
<1>4. ask \in Seq(Message)
  BY <1>2, ExpectVerAckShape
<1>5. ack \in Seq(Message)
  BY <1>1, ExpectVerAckShape
<1>6. channel[n] # <<>> /\ phase[n] = "verack"
  BY ExpectVerAckShape
<1>7. PICK msgs : msgs = ack \o ask
  OBVIOUS
<1>8. msgs \in Seq(Message)
  BY <1>4, <1>5, <1>7
<1>9. /\ channel' \in [Node -> Seq(Message)]
       /\ channel'[n] = Tail(channel[n]) /\ channel'[Other(n)] = channel[Other(n)] \o msgs
  BY <1>1, <1>2, <1>7, ExpectVerAckShape
<1>10. /\ phase' \in [Node -> {"closed", "reset", "version", "verack", "active"}]
       /\ phase'[n] = "active" /\ phase'[Other(n)] = phase[Other(n)]
  BY ExpectVerAckShape
<1>11. Handshake(phase[Dialler], phase[Listener], channel[Dialler], channel[Listener])
  BY DEF ConnOK
<1>12. CASE n = Dialler
  <2>1. phase[Listener] = "active" /\ Tail(channel[Dialler]) \in Seq(SyncMsg) /\ channel[Listener] = <<>>
    BY <1>6, <1>11, <1>12 DEF Handshake
  <2>2. msgs = ask
    BY <1>1, <1>4, <1>7, <1>12, ConcatEmptySeq DEF Ack
  <2>3. channel'[Dialler] \in Seq(SyncMsg) /\ channel'[Listener] = ask
    <3>1. Other(n) = Listener
      BY <1>12, NodeFacts
    <3>2. <<>> \o ask = ask
      BY <1>4, ConcatEmptySeq
    <3> QED BY <1>9, <1>12, <2>1, <2>2, <3>1, <3>2
  <2>4. phase'[Dialler] = "active" /\ phase'[Listener] = "active"
    BY <1>10, <1>12, <2>1, NodeFacts
  <2>5. Handshake(phase'[Dialler], phase'[Listener], channel'[Dialler], channel'[Listener])
    BY <1>3, <2>3, <2>4 DEF Handshake
  <2> QED BY <1>9, <1>10, <2>5 DEF ConnOK, ExpectVerAck
<1>13. CASE n = Listener
  <2>1. phase[Dialler] = "verack" /\ channel[Dialler] = <<>> /\ Alone(channel[Listener], "verack")
    BY <1>6, <1>11, <1>13 DEF Handshake
  <2>2. msgs = <<VerAck>> \o ask
    BY <1>1, <1>7, <1>13, NodeFacts DEF Ack
  <2>3. msgs # <<>> /\ Head(msgs) = VerAck /\ Tail(msgs) = ask
    BY <1>4, <2>2, HandshakeMsgs
  <2>4. channel'[Listener] = <<>> /\ channel'[Dialler] = msgs
    <3>1. Other(n) = Dialler
      BY <1>13, NodeFacts
    <3>2. <<>> \o msgs = msgs
      BY <1>8, ConcatEmptySeq
    <3> QED BY <1>9, <1>13, <2>1, <3>1, <3>2 DEF Alone
  <2>5. phase'[Dialler] = "verack" /\ phase'[Listener] = "active"
    BY <1>10, <1>13, <2>1, NodeFacts
  <2>6. Handshake(phase'[Dialler], phase'[Listener], channel'[Dialler], channel'[Listener])
    BY <1>3, <2>3, <2>4, <2>5, HandshakeMsgs DEF Handshake
  <2> QED BY <1>9, <1>10, <2>6 DEF ConnOK, ExpectVerAck
<1> QED BY <1>12, <1>13, NodeFacts

LEMMA SendConn ==
  ASSUME ConnOK, NEW n \in Node, phase[n] = "active", ~Closed(Other(n)), NEW msg \in SyncMsg,
         channel' = [channel EXCEPT ![Other(n)] = Append(@, msg)],
         UNCHANGED <<phase, ownHeight, announced, score>>
  PROVE  ConnOK'
<1>1. channel \in [Node -> Seq(Message)] /\ msg \in Message
  BY SyncMsgType DEF ConnOK
<1>2. /\ channel' \in [Node -> Seq(Message)]
      /\ channel'[n] = channel[n] /\ channel'[Other(n)] = Append(channel[Other(n)], msg)
  BY <1>1, NodeFacts
<1>3. Handshake(phase[Dialler], phase[Listener], channel[Dialler], channel[Listener])
  BY DEF ConnOK
<1>4. CASE Steady
  <2>1. channel'[Other(n)] \in Seq(SyncMsg)
    BY <1>2, <1>4, NodeFacts DEF Steady
  <2>2. Steady'
    BY <1>2, <1>4, <2>1, NodeFacts DEF Steady
  <2> QED BY <1>2, <2>2, SteadyConn DEF ConnOK
<1>5. CASE ~Steady
  <2>1. /\ phase[Dialler] = "verack" /\ phase[Listener] = "active" /\ n = Listener
        /\ channel[Dialler] # <<>> /\ Head(channel[Dialler]).type = "verack"
        /\ Tail(channel[Dialler]) \in Seq(SyncMsg) /\ channel[Listener] = <<>>
    BY <1>3, <1>5, NodeFacts, SteadyHandshake DEF Handshake
  <2>2. PICK old \in Seq(Message) : old = channel[Dialler]
    BY <1>1, NodeFacts
  <2>3. PICK new : new = Append(old, msg)
    OBVIOUS
  <2>4. new # <<>> /\ Head(new) = Head(old) /\ Tail(new) = Append(Tail(old), msg)
    <3>1. new # <<>>
      BY <1>1, <2>3
    <3> QED BY <2>1, <2>2, <2>3, <3>1, HeadTailAppend
  <2>5. channel'[Dialler] = new /\ channel'[Listener] = <<>>
    BY <1>2, <2>1, <2>2, <2>3, NodeFacts
  <2>6. Tail(new) \in Seq(SyncMsg)
    <3>1. PICK rest \in Seq(SyncMsg) : rest = Tail(old)
      BY <2>1, <2>2
    <3>2. Append(rest, msg) \in Seq(SyncMsg)
      OBVIOUS
    <3> QED BY <2>4, <3>1, <3>2
  <2>7. Handshake(phase'[Dialler], phase'[Listener], channel'[Dialler], channel'[Listener])
    BY <2>1, <2>2, <2>4, <2>5, <2>6 DEF Handshake
  <2> QED BY <1>2, <2>7 DEF ConnOK
<1> QED BY <1>4, <1>5

LEMMA ReceiveConn ==
  ASSUME ConnOK, NEW n \in Node, phase[n] = "active", channel[n] # <<>>,
         channel' = Received(n), UNCHANGED <<phase, ownHeight, announced, score>>
  PROVE  /\ ConnOK' /\ channel'[n] = Tail(channel[n]) /\ channel'[Other(n)] = channel[Other(n)]
<1>1. Steady
  BY ReaderSteady
<1>2. Other(n) \in Node /\ Other(n) # n /\ \A m \in Node : m = n \/ m = Other(n)
  BY NodeFacts
<1>3. /\ channel' \in [Node -> Seq(Message)]
      /\ channel'[n] = Tail(channel[n]) /\ channel'[Other(n)] = channel[Other(n)]
  BY <1>2 DEF ConnOK, Received
<1>4. channel'[n] \in Seq(SyncMsg) /\ channel'[Other(n)] \in Seq(SyncMsg)
  BY <1>1, <1>2, <1>3 DEF Steady
<1>5. Steady'
  BY <1>1, <1>2, <1>4 DEF Steady
<1> QED BY <1>3, <1>5, SteadyConn DEF ConnOK

\* A list in a message is as long as its reader accepts.
LEMMA ListIs == \A bs \in BlockLists : bs \in Seq(Block) /\ Len(bs) <= MaxHeaders
BY DEF BlockLists

\* The answers, as messages.
LEMMA HeadersReply ==
  ASSUME NodesOK, ConnOK, NEW n \in Node, Reads(n, "getheaders"),
         NEW hs, hs = HeadersAfter(chain[n], Head(channel[n]).start)
  PROVE  hs \in BlockLists /\ <<Headers(hs)>> \in Seq(SyncMsg)
<1>1. Head(channel[n]) \in Message /\ Head(channel[n]).type = "getheaders"
  BY ReadsFacts
<1>2. Head(channel[n]).start \in Nat
  BY <1>1, MessageIs, HeightsNat
<1>3. chain[n] \in Seq(Block)
  BY DEF NodesOK
<1>4. hs \in BlockLists
  BY <1>2, <1>3, HeadersAfterFacts
<1>5. Headers(hs) \in SyncMsg
  BY <1>4, SyncMsgs
<1> QED BY <1>4, <1>5

LEMMA GetBlocksReply ==
  ASSUME NodesOK, ConnOK, NEW n \in Node, Reads(n, "headers"),
         NEW new, new = News(chain[n], Head(channel[n]).headers)
  PROVE  /\ (IF new = <<>> THEN <<>> ELSE <<GetBlocks(new)>>) \in Seq(SyncMsg)
         /\ new \in BlockLists /\ Head(channel[n]).headers \in Seq(Block)
<1>1. Head(channel[n]) \in Message /\ Head(channel[n]).type = "headers"
  BY ReadsFacts
<1>2. Head(channel[n]).headers \in BlockLists
  BY <1>1, MessageIs
<1>3. PICK hs : hs = Head(channel[n]).headers
  OBVIOUS
<1>4. hs \in Seq(Block) /\ Len(hs) <= MaxHeaders
  BY <1>2, <1>3, ListIs
<1>5. chain[n] \in Seq(Block)
  BY DEF NodesOK
<1>6. new \in Seq(Block) /\ Len(new) <= Len(hs)
  BY <1>3, <1>4, <1>5, NewsType
<1>7. new \in BlockLists
  BY <1>4, <1>6, SyncAssumption DEF BlockLists
<1>8. GetBlocks(new) \in SyncMsg
  BY <1>7, SyncMsgs
<1> QED BY <1>3, <1>4, <1>7, <1>8

LEMMA BlocksReply ==
  ASSUME NodesOK, NEW n \in Node, NEW bs \in Seq(Block)
  PROVE  BlockMsgs(chain[n], bs) \in Seq(SyncMsg)
<1>1. PICK c \in Seq(Block) : c = chain[n]
  BY DEF NodesOK
<1>2. \A b \in Range(c) : b \in Block
  BY DEF Range
<1>3. BlockMsgsOf(c) \subseteq SyncMsg
  BY <1>2, SyncMsgs DEF BlockMsgsOf
<1>4. BlockMsgs(c, bs) \in Seq(BlockMsgsOf(c))
  BY BlockMsgsIs
<1> QED BY <1>1, <1>3, <1>4, SeqWiden

\* What the readers of getblocks, inv, getdata and block messages find in them.
LEMMA BodiesRead ==
  ASSUME ConnOK, NEW n \in Node
  PROVE  /\ Reads(n, "getblocks") => Head(channel[n]).hashes \in Seq(Block)
         /\ Reads(n, "inv") \/ Reads(n, "getdata") => Head(channel[n]).hash \in Block
         /\ Reads(n, "block") => Head(channel[n]).block \in Block
<1>1. ASSUME Reads(n, "getblocks") PROVE Head(channel[n]).hashes \in Seq(Block)
  <2>1. Head(channel[n]) \in Message /\ Head(channel[n]).type = "getblocks"
    BY <1>1, ReadsFacts
  <2> QED BY <2>1, MessageIs, ListIs
<1>2. ASSUME Reads(n, "inv") \/ Reads(n, "getdata") PROVE Head(channel[n]).hash \in Block
  <2>1. Head(channel[n]) \in Message /\ Head(channel[n]).type \in {"inv", "getdata"}
    BY <1>2, ReadsFacts
  <2> QED BY <2>1, MessageIs
<1>3. ASSUME Reads(n, "block") PROVE Head(channel[n]).block \in Block
  <2>1. Head(channel[n]) \in Message /\ Head(channel[n]).type = "block"
    BY <1>3, ReadsFacts
  <2> QED BY <2>1, MessageIs
<1> QED BY <1>1, <1>2, <1>3

\* A deadline passes once both handshakes are over.
LEMMA LateTimeoutConn ==
  ASSUME ConnOK, NEW n \in Node, LateTimeout(n)
  PROVE  ConnOK'
<1>1. phase[n] = "active" /\ phase[Other(n)] \notin {"version", "verack"} /\ UNCHANGED <<ownHeight, announced, score>>
  BY DEF LateTimeout
<1>2. Other(n) \in Node /\ \A m \in Node : m = n \/ m = Other(n)
  BY NodeFacts
<1>3. \A m \in Node : phase[m] \in {"active", "closed", "reset"}
  BY <1>1, <1>2 DEF ConnOK
<1>4. Steady
  <2>1. phase[Dialler] \in {"active", "closed", "reset"} /\ phase[Listener] \in {"active", "closed", "reset"}
    BY <1>3, NodeFacts
  <2>2. channel[Dialler] \in Seq(SyncMsg) /\ channel[Listener] \in Seq(SyncMsg)
    BY <2>1 DEF ConnOK, Handshake
  <2> QED BY <1>3, <2>2, NodeFacts DEF Steady
<1>5. PICK none : none = <<>>
  OBVIOUS
<1>6. none \in Seq(SyncMsg) /\ none \in Seq(Message)
  BY <1>5
<1>7. PICK p \in {"closed", "reset"} : phase' = [phase EXCEPT ![n] = p]
  BY DEF LateTimeout
<1>8. channel' = [channel EXCEPT ![n] = none]
  BY <1>5 DEF LateTimeout
<1>9. phase' \in [Node -> {"closed", "reset", "version", "verack", "active"}] /\ channel' \in [Node -> Seq(Message)]
  BY <1>6, <1>7, <1>8 DEF ConnOK
<1>10. Steady'
  <2>1. ASSUME NEW m \in Node PROVE phase[m]' \in {"active", "closed", "reset"} /\ channel[m]' \in Seq(SyncMsg)
    BY <1>4, <1>6, <1>7, <1>8 DEF ConnOK, Steady
  <2> QED BY <2>1 DEF Steady
<1>11. score' \in [Node -> 0..BanThreshold]
  BY <1>1 DEF ConnOK
<1> QED BY <1>1, <1>9, <1>10, <1>11, SteadyConn

\* Every step keeps the shape of the connection.
LEMMA ConnStep ==
  ASSUME NodesOK, ConnOK, [Next]_vars
  PROVE  ConnOK'
<1>0. 0 \in 0..BanThreshold /\ BanMalformed \in 0..BanThreshold /\ BanInvalidChain \in 0..BanThreshold
  BY DEF BanThreshold, BanMalformed, BanInvalidChain
<1>1. CASE Connect
  BY <1>1, ConnectConn
<1>2. ASSUME NEW n \in Node, ReadVersion(n) PROVE ConnOK'
  BY <1>2, ReadVersionConn
<1>3. ASSUME NEW n \in Node, ExpectVerAck(n) PROVE ConnOK'
  BY <1>3, ExpectVerAckConn
<1>4. ASSUME NEW n \in Node, HandleGetHeaders(n) PROVE ConnOK'
  <2>1. Reads(n, "getheaders")
    BY <1>4 DEF HandleGetHeaders
  <2>2. PICK hs : hs = HeadersAfter(chain[n], Head(channel[n]).start)
    OBVIOUS
  <2>3. <<Headers(hs)>> \in Seq(SyncMsg)
    BY <2>1, <2>2, HeadersReply
  <2>4. Answer(n, <<Headers(hs)>>, BanMalformed)
    BY <1>4, <2>2 DEF HandleGetHeaders
  <2> QED BY <1>0, <2>1, <2>3, <2>4, AnswerConn, ReadsFacts
<1>5. ASSUME NEW n \in Node, HandleHeaders(n) PROVE ConnOK'
  <2>1. Reads(n, "headers")
    BY <1>5 DEF HandleHeaders
  <2>2. PICK new : new = News(chain[n], Head(channel[n]).headers)
    OBVIOUS
  <2>3. PICK msgs : msgs = IF new = <<>> THEN <<>> ELSE <<GetBlocks(new)>>
    OBVIOUS
  <2>4. msgs \in Seq(SyncMsg)
    BY <2>1, <2>2, <2>3, GetBlocksReply
  <2>5. CASE HangUp(n, BanInvalidChain)
    <3>1. Steady
      BY <2>1, ReadsFacts, ReaderSteady
    <3> QED BY <1>0, <2>5, <3>1, HangUpConn
  <2>6. CASE Answer(n, msgs, BanInvalidChain)
    BY <1>0, <2>1, <2>4, <2>6, AnswerConn, ReadsFacts
  <2> QED BY <1>5, <2>2, <2>3, <2>5, <2>6 DEF HandleHeaders
<1>6. ASSUME NEW n \in Node, HandleGetBlocks(n) PROVE ConnOK'
  <2>1. Reads(n, "getblocks") /\ Answer(n, BlockMsgs(chain[n], Head(channel[n]).hashes), 0)
    BY <1>6 DEF HandleGetBlocks
  <2>2. BlockMsgs(chain[n], Head(channel[n]).hashes) \in Seq(SyncMsg)
    BY <2>1, BodiesRead, BlocksReply
  <2> QED BY <1>0, <2>1, <2>2, AnswerConn, ReadsFacts
<1>7. ASSUME NEW n \in Node, HandleInv(n) PROVE ConnOK'
  <2>1. Reads(n, "inv")
    BY <1>7 DEF HandleInv
  <2>2. PICK b : b = Head(channel[n]).hash
    OBVIOUS
  <2>3. PICK msgs : msgs = IF HasBlock(n, b) THEN <<>> ELSE <<GetData(b)>>
    OBVIOUS
  <2>4. GetData(b) \in SyncMsg
    BY <2>1, <2>2, BodiesRead, SyncMsgs
  <2>5. msgs \in Seq(SyncMsg)
    BY <2>3, <2>4
  <2>6. Answer(n, msgs, BanMalformed)
    BY <1>7, <2>2, <2>3 DEF HandleInv
  <2> QED BY <1>0, <2>1, <2>5, <2>6, AnswerConn, ReadsFacts
<1>8. ASSUME NEW n \in Node, HandleGetData(n) PROVE ConnOK'
  <2>1. Reads(n, "getdata") /\ Answer(n, BlockMsgs(chain[n], <<Head(channel[n]).hash>>), 0)
    BY <1>8 DEF HandleGetData
  <2>2. Head(channel[n]).hash \in Block
    BY <2>1, BodiesRead
  <2>3. <<Head(channel[n]).hash>> \in Seq(Block)
    BY <2>2
  <2>4. BlockMsgs(chain[n], <<Head(channel[n]).hash>>) \in Seq(SyncMsg)
    BY <2>3, BlocksReply
  <2> QED BY <1>0, <2>1, <2>4, AnswerConn, ReadsFacts
<1>9. ASSUME NEW n \in Node, HandleBlock(n) PROVE ConnOK'
  <2>1. /\ Reads(n, "block") /\ channel' = Received(n)
        /\ UNCHANGED <<phase, ownHeight, announced, score>>
    BY <1>9 DEF HandleBlock
  <2> QED BY <2>1, ReadsFacts, ReceiveConn
<1>10. ASSUME NEW n \in Node, RefuseOrphan(n) PROVE ConnOK'
  <2>1. Reads(n, "block") /\ HangUp(n, BanInvalidChain)
    BY <1>10 DEF RefuseOrphan
  <2>2. Steady
    BY <2>1, ReadsFacts, ReaderSteady
  <2> QED BY <1>0, <2>1, <2>2, HangUpConn
<1>11. ASSUME NEW n \in Node, ReadEnd(n) PROVE ConnOK'
  <2>1. PICK points : points = IF phase[Other(n)] = "reset" /\ phase[n] = "active" THEN BanMalformed ELSE 0
    OBVIOUS
  <2>2. points \in 0..BanThreshold
    BY <1>0, <2>1
  <2>3. Closed(Other(n)) /\ HangUp(n, points)
    BY <1>11, <2>1 DEF ReadEnd
  <2>4. Steady
    BY <2>3, ReaderSteady
  <2> QED BY <2>2, <2>3, <2>4, HangUpConn
<1>12. ASSUME NEW n \in Node, IdleTimeout(n) PROVE ConnOK'
  <2>1. HangUp(n, 0) /\ \A m \in Node : phase[m] = "active"
    BY <1>12 DEF IdleTimeout
  <2>2. Steady
    BY <2>1, ReaderSteady
  <2> QED BY <1>0, <2>1, <2>2, HangUpConn
<1>13. ASSUME NEW n \in Node, SyncStep(n) PROVE ConnOK'
  <2>1. PICK msg : msg = GetHeaders(Len(chain[n]))
    OBVIOUS
  <2>2. msg \in SyncMsg
    <3>1. Len(chain[n]) \in Heights
      BY TipFacts DEF NodesOK
    <3> QED BY <2>1, <3>1, SyncMsgs
  <2>3. /\ phase[n] = "active" /\ ~Closed(Other(n))
        /\ channel' = [channel EXCEPT ![Other(n)] = Append(@, msg)]
        /\ UNCHANGED <<phase, ownHeight, announced, score>>
    BY <1>13, <2>1 DEF SyncStep
  <2> QED BY <2>2, <2>3, SendConn
<1>14. ASSUME NEW n \in Node, NEW b \in Block, Mine(n, b) PROVE ConnOK'
  <2>1. channel' = Relayed(n, b) /\ UNCHANGED <<phase, ownHeight, announced, score>>
    BY <1>14 DEF Mine
  <2>2. Inv(b) \in SyncMsg
    BY SyncMsgs
  <2>3. CASE phase[n] = "active" /\ ~Closed(Other(n))
    <3>1. channel' = [channel EXCEPT ![Other(n)] = Append(@, Inv(b))]
      BY <2>1, <2>3 DEF Relayed
    <3> QED BY <2>1, <2>2, <2>3, <3>1, SendConn
  <2>4. CASE ~(phase[n] = "active" /\ ~Closed(Other(n)))
    <3>1. channel' = channel
      BY <2>1, <2>4 DEF Relayed
    <3> QED BY <2>1, <3>1 DEF ConnOK
  <2> QED BY <2>3, <2>4
<1>15. ASSUME NEW n \in Node, LateTimeout(n) PROVE ConnOK'
  BY <1>15, LateTimeoutConn
<1>16. CASE UNCHANGED vars
  BY <1>16 DEF ConnOK, vars
<1> QED BY <1>1, <1>2, <1>3, <1>4, <1>5, <1>6, <1>7, <1>8, <1>9, <1>10, <1>11, <1>12, <1>13, <1>14, <1>15, <1>16
        DEF Next, Handle

-----------------------------------------------------------------------------
(* The nodes. *)

\* Whatever the order blocks come in, a node's chain is linked.
LEMMA ChainMoves ==
  ASSUME NodesOK, NEW n \in Node, NEW c \in Seq(Block), Linked(c),
         chain' = [chain EXCEPT ![n] = c],
         side' \in [Node -> SUBSET Block], orphans' \in [Node -> SUBSET Block]
  PROVE  NodesOK' /\ chain'[n] = c /\ chain'[Other(n)] = chain[Other(n)]
<1>1. chain' \in [Node -> Seq(Block)] /\ chain'[n] = c /\ \A m \in Node : m # n => chain'[m] = chain[m]
  BY DEF NodesOK
<1>2. \A m \in Node : Linked(chain'[m])
  <2> SUFFICES ASSUME NEW m \in Node PROVE Linked(chain'[m])
    OBVIOUS
  <2>1. CASE m = n
    BY <1>1, <2>1
  <2>2. CASE m # n
    BY <1>1, <2>2 DEF NodesOK
  <2> QED BY <2>1, <2>2
<1> QED BY <1>1, <1>2, NodeFacts DEF NodesOK

LEMMA ConnectBlockNodes ==
  ASSUME NodesOK, NEW n \in Node, NEW b \in Block, ConnectBlock(n, b)
  PROVE  NodesOK'
<1>1. PICK t \in OrphanEnds(n, b) :
        /\ chain' = [chain EXCEPT ![n] = PathTo[t]]
        /\ orphans' = [orphans EXCEPT ![n] =
                        {o \in @ : Prev[o] # b /\ ~(Height[Prev[o]] > Height[b] /\ InChain(PathTo[t], Prev[o]))}]
        /\ UNCHANGED side
  BY DEF ConnectBlock
<1>2. orphans \in [Node -> SUBSET Block] /\ side \in [Node -> SUBSET Block]
  BY DEF NodesOK
<1>3. t \in Block /\ t \in AnyBlock
  BY <1>2, BlockFacts DEF OrphanEnds
<1>4. PathTo[t] \in Seq(Block) /\ Linked(PathTo[t])
  BY <1>3, PathFacts
<1>5. PICK left : left = {o \in orphans[n] : Prev[o] # b /\ ~(Height[Prev[o]] > Height[b] /\ InChain(PathTo[t], Prev[o]))}
  OBVIOUS
<1>6. left \in SUBSET Block /\ orphans' = [orphans EXCEPT ![n] = left]
  BY <1>1, <1>2, <1>5
<1>7. orphans' \in [Node -> SUBSET Block] /\ side' \in [Node -> SUBSET Block]
  BY <1>1, <1>2, <1>6
<1> QED BY <1>1, <1>4, <1>7, ChainMoves

LEMMA ConnectSideBlockNodes ==
  ASSUME NodesOK, NEW n \in Node, NEW b \in Block, ConnectSideBlock(n, b)
  PROVE  NodesOK'
<1>1. PICK branch : branch = {x \in Range(PathTo[b]) : ~InChain(chain[n], x)}
  OBVIOUS
<1>2. side \in [Node -> SUBSET Block] /\ orphans' = orphans /\ orphans \in [Node -> SUBSET Block]
  BY DEF NodesOK, ConnectSideBlock
<1>3. CASE chain' = [chain EXCEPT ![n] = PathTo[b]] /\ side' = [side EXCEPT ![n] = @ \ branch]
  <2>1. b \in AnyBlock
    BY BlockFacts
  <2>2. PathTo[b] \in Seq(Block) /\ Linked(PathTo[b])
    BY <2>1, PathFacts
  <2>3. side' \in [Node -> SUBSET Block]
    BY <1>2, <1>3
  <2> QED BY <1>2, <1>3, <2>2, <2>3, ChainMoves
<1>4. CASE side' = [side EXCEPT ![n] = @ \cup {b}] /\ UNCHANGED chain
  BY <1>2, <1>4 DEF NodesOK
<1> QED BY <1>1, <1>3, <1>4 DEF ConnectSideBlock

LEMMA NodesStep ==
  ASSUME NodesOK, ConnOK, [Next]_vars
  PROVE  NodesOK'
<1>1. ASSUME NEW n \in Node, HandleBlock(n) PROVE NodesOK'
  <2>1. Reads(n, "block")
    BY <1>1 DEF HandleBlock
  <2>2. PICK b \in Block : b = Head(channel[n]).block
    BY <2>1, BodiesRead
  <2>3. CASE UNCHANGED <<chain, side, orphans>>
    BY <2>3 DEF NodesOK
  <2>4. CASE ConnectBlock(n, b)
    BY <2>4, ConnectBlockNodes
  <2>5. CASE ConnectSideBlock(n, b)
    BY <2>5, ConnectSideBlockNodes
  <2>6. CASE orphans' = [orphans EXCEPT ![n] = @ \cup {b}] /\ UNCHANGED <<chain, side>>
    BY <2>6 DEF NodesOK
  <2> QED BY <1>1, <2>2, <2>3, <2>4, <2>5, <2>6 DEF HandleBlock
<1>2. ASSUME NEW n \in Node, NEW b \in Block, Mine(n, b) PROVE NodesOK'
  <2>1. chain[n] \in Seq(Block) /\ Linked(chain[n])
    BY DEF NodesOK
  <2>2. Append(chain[n], b) \in Seq(Block) /\ Linked(Append(chain[n], b))
    BY <1>2, <2>1, LinkedAppend DEF Mine
  <2>3. /\ chain' = [chain EXCEPT ![n] = Append(chain[n], b)]
        /\ side' \in [Node -> SUBSET Block] /\ orphans' \in [Node -> SUBSET Block]
    BY <1>2 DEF Mine, NodesOK
  <2> QED BY <2>2, <2>3, ChainMoves
<1>3. CASE UNCHANGED nodes
  BY <1>3 DEF NodesOK, nodes
<1> QED BY <1>1, <1>2, <1>3
        DEF Next, Handle, Connect, ReadVersion, ExpectVerAck, SyncStep, IdleTimeout, LateTimeout, HandleGetHeaders, HandleHeaders,
            HandleGetBlocks, HandleInv, HandleGetData, RefuseOrphan, ReadEnd, vars, nodes

\* forked and farBehind say what they are named for, and late counts up.
LEMMA HistoryStep ==
  ASSUME NodesOK, ConnOK, HistoryOK, [Next]_vars
  PROVE  HistoryOK' /\ (forked => forked') /\ (farBehind => farBehind') /\ (late' = 0 => late = 0)
<1>1. CASE Compare /\ UNCHANGED late
  <2>1. NodesOK'
    BY NodesStep
  <2>2. PICK a \in Seq(Block) : a = chain'[Dialler]
    BY <2>1, NodeFacts DEF NodesOK
  <2>3. PICK b \in Seq(Block) : b = chain'[Listener]
    BY <2>1, NodeFacts DEF NodesOK
  <2>4. /\ forked' = (forked \/ ~(IsPrefix(a, b) \/ IsPrefix(b, a)))
        /\ farBehind' = (farBehind \/ Len(a) > Len(b) + MaxGap \/ Len(b) > Len(a) + MaxGap)
    BY <1>1, <2>2, <2>3 DEF Compare
  <2>5. ~forked' => OneChain(a, b)
    BY <2>4 DEF OneChain
  <2>6. ~farBehind' => Near(a, b)
    <3>1. Len(a) \in Nat /\ Len(b) \in Nat /\ MaxGap \in Nat
      BY SyncAssumption
    <3>2. ASSUME ~farBehind' PROVE ~(Len(a) > Len(b) + MaxGap) /\ ~(Len(b) > Len(a) + MaxGap)
      BY <2>4, <3>2
    <3> QED BY <3>1, <3>2 DEF Near
  <2>7. forked' \in BOOLEAN /\ farBehind' \in BOOLEAN /\ (forked => forked') /\ (farBehind => farBehind')
    BY <2>4
  <2>8. late' \in 0..MaxLate /\ (late' = 0 => late = 0)
    BY <1>1 DEF HistoryOK
  <2> QED BY <2>2, <2>3, <2>5, <2>6, <2>7, <2>8 DEF HistoryOK
<1>2. CASE UNCHANGED <<chain, forked, farBehind, late>>
  BY <1>2 DEF HistoryOK
<1>3. ASSUME NEW n \in Node, LateTimeout(n)
      PROVE  HistoryOK' /\ (forked => forked') /\ (farBehind => farBehind') /\ (late' = 0 => late = 0)
  <2>1. late < MaxLate /\ late' = late + 1 /\ UNCHANGED <<chain, forked, farBehind>>
    BY <1>3 DEF LateTimeout, nodes
  <2>2. late' \in 0..MaxLate /\ (late' = 0 => late = 0)
    BY <2>1, SyncAssumption DEF HistoryOK
  <2> QED BY <2>1, <2>2 DEF HistoryOK
<1> QED BY <1>1, <1>2, <1>3
        DEF Next, Handle, Connect, ReadVersion, ExpectVerAck, SyncStep, IdleTimeout, LateTimeout, HandleGetHeaders, HandleHeaders,
            HandleGetBlocks, HandleInv, HandleGetData, HandleBlock, Mine, RefuseOrphan, ReadEnd, vars, nodes

-----------------------------------------------------------------------------
(* One chain. *)

Extends(a, b) == Len(a) <= Len(b) /\ \A i \in 1..Len(a) : a[i] = b[i]

LEMMA InRange ==
  ASSUME NEW c \in Seq(Block)
  PROVE  \A b : b \in Range(c) <=> \E i \in 1..Len(c) : b = c[i]
BY DEF Range

LEMMA ExtendsRange ==
  ASSUME NEW a \in Seq(Block), NEW b \in Seq(Block), Extends(a, b)
  PROVE  Range(a) \subseteq Range(b)
<1> SUFFICES ASSUME NEW x \in Range(a) PROVE x \in Range(b)
  OBVIOUS
<1>1. PICK i \in 1..Len(a) : x = a[i]
  BY InRange
<1>2. i \in 1..Len(b) /\ x = b[i]
  BY <1>1 DEF Extends
<1> QED BY <1>2, InRange

\* Messages of the other kinds always fit.
LEMMA FitPlain ==
  ASSUME NEW m \in Message, m.type \notin {"getheaders", "headers", "block"}, NEW own, NEW theirs
  PROVE  m \in FitMsg(own, theirs)
BY DEF FitMsg, Fits

\* What fitted fits when the chains have grown.
LEMMA FitGrow ==
  ASSUME NEW own \in Seq(Block), NEW own2 \in Seq(Block), NEW theirs \in Seq(Block), NEW theirs2 \in Seq(Block),
         Extends(own, own2), Len(theirs) <= Len(theirs2)
  PROVE  FitMsg(own, theirs) \subseteq FitMsg(own2, theirs2)
<1> SUFFICES ASSUME NEW m \in Message, Fits(m, own, theirs) PROVE Fits(m, own2, theirs2)
  BY DEF FitMsg
<1>1. ASSUME m.type = "getheaders" PROVE m.start <= Len(own2)
  <2>1. m.start \in Nat /\ m.start <= Len(own)
    BY <1>1, MessageIs, HeightsNat DEF Fits
  <2> QED BY <2>1 DEF Extends
<1>2. ASSUME m.type = "headers" PROVE Segment(m.headers, own2, Len(theirs2))
  <2>1. PICK hs \in Seq(Block) : hs = m.headers
    BY <1>2, MessageIs, ListIs
  <2>2. PICK s \in 0..Len(theirs) : s + Len(hs) <= Len(own) /\ \A i \in 1..Len(hs) : hs[i] = own[s + i]
    BY <1>2, <2>1 DEF Fits, Segment
  <2>3. s \in 0..Len(theirs2) /\ s + Len(hs) <= Len(own2)
    BY <2>2 DEF Extends
  <2>4. ASSUME NEW i \in 1..Len(hs) PROVE hs[i] = own2[s + i]
    <3>1. s + i \in 1..Len(own) /\ hs[i] = own[s + i]
      BY <2>2
    <3> QED BY <3>1 DEF Extends
  <2> QED BY <2>1, <2>3, <2>4 DEF Segment
<1>3. ASSUME m.type = "block" PROVE m.block \in Range(own2)
  BY <1>3, ExtendsRange DEF Fits
<1> QED BY <1>1, <1>2, <1>3 DEF Fits

\* On one chain a block of the other end that is not here has its parent here only if
\* it extends the tip.
LEMMA OnlyExtends ==
  ASSUME NEW c \in Seq(Block), Linked(c), NEW e \in Seq(Block), Linked(e), OneChain(c, e),
         NEW b \in Range(e), ~InChain(c, b), InChain(c, Prev[b])
  PROVE  Height[b] = Len(c) + 1 /\ Prev[b] = TipOf(c)
<1>1. PICK k \in 1..Len(e) : b = e[k]
  BY InRange
<1>2. b \in Block /\ Height[b] = k /\ Height[Prev[b]] + 1 = k
  BY <1>1, LinkedHeights, BlockFacts
<1>3. ASSUME NEW i \in 1..Len(c) PROVE c[i] # b
  BY DEF InChain
<1>4. k > Len(c)
  <2>1. ASSUME k <= Len(c) PROVE FALSE
    <3>1. c[k] = e[k]
      BY <2>1, PrefixIs DEF OneChain
    <3>2. k \in 1..Len(c)
      BY <2>1
    <3> QED BY <1>1, <1>3, <3>1, <3>2
  <2> QED BY <2>1
<1>5. CASE Prev[b] = Genesis
  <2>1. k = 1 /\ Len(c) = 0
    BY <1>2, <1>4, <1>5, BlockFacts
  <2>2. c = <<>>
    BY <2>1
  <2> QED BY <1>2, <1>5, <2>1, <2>2 DEF TipOf
<1>6. CASE Prev[b] # Genesis
  <2>1. PICK i \in 1..Len(c) : c[i] = Prev[b]
    BY <1>6 DEF InChain
  <2>2. Height[Prev[b]] = i
    BY <2>1, LinkedHeights
  <2>3. i = Len(c) /\ k = Len(c) + 1
    BY <1>2, <1>4, <2>2
  <2>4. c # <<>>
    BY <2>1
  <2> QED BY <1>2, <2>1, <2>3, <2>4 DEF TipOf
<1> QED BY <1>5, <1>6

\* Connecting a block of the other end, and orphans from there, ends no higher than there.
LEMMA PathExtends ==
  ASSUME NEW c \in Seq(Block), NEW e \in Seq(Block), Linked(e), OneChain(c, e),
         NEW t \in Range(e), Height[t] > Len(c)
  PROVE  Extends(c, PathTo[t]) /\ Extends(PathTo[t], e)
<1>1. PICK k \in 1..Len(e) : t = e[k]
  BY InRange
<1>2. Height[t] = k /\ Len(c) < k
  BY <1>1, LinkedHeights
<1>3. PICK d : d = PathTo[t]
  OBVIOUS
<1>4. Len(d) = k /\ \A j \in 1..k : d[j] = e[j]
  BY <1>1, <1>3, PathInChain
<1>5. \A i \in 1..Len(c) : c[i] = e[i]
  BY <1>2, PrefixIs DEF OneChain
<1>6. Extends(c, d)
  BY <1>2, <1>4, <1>5 DEF Extends
<1>7. Extends(d, e)
  BY <1>4 DEF Extends
<1> QED BY <1>3, <1>6, <1>7

Peace == \A n \in Node : Peaceful(n)

\* Who has something to read has the other end still there.
LEMMA OpenEnds ==
  ASSUME ConnOK, Peace, NEW n \in Node, channel[n] # <<>>
  PROVE  \A m \in Node : phase[m] \notin {"closed", "reset"}
BY NodeFacts DEF Peace, Peaceful

\* What an end has to keep.
LEMMA PeaceIs ==
  ASSUME UNCHANGED <<score, side>>, Peace,
         \A m \in Node : /\ orphans'[m] \subseteq Range(chain'[Other(m)])
                         /\ channel'[m] \in Seq(FitMsg(chain'[Other(m)], chain'[m]))
                         /\ phase'[m] # "reset"
                         /\ phase'[m] = "closed" => channel'[m] = <<>> /\ channel'[Other(m)] = <<>>
  PROVE  Peace'
<1>1. \A m \in Node : score'[m] = 0 /\ side'[m] = {}
  BY DEF Peace, Peaceful
<1> QED BY <1>1 DEF Peace, Peaceful

LEMMA ReplyPeace ==
  ASSUME ConnOK, Peace, NEW n \in Node, channel[n] # <<>>,
         NEW msgs \in Seq(FitMsg(chain[n], chain[Other(n)])),
         channel'[n] = Tail(channel[n]), channel'[Other(n)] = channel[Other(n)] \o msgs,
         \A m \in Node : phase'[m] \notin {"closed", "reset"},
         UNCHANGED nodes, UNCHANGED score
  PROVE  Peace'
<1>1. Other(n) \in Node /\ Other(Other(n)) = n /\ \A m \in Node : m = n \/ m = Other(n)
  BY NodeFacts
<1>2. PICK F : F = FitMsg(chain[n], chain[Other(n)])
  OBVIOUS
<1>3. PICK G : G = FitMsg(chain[Other(n)], chain[n])
  OBVIOUS
<1>4. channel[n] \in Seq(G) /\ channel[Other(n)] \in Seq(F)
  BY <1>1, <1>2, <1>3 DEF Peace, Peaceful
<1>5. channel'[n] \in Seq(G)
  <2>1. PICK s \in Seq(G) : s = channel[n]
    BY <1>4
  <2>2. Tail(s) \in Seq(G)
    BY <2>1
  <2> QED BY <2>1, <2>2
<1>6. channel'[Other(n)] \in Seq(F)
  <2>1. PICK s \in Seq(F) : s = channel[Other(n)]
    BY <1>4
  <2>2. PICK r \in Seq(F) : r = msgs
    BY <1>2
  <2>3. s \o r \in Seq(F)
    OBVIOUS
  <2> QED BY <2>1, <2>2, <2>3
<1>7. chain' = chain /\ side' = side /\ orphans' = orphans
  BY DEF nodes
<1>8. ASSUME NEW m \in Node
      PROVE  /\ orphans'[m] \subseteq Range(chain'[Other(m)])
             /\ channel'[m] \in Seq(FitMsg(chain'[Other(m)], chain'[m]))
  <2>1. orphans'[m] \subseteq Range(chain'[Other(m)])
    BY <1>7 DEF Peace, Peaceful
  <2>2. channel'[m] \in Seq(FitMsg(chain'[Other(m)], chain'[m]))
    BY <1>1, <1>2, <1>3, <1>5, <1>6, <1>7
  <2> QED BY <2>1, <2>2
<1> QED BY <1>7, <1>8, PeaceIs

LEMMA AnswerPeace ==
  ASSUME ConnOK, Peace, NEW n \in Node, channel[n] # <<>>,
         NEW msgs \in Seq(FitMsg(chain[n], chain[Other(n)])), NEW points,
         Answer(n, msgs, points), UNCHANGED nodes
  PROVE  Peace'
<1>1. \A m \in Node : phase[m] \notin {"closed", "reset"}
  BY OpenEnds
<1>2. /\ channel' = [Received(n) EXCEPT ![Other(n)] = @ \o msgs]
      /\ UNCHANGED <<phase, score>>
  BY <1>1, NodeFacts DEF Answer, Closed
<1>3. FitMsg(chain[n], chain[Other(n)]) \subseteq Message
  BY DEF FitMsg
<1>4. msgs \in Seq(Message)
  BY <1>3, SeqWiden
<1>5. channel'[n] = Tail(channel[n]) /\ channel'[Other(n)] = channel[Other(n)] \o msgs
  BY <1>2, <1>4, ReplyShape
<1> QED BY <1>1, <1>2, <1>5, ReplyPeace

\* The end of a connection with nothing left to read.
LEMMA HangUpPeace ==
  ASSUME ConnOK, Peace, NEW n \in Node, \A m \in Node : channel[m] = <<>>,
         HangUp(n, 0), UNCHANGED nodes
  PROVE  Peace'
<1>1. channel' = channel
  BY DEF ConnOK, HangUp
<1>2. score' = score
  <2>1. score[n] = 0 /\ score \in [Node -> 0..BanThreshold]
    BY DEF Peace, Peaceful, ConnOK
  <2>2. PICK v : v = IF score[n] + 0 > BanThreshold THEN BanThreshold ELSE score[n] + 0
    OBVIOUS
  <2>3. v = score[n]
    BY <2>1, <2>2 DEF BanThreshold
  <2>4. score' = [score EXCEPT ![n] = v]
    BY <2>2 DEF HangUp, Charge
  <2> QED BY <2>1, <2>3, <2>4
<1>3. phase' = [phase EXCEPT ![n] = "closed"]
  <2>1. PICK s : s = channel[n]
    OBVIOUS
  <2>2. s = <<>> /\ Len(s) = 0
    BY <2>1
  <2>3. ~(Len(channel[n]) > 1)
    BY <2>1, <2>2
  <2> QED BY <2>3 DEF HangUp
<1>4. chain' = chain /\ side' = side /\ orphans' = orphans
  BY DEF nodes
<1>5. ASSUME NEW m \in Node
      PROVE  /\ orphans'[m] \subseteq Range(chain'[Other(m)])
             /\ channel'[m] \in Seq(FitMsg(chain'[Other(m)], chain'[m]))
             /\ phase'[m] # "reset"
             /\ phase'[m] = "closed" => channel'[m] = <<>> /\ channel'[Other(m)] = <<>>
  <2>1. orphans'[m] \subseteq Range(chain'[Other(m)]) /\ channel'[m] \in Seq(FitMsg(chain'[Other(m)], chain'[m]))
    BY <1>1, <1>4 DEF Peace, Peaceful
  <2>2. phase'[m] # "reset"
    BY <1>3 DEF ConnOK, Peace, Peaceful
  <2>3. channel'[m] = <<>> /\ channel'[Other(m)] = <<>>
    BY <1>1, NodeFacts
  <2> QED BY <2>1, <2>2, <2>3
<1> QED BY <1>2, <1>4, <1>5, PeaceIs

\* A chain that grows leaves what is on its way fit for its reader.
LEMMA GrowFits ==
  ASSUME NodesOK, NodesOK', Peace, NEW n \in Node,
         Extends(chain[n], chain'[n]), chain'[Other(n)] = chain[Other(n)]
  PROVE  \A m \in Node : /\ orphans[m] \subseteq Range(chain'[Other(m)])
                         /\ channel[m] \in Seq(FitMsg(chain'[Other(m)], chain'[m]))
<1> SUFFICES ASSUME NEW m \in Node
             PROVE  /\ orphans[m] \subseteq Range(chain'[Other(m)])
                    /\ channel[m] \in Seq(FitMsg(chain'[Other(m)], chain'[m]))
  OBVIOUS
<1>1. /\ chain[m] \in Seq(Block) /\ chain'[m] \in Seq(Block)
      /\ chain[Other(m)] \in Seq(Block) /\ chain'[Other(m)] \in Seq(Block)
  BY NodeFacts DEF NodesOK
<1>2. \A k \in Node : chain[k] \in Seq(Block) => Extends(chain[k], chain[k])
  BY DEF Extends
<1>3. Extends(chain[m], chain'[m]) /\ Extends(chain[Other(m)], chain'[Other(m)])
  BY <1>1, <1>2, NodeFacts
<1>4. Len(chain[m]) <= Len(chain'[m])
  BY <1>3 DEF Extends
<1>5. FitMsg(chain[Other(m)], chain[m]) \subseteq FitMsg(chain'[Other(m)], chain'[m])
  BY <1>1, <1>3, <1>4, FitGrow
<1>6. Range(chain[Other(m)]) \subseteq Range(chain'[Other(m)])
  BY <1>1, <1>3, ExtendsRange
<1>7. channel[m] \in Seq(FitMsg(chain[Other(m)], chain[m])) /\ orphans[m] \subseteq Range(chain[Other(m)])
  BY DEF Peace, Peaceful
<1> QED BY <1>5, <1>6, <1>7, SeqWiden

LEMMA ExtendsItself == \A c \in Seq(Block) : Extends(c, c)
BY DEF Extends

\* A node's chain may grow as it sends.
LEMMA SendPeace ==
  ASSUME NodesOK, NodesOK', ConnOK, Peace, NEW n \in Node,
         Extends(chain[n], chain'[n]), chain'[Other(n)] = chain[Other(n)],
         phase[n] = "active", ~Closed(Other(n)), NEW msg \in FitMsg(chain'[n], chain'[Other(n)]),
         channel' = [channel EXCEPT ![Other(n)] = Append(@, msg)],
         UNCHANGED <<phase, score, side, orphans>>
  PROVE  Peace'
<1>1. Other(n) \in Node /\ Other(n) # n /\ Other(Other(n)) = n /\ \A m \in Node : m = n \/ m = Other(n)
  BY NodeFacts
<1>2. \A m \in Node : /\ orphans[m] \subseteq Range(chain'[Other(m)])
                      /\ channel[m] \in Seq(FitMsg(chain'[Other(m)], chain'[m]))
  BY GrowFits
<1>3. channel'[n] = channel[n] /\ channel'[Other(n)] = Append(channel[Other(n)], msg)
  BY <1>1 DEF ConnOK
<1>4. PICK F : F = FitMsg(chain'[n], chain'[Other(n)])
  OBVIOUS
<1>5. channel'[Other(n)] \in Seq(F)
  <2>1. PICK s \in Seq(F) : s = channel[Other(n)]
    BY <1>1, <1>2, <1>4
  <2>2. Append(s, msg) \in Seq(F)
    BY <1>4
  <2> QED BY <1>3, <2>1, <2>2
<1>6. ASSUME NEW m \in Node
      PROVE  /\ orphans'[m] \subseteq Range(chain'[Other(m)])
             /\ channel'[m] \in Seq(FitMsg(chain'[Other(m)], chain'[m]))
             /\ phase'[m] # "reset" /\ phase'[m] # "closed"
  <2>1. orphans'[m] \subseteq Range(chain'[Other(m)])
    BY <1>2
  <2>2. channel'[m] \in Seq(FitMsg(chain'[Other(m)], chain'[m]))
    BY <1>1, <1>2, <1>3, <1>4, <1>5
  <2>3. phase'[m] # "reset" /\ phase'[m] # "closed"
    BY <1>1 DEF Closed
  <2> QED BY <2>1, <2>2, <2>3
<1> QED BY <1>6, PeaceIs

\* A node's chain may grow and nobody is told.
LEMMA SilentPeace ==
  ASSUME NodesOK, NodesOK', Peace, NEW n \in Node,
         Extends(chain[n], chain'[n]), chain'[Other(n)] = chain[Other(n)],
         UNCHANGED <<channel, phase, score, side, orphans>>
  PROVE  Peace'
<1>1. \A m \in Node : /\ orphans'[m] \subseteq Range(chain'[Other(m)])
                      /\ channel'[m] \in Seq(FitMsg(chain'[Other(m)], chain'[m]))
  BY GrowFits
<1>2. \A m \in Node : /\ phase'[m] # "reset"
                      /\ phase'[m] = "closed" => channel'[m] = <<>> /\ channel'[Other(m)] = <<>>
  BY DEF Peace, Peaceful
<1> QED BY <1>1, <1>2, PeaceIs

LEMMA SyncStepPeace ==
  ASSUME NodesOK, NodesOK', ConnOK, Peace, NEW n \in Node, SyncStep(n)
  PROVE  Peace'
<1>1. PICK msg : msg = GetHeaders(Len(chain[n]))
  OBVIOUS
<1>2. chain[n] \in Seq(Block) /\ Len(chain[n]) \in Heights /\ Len(chain[n]) \in Nat
  BY TipFacts DEF NodesOK
<1>3. msg \in Message /\ msg.type = "getheaders" /\ msg.start = Len(chain[n])
  BY <1>1, <1>2, SyncMsgs, SyncMsgType
<1>4. msg \in FitMsg(chain[n], chain[Other(n)])
  BY <1>2, <1>3 DEF FitMsg, Fits
<1>5. /\ phase[n] = "active" /\ ~Closed(Other(n))
      /\ channel' = [channel EXCEPT ![Other(n)] = Append(@, msg)]
      /\ UNCHANGED <<phase, score, side, orphans, chain>>
  BY <1>1 DEF SyncStep, nodes
<1>6. Extends(chain[n], chain'[n]) /\ chain'[Other(n)] = chain[Other(n)]
  BY <1>2, <1>5, ExtendsItself
<1>7. msg \in FitMsg(chain'[n], chain'[Other(n)])
  BY <1>4, <1>5
<1> QED BY <1>5, <1>6, <1>7, SendPeace

LEMMA MinePeace ==
  ASSUME NodesOK, NodesOK', ConnOK, Peace, NEW n \in Node, NEW b \in Block, Mine(n, b)
  PROVE  Peace'
<1>1. PICK c \in Seq(Block) : c = chain[n]
  BY DEF NodesOK
<1>2. PICK d : d = Append(c, b)
  OBVIOUS
<1>3. Extends(c, d)
  BY <1>2 DEF Extends
<1>4. chain' = [chain EXCEPT ![n] = d] /\ channel' = Relayed(n, b) /\ UNCHANGED <<phase, score, side, orphans>>
  BY <1>1, <1>2 DEF Mine
<1>5. Extends(chain[n], chain'[n]) /\ chain'[Other(n)] = chain[Other(n)]
  BY <1>1, <1>3, <1>4, NodeFacts DEF NodesOK
<1>6. PICK msg : msg = Inv(b)
  OBVIOUS
<1>7. msg \in Message /\ msg.type = "inv"
  BY <1>6, SyncMsgs, SyncMsgType
<1>8. msg \in FitMsg(chain'[n], chain'[Other(n)])
  BY <1>7, FitPlain
<1>9. CASE phase[n] = "active" /\ ~Closed(Other(n))
  <2>1. channel' = [channel EXCEPT ![Other(n)] = Append(@, msg)]
    BY <1>4, <1>6, <1>9 DEF Relayed
  <2> QED BY <1>4, <1>5, <1>8, <1>9, <2>1, SendPeace
<1>10. CASE ~(phase[n] = "active" /\ ~Closed(Other(n)))
  <2>1. channel' = channel
    BY <1>4, <1>10 DEF Relayed
  <2> QED BY <1>4, <1>5, <2>1, SilentPeace
<1> QED BY <1>9, <1>10

\* A new connection.
LEMMA ConnectPeace ==
  ASSUME NodesOK, ConnOK, Peace, Connect
  PROVE  Peace'
<1>1. PICK v : v = Version(Len(chain[Dialler]))
  OBVIOUS
<1>2. Len(chain[Dialler]) \in Heights
  BY TipFacts, NodeFacts DEF NodesOK
<1>3. v \in Message /\ v.type = "version"
  BY <1>1, <1>2, HandshakeMsgs
<1>4. \A own, theirs : v \in FitMsg(own, theirs)
  BY <1>3, FitPlain
<1>5. channel' = [n \in Node |-> IF n = Dialler THEN <<>> ELSE <<v>>] /\ phase' = [n \in Node |-> "version"]
      /\ UNCHANGED <<chain, side, orphans, score>>
  BY <1>1 DEF Connect, nodes
<1>6. ASSUME NEW m \in Node
      PROVE  /\ orphans'[m] \subseteq Range(chain'[Other(m)])
             /\ channel'[m] \in Seq(FitMsg(chain'[Other(m)], chain'[m]))
             /\ phase'[m] # "reset" /\ phase'[m] # "closed"
  <2>1. orphans'[m] \subseteq Range(chain'[Other(m)])
    BY <1>5 DEF Peace, Peaceful
  <2>2. channel'[m] \in Seq(FitMsg(chain'[Other(m)], chain'[m]))
    <3>1. PICK F : F = FitMsg(chain'[Other(m)], chain'[m])
      OBVIOUS
    <3>2. v \in F
      BY <1>4, <3>1
    <3>3. <<>> \in Seq(F) /\ <<v>> \in Seq(F)
      BY <3>2
    <3>4. channel'[m] = <<>> \/ channel'[m] = <<v>>
      BY <1>5
    <3> QED BY <3>1, <3>3, <3>4
  <2>3. phase'[m] # "reset" /\ phase'[m] # "closed"
    BY <1>5
  <2> QED BY <2>1, <2>2, <2>3
<1> QED BY <1>5, <1>6, PeaceIs

LEMMA ReadVersionPeace ==
  ASSUME ConnOK, Peace, NEW n \in Node, ReadVersion(n)
  PROVE  Peace'
<1>1. PICK msg : msg = VersionReply(n)
  OBVIOUS
<1>2. PICK F : F = FitMsg(chain[n], chain[Other(n)])
  OBVIOUS
<1>3. msg \in Message /\ (msg.type = "verack" \/ msg.type = "version")
  BY <1>1, ReadVersionShape
<1>4. msg \in F
  BY <1>2, <1>3, FitPlain
<1>5. <<msg>> \in Seq(F)
  BY <1>4
<1>6. /\ channel[n] # <<>> /\ channel'[n] = Tail(channel[n]) /\ channel'[Other(n)] = channel[Other(n)] \o <<msg>>
      /\ phase'[n] = "verack" /\ phase'[Other(n)] = phase[Other(n)]
  BY <1>1, ReadVersionShape
<1>7. \A m \in Node : phase'[m] \notin {"closed", "reset"}
  BY <1>6, OpenEnds, NodeFacts
<1>8. UNCHANGED nodes /\ UNCHANGED score
  BY DEF ReadVersion
<1> QED BY <1>2, <1>5, <1>6, <1>7, <1>8, ReplyPeace

LEMMA ExpectVerAckPeace ==
  ASSUME NodesOK, ConnOK, Peace, NEW n \in Node, ExpectVerAck(n)
  PROVE  Peace'
<1>1. PICK F : F = FitMsg(chain[n], chain[Other(n)])
  OBVIOUS
<1>2. PICK get : get = GetHeaders(Len(chain[n]))
  OBVIOUS
<1>3. chain[n] \in Seq(Block) /\ Len(chain[n]) \in Heights /\ Len(chain[n]) \in Nat
  BY TipFacts DEF NodesOK
<1>4. get \in Message /\ get.type = "getheaders" /\ get.start = Len(chain[n])
  BY <1>2, <1>3, SyncMsgs, SyncMsgType
<1>5. get \in F
  BY <1>1, <1>3, <1>4 DEF FitMsg, Fits
<1>6. VerAck \in F
  BY <1>1, HandshakeMsgs, FitPlain
<1>7. Ack(n) \in Seq(F) /\ Ask(n) \in Seq(F)
  BY <1>2, <1>5, <1>6 DEF Ack, Ask
<1>8. Ack(n) \o Ask(n) \in Seq(F)
  <2>1. PICK x \in Seq(F) : x = Ack(n)
    BY <1>7
  <2>2. PICK y \in Seq(F) : y = Ask(n)
    BY <1>7
  <2>3. x \o y \in Seq(F)
    OBVIOUS
  <2> QED BY <2>1, <2>2, <2>3
<1>9. /\ channel[n] # <<>> /\ channel'[n] = Tail(channel[n])
      /\ channel'[Other(n)] = channel[Other(n)] \o (Ack(n) \o Ask(n))
      /\ phase'[n] = "active" /\ phase'[Other(n)] = phase[Other(n)]
  BY ExpectVerAckShape
<1>10. \A m \in Node : phase'[m] \notin {"closed", "reset"}
  BY <1>9, OpenEnds, NodeFacts
<1>11. UNCHANGED nodes /\ UNCHANGED score
  BY DEF ExpectVerAck
<1> QED BY <1>1, <1>8, <1>9, <1>10, <1>11, ReplyPeace

-----------------------------------------------------------------------------
(* The handlers, on one chain. *)

\* What is read fits.
LEMMA ReadsFit ==
  ASSUME ConnOK, Peace, NEW n \in Node, NEW type, Reads(n, type)
  PROVE  /\ Head(channel[n]) \in Message /\ Head(channel[n]).type = type
         /\ Fits(Head(channel[n]), chain[Other(n)], chain[n])
         /\ phase[n] = "active" /\ channel[n] # <<>>
<1>1. PICK s : s = channel[n]
  OBVIOUS
<1>2. s \in Seq(FitMsg(chain[Other(n)], chain[n])) /\ s # <<>>
  BY <1>1, ReadsFacts DEF Peace, Peaceful
<1>3. Head(s) \in FitMsg(chain[Other(n)], chain[n])
  BY <1>2
<1> QED BY <1>1, <1>3, ReadsFacts DEF FitMsg

LEMMA HandleGetHeadersPeace ==
  ASSUME NodesOK, ConnOK, Peace, NEW n \in Node, HandleGetHeaders(n)
  PROVE  Peace'
<1>1. Reads(n, "getheaders")
  BY DEF HandleGetHeaders
<1>2. PICK start : start = Head(channel[n]).start
  OBVIOUS
<1>3. start \in Nat /\ start <= Len(chain[Other(n)]) /\ channel[n] # <<>>
  BY <1>1, <1>2, ReadsFit, MessageIs, HeightsNat DEF Fits
<1>4. PICK hs : hs = HeadersAfter(chain[n], start)
  OBVIOUS
<1>5. chain[n] \in Seq(Block) /\ Len(chain[Other(n)]) \in Nat
  BY NodeFacts DEF NodesOK
<1>6. hs \in BlockLists /\ Segment(hs, chain[n], Len(chain[Other(n)]))
  BY <1>3, <1>4, <1>5, HeadersAfterFacts
<1>7. PICK msg : msg = Headers(hs)
  OBVIOUS
<1>8. msg \in Message /\ msg.type = "headers" /\ msg.headers = hs
  BY <1>6, <1>7, SyncMsgs, SyncMsgType
<1>9. PICK F : F = FitMsg(chain[n], chain[Other(n)])
  OBVIOUS
<1>10. msg \in F
  BY <1>6, <1>8, <1>9 DEF FitMsg, Fits
<1>11. <<msg>> \in Seq(F)
  BY <1>10
<1>12. Answer(n, <<msg>>, BanMalformed) /\ UNCHANGED nodes
  BY <1>2, <1>4, <1>7 DEF HandleGetHeaders
<1> QED BY <1>3, <1>9, <1>11, <1>12, AnswerPeace

LEMMA HandleHeadersPeace ==
  ASSUME NodesOK, ConnOK, Peace, NEW n \in Node, OneChain(chain[n], chain[Other(n)]), HandleHeaders(n)
  PROVE  Peace'
<1>1. Reads(n, "headers")
  BY DEF HandleHeaders
<1>2. PICK hs : hs = Head(channel[n]).headers
  OBVIOUS
<1>3. PICK new : new = News(chain[n], hs)
  OBVIOUS
<1>4. hs \in Seq(Block) /\ new \in BlockLists /\ channel[n] # <<>>
  BY <1>1, <1>2, <1>3, GetBlocksReply, ReadsFit
<1>5. Segment(hs, chain[Other(n)], Len(chain[n]))
  BY <1>1, <1>2, ReadsFit DEF Fits
<1>6. /\ chain[n] \in Seq(Block) /\ chain[Other(n)] \in Seq(Block) /\ Linked(chain[Other(n)])
  BY NodeFacts DEF NodesOK
<1>7. ValidateHeaderChain(chain[n], hs)
  BY <1>4, <1>5, <1>6, HeadersAccepted
<1>8. PICK msg : msg = GetBlocks(new)
  OBVIOUS
<1>9. msg \in Message /\ msg.type = "getblocks"
  BY <1>4, <1>8, SyncMsgs, SyncMsgType
<1>10. PICK F : F = FitMsg(chain[n], chain[Other(n)])
  OBVIOUS
<1>11. msg \in F
  BY <1>9, <1>10, FitPlain
<1>12. PICK msgs : msgs = IF new = <<>> THEN <<>> ELSE <<msg>>
  OBVIOUS
<1>13. msgs \in Seq(F)
  BY <1>11, <1>12
<1>14. Answer(n, msgs, BanInvalidChain) /\ UNCHANGED nodes
  BY <1>2, <1>3, <1>7, <1>8, <1>12 DEF HandleHeaders
<1> QED BY <1>4, <1>10, <1>13, <1>14, AnswerPeace

LEMMA BlocksFit ==
  ASSUME NodesOK, NEW n \in Node, NEW bs \in Seq(Block)
  PROVE  BlockMsgs(chain[n], bs) \in Seq(FitMsg(chain[n], chain[Other(n)]))
<1>1. PICK c \in Seq(Block) : c = chain[n]
  BY DEF NodesOK
<1>2. \A b \in Range(c) : b \in Block
  BY DEF Range
<1>3. ASSUME NEW b \in Range(c), NEW e PROVE BlockMsg(b) \in FitMsg(c, e)
  <2>1. BlockMsg(b) \in Message /\ BlockMsg(b).type = "block" /\ BlockMsg(b).block = b
    BY <1>2, SyncMsgs, SyncMsgType
  <2> QED BY <2>1 DEF FitMsg, Fits
<1>4. BlockMsgsOf(c) \subseteq FitMsg(c, chain[Other(n)])
  BY <1>3 DEF BlockMsgsOf
<1>5. BlockMsgs(c, bs) \in Seq(BlockMsgsOf(c))
  BY BlockMsgsIs
<1> QED BY <1>1, <1>4, <1>5, SeqWiden

LEMMA HandleGetBlocksPeace ==
  ASSUME NodesOK, ConnOK, Peace, NEW n \in Node, HandleGetBlocks(n)
  PROVE  Peace'
<1>1. Reads(n, "getblocks") /\ Answer(n, BlockMsgs(chain[n], Head(channel[n]).hashes), 0) /\ UNCHANGED nodes
  BY DEF HandleGetBlocks
<1>2. BlockMsgs(chain[n], Head(channel[n]).hashes) \in Seq(FitMsg(chain[n], chain[Other(n)]))
  BY <1>1, BodiesRead, BlocksFit
<1> QED BY <1>1, <1>2, ReadsFit, AnswerPeace

LEMMA HandleGetDataPeace ==
  ASSUME NodesOK, ConnOK, Peace, NEW n \in Node, HandleGetData(n)
  PROVE  Peace'
<1>1. Reads(n, "getdata") /\ UNCHANGED nodes /\ channel[n] # <<>>
  BY ReadsFit DEF HandleGetData
<1>2. PICK b \in Block : b = Head(channel[n]).hash
  BY <1>1, BodiesRead
<1>3. PICK bs : bs = <<b>>
  OBVIOUS
<1>4. bs \in Seq(Block)
  BY <1>3
<1>5. Answer(n, BlockMsgs(chain[n], bs), 0)
  BY <1>2, <1>3 DEF HandleGetData
<1>6. BlockMsgs(chain[n], bs) \in Seq(FitMsg(chain[n], chain[Other(n)]))
  BY <1>4, BlocksFit
<1> QED BY <1>1, <1>5, <1>6, AnswerPeace

LEMMA HandleInvPeace ==
  ASSUME NodesOK, ConnOK, Peace, NEW n \in Node, HandleInv(n)
  PROVE  Peace'
<1>1. Reads(n, "inv") /\ UNCHANGED nodes /\ channel[n] # <<>>
  BY ReadsFit DEF HandleInv
<1>2. PICK b \in Block : b = Head(channel[n]).hash
  BY <1>1, BodiesRead
<1>3. PICK msg : msg = GetData(b)
  OBVIOUS
<1>4. msg \in Message /\ msg.type = "getdata"
  BY <1>3, SyncMsgs, SyncMsgType
<1>5. PICK F : F = FitMsg(chain[n], chain[Other(n)])
  OBVIOUS
<1>6. msg \in F
  BY <1>4, <1>5, FitPlain
<1>7. PICK msgs : msgs = IF HasBlock(n, b) THEN <<>> ELSE <<msg>>
  OBVIOUS
<1>8. msgs \in Seq(F)
  BY <1>6, <1>7
<1>9. Answer(n, msgs, BanMalformed)
  BY <1>2, <1>3, <1>7 DEF HandleInv
<1> QED BY <1>1, <1>5, <1>8, <1>9, AnswerPeace

\* A block is read, the node's chain may grow, and orphans are the other end's blocks.
LEMMA BlockReadPeace ==
  ASSUME NodesOK, NodesOK', ConnOK, Peace, NEW n \in Node, Reads(n, "block"),
         channel' = Received(n), UNCHANGED <<phase, ownHeight, announced, score, side>>,
         Extends(chain[n], chain'[n]), chain'[Other(n)] = chain[Other(n)],
         orphans'[n] \subseteq Range(chain[Other(n)]), orphans'[Other(n)] = orphans[Other(n)]
  PROVE  Peace'
<1>1. Other(n) \in Node /\ Other(n) # n /\ Other(Other(n)) = n /\ \A m \in Node : m = n \/ m = Other(n)
  BY NodeFacts
<1>2. \A m \in Node : /\ orphans[m] \subseteq Range(chain'[Other(m)])
                      /\ channel[m] \in Seq(FitMsg(chain'[Other(m)], chain'[m]))
  BY GrowFits
<1>3. channel[n] # <<>> /\ channel'[n] = Tail(channel[n]) /\ channel'[Other(n)] = channel[Other(n)]
  BY ReadsFit, ReceiveConn
<1>4. PICK G : G = FitMsg(chain'[Other(n)], chain'[n])
  OBVIOUS
<1>5. channel'[n] \in Seq(G)
  <2>1. PICK s \in Seq(G) : s = channel[n]
    BY <1>2, <1>4
  <2>2. Tail(s) \in Seq(G)
    BY <1>3, <2>1
  <2> QED BY <1>3, <2>1, <2>2
<1>6. \A m \in Node : phase'[m] # "reset" /\ phase'[m] # "closed"
  BY <1>3, OpenEnds
<1>7. ASSUME NEW m \in Node
      PROVE  /\ orphans'[m] \subseteq Range(chain'[Other(m)])
             /\ channel'[m] \in Seq(FitMsg(chain'[Other(m)], chain'[m]))
  <2>1. CASE m = n
    BY <1>4, <1>5, <2>1
  <2>2. CASE m = Other(n)
    BY <1>1, <1>2, <1>3, <2>2
  <2> QED BY <1>1, <2>1, <2>2
<1> QED BY <1>6, <1>7, PeaceIs

LEMMA HandleBlockPeace ==
  ASSUME NodesOK, NodesOK', ConnOK, Peace, NEW n \in Node, OneChain(chain[n], chain[Other(n)]), HandleBlock(n)
  PROVE  Peace'
<1>1. /\ Reads(n, "block") /\ channel' = Received(n) /\ UNCHANGED <<phase, ownHeight, announced, score>>
  BY DEF HandleBlock
<1>2. PICK b \in Block : b = Head(channel[n]).block
  BY <1>1, BodiesRead
<1>3. PICK c \in Seq(Block) : c = chain[n] /\ Linked(c)
  BY DEF NodesOK
<1>4. PICK e \in Seq(Block) : e = chain[Other(n)] /\ Linked(e)
  BY NodeFacts DEF NodesOK
<1>5. b \in Range(e) /\ orphans[n] \subseteq Range(e) /\ side[n] = {}
  BY <1>1, <1>2, <1>4, ReadsFit DEF Fits, Peace, Peaceful
<1>6. Extends(c, c)
  BY ExtendsItself
<1>7. CASE UNCHANGED <<chain, side, orphans>>
  BY <1>1, <1>3, <1>4, <1>5, <1>6, <1>7, BlockReadPeace
<1>8. CASE ExtendsTip(n, b) /\ ConnectBlock(n, b)
  <2>1. PICK t \in OrphanEnds(n, b) :
          /\ chain' = [chain EXCEPT ![n] = PathTo[t]]
          /\ orphans' = [orphans EXCEPT ![n] =
                          {o \in @ : Prev[o] # b /\ ~(Height[Prev[o]] > Height[b] /\ InChain(PathTo[t], Prev[o]))}]
          /\ UNCHANGED side
    BY <1>8 DEF ConnectBlock
  <2>2. t \in Range(e) /\ Height[t] >= Height[b] /\ Height[b] = Len(c) + 1
    BY <1>3, <1>5, <1>8 DEF OrphanEnds, ExtendsTip
  <2>3. t \in Block
    BY <2>2 DEF Range
  <2>4. Height[t] > Len(c)
    BY <2>2, <2>3, BlockFacts
  <2>5. Extends(c, PathTo[t])
    BY <1>3, <1>4, <2>2, <2>4, PathExtends
  <2>6. chain'[n] = PathTo[t] /\ chain'[Other(n)] = chain[Other(n)]
    BY <2>1, NodeFacts DEF NodesOK
  <2>7. orphans'[n] \subseteq Range(e) /\ orphans'[Other(n)] = orphans[Other(n)]
    BY <1>5, <2>1, NodeFacts DEF NodesOK
  <2> QED BY <1>1, <1>3, <1>4, <2>1, <2>5, <2>6, <2>7, BlockReadPeace
<1>9. ASSUME ~InChain(c, b), ~ExtendsTip(n, b) PROVE ~KnowsPrev(n, b)
  <2>1. ASSUME InChain(c, Prev[b]) PROVE FALSE
    <3>1. Height[b] = Len(c) + 1 /\ Prev[b] = TipOf(c)
      BY <1>3, <1>4, <1>5, <1>9, <2>1, OnlyExtends
    <3> QED BY <1>3, <1>9, <3>1 DEF ExtendsTip
  <2> QED BY <1>3, <1>5, <2>1 DEF KnowsPrev
<1>10. CASE orphans' = [orphans EXCEPT ![n] = @ \cup {b}] /\ UNCHANGED <<chain, side>>
  <2>1. orphans'[n] \subseteq Range(e) /\ orphans'[Other(n)] = orphans[Other(n)]
    BY <1>5, <1>10, NodeFacts DEF NodesOK
  <2>2. Extends(chain[n], chain'[n]) /\ chain'[Other(n)] = chain[Other(n)]
    BY <1>3, <1>6, <1>10
  <2>3. UNCHANGED <<phase, ownHeight, announced, score, side>>
    BY <1>1, <1>10
  <2> QED BY <1>1, <1>4, <2>1, <2>2, <2>3, BlockReadPeace
<1> QED BY <1>2, <1>3, <1>7, <1>8, <1>9, <1>10 DEF HandleBlock

\* A block of a chain that is near is never too far ahead.
LEMMA NoRefusal ==
  ASSUME NodesOK, ConnOK, Peace, NEW n \in Node, Near(chain[n], chain[Other(n)])
  PROVE  ~RefuseOrphan(n)
<1> SUFFICES ASSUME RefuseOrphan(n) PROVE FALSE
  OBVIOUS
<1>1. Reads(n, "block")
  BY DEF RefuseOrphan
<1>2. PICK b \in Block : b = Head(channel[n]).block
  BY <1>1, BodiesRead
<1>3. PICK e \in Seq(Block) : e = chain[Other(n)] /\ Linked(e)
  BY NodeFacts DEF NodesOK
<1>4. b \in Range(e)
  BY <1>1, <1>2, <1>3, ReadsFit DEF Fits
<1>5. PICK k \in 1..Len(e) : b = e[k]
  BY <1>4, InRange
<1>6. Height[b] = k
  BY <1>3, <1>5, LinkedHeights
<1>7. Height[b] > Len(chain[n]) + MaxGap
  BY <1>2 DEF RefuseOrphan, TooFar
<1>8. Len(e) <= Len(chain[n]) + MaxGap /\ Len(chain[n]) \in Nat /\ MaxGap \in Nat
  BY <1>3, SyncAssumption DEF Near, NodesOK
<1> QED BY <1>5, <1>6, <1>7, <1>8

LEMMA ReadEndPeace ==
  ASSUME ConnOK, Peace, NEW n \in Node, ReadEnd(n)
  PROVE  Peace'
<1>1. Other(n) \in Node /\ Other(Other(n)) = n /\ \A m \in Node : m = n \/ m = Other(n)
  BY NodeFacts
<1>2. phase[Other(n)] = "closed"
  BY <1>1 DEF ReadEnd, Closed, Peace, Peaceful
<1>3. \A m \in Node : channel[m] = <<>>
  BY <1>1, <1>2 DEF Peace, Peaceful
<1>4. HangUp(n, 0) /\ UNCHANGED nodes
  BY <1>2 DEF ReadEnd
<1> QED BY <1>3, <1>4, HangUpPeace

\* As seen from either end.
LEMMA BothWays ==
  ASSUME HistoryOK, ~forked, ~farBehind, NEW n \in Node
  PROVE  OneChain(chain[n], chain[Other(n)]) /\ Near(chain[n], chain[Other(n)])
<1>1. OneChain(chain[Dialler], chain[Listener]) /\ Near(chain[Dialler], chain[Listener])
  BY DEF HistoryOK
<1>2. (n = Dialler /\ Other(n) = Listener) \/ (n = Listener /\ Other(n) = Dialler)
  BY NodeFacts
<1>3. \A a, b : (OneChain(a, b) => OneChain(b, a)) /\ (Near(a, b) => Near(b, a))
  BY DEF OneChain, Near
<1> QED BY <1>1, <1>2, <1>3

\* One chain before and after a step keeps the peace.
LEMMA PeaceStep ==
  ASSUME NodesOK, ConnOK, HistoryOK, ~forked, ~farBehind, Peace, [Next]_vars, late' = 0
  PROVE  Peace'
<1>0. NodesOK'
  BY NodesStep
<1>1. \A n \in Node : OneChain(chain[n], chain[Other(n)]) /\ Near(chain[n], chain[Other(n)])
  BY BothWays
<1>2. CASE Connect
  BY <1>2, ConnectPeace
<1>3. ASSUME NEW n \in Node, Handle(n) PROVE Peace'
  <2>1. CASE ReadVersion(n)
    BY <2>1, ReadVersionPeace
  <2>2. CASE ExpectVerAck(n)
    BY <2>2, ExpectVerAckPeace
  <2>3. CASE HandleGetHeaders(n)
    BY <2>3, HandleGetHeadersPeace
  <2>4. CASE HandleHeaders(n)
    BY <1>1, <2>4, HandleHeadersPeace
  <2>5. CASE HandleGetBlocks(n)
    BY <2>5, HandleGetBlocksPeace
  <2>6. CASE HandleInv(n)
    BY <2>6, HandleInvPeace
  <2>7. CASE HandleGetData(n)
    BY <2>7, HandleGetDataPeace
  <2>8. CASE HandleBlock(n)
    BY <1>0, <1>1, <2>8, HandleBlockPeace
  <2>9. CASE RefuseOrphan(n)
    BY <1>1, <2>9, NoRefusal
  <2>10. CASE ReadEnd(n)
    BY <2>10, ReadEndPeace
  <2> QED BY <1>3, <2>1, <2>2, <2>3, <2>4, <2>5, <2>6, <2>7, <2>8, <2>9, <2>10 DEF Handle
<1>4. ASSUME NEW n \in Node, SyncStep(n) PROVE Peace'
  BY <1>0, <1>4, SyncStepPeace
<1>5. ASSUME NEW n \in Node, IdleTimeout(n) PROVE Peace'
  BY <1>5, HangUpPeace DEF IdleTimeout
<1>6. ASSUME NEW n \in Node, NEW b \in Block, Mine(n, b) PROVE Peace'
  BY <1>0, <1>6, MinePeace
<1>7. ASSUME NEW n \in Node, LateTimeout(n) PROVE FALSE
  BY <1>7 DEF LateTimeout, HistoryOK
<1>8. CASE UNCHANGED vars
  BY <1>8 DEF vars, Peace, Peaceful
<1> QED BY <1>2, <1>3, <1>4, <1>5, <1>6, <1>7, <1>8 DEF Next

-----------------------------------------------------------------------------
(* The theorems. *)

LEMMA SInvInit == Init => SInv
<1> SUFFICES ASSUME Init PROVE SInv
  OBVIOUS
<1>1. PICK none : none = <<>>
  OBVIOUS
<1>2. \A S : none \in Seq(S)
  BY <1>1
<1>3. Len(none) = 0
  BY <1>1
<1>4. /\ chain = [n \in Node |-> none] /\ side = [n \in Node |-> {}] /\ orphans = [n \in Node |-> {}]
      /\ phase = [n \in Node |-> "closed"] /\ ownHeight = [n \in Node |-> 0] /\ announced = [n \in Node |-> 0]
      /\ channel = [n \in Node |-> none] /\ score = [n \in Node |-> 0] /\ forked = FALSE /\ farBehind = FALSE
      /\ late = 0
  BY <1>1 DEF Init
<1>5. 0 \in Heights
  BY BlockFacts DEF Heights
<1>6. Linked(none)
  BY <1>3 DEF Linked
<1>7. NodesOK
  BY <1>2, <1>4, <1>6 DEF NodesOK
<1>8. ConnOK
  <2>1. Handshake(phase[Dialler], phase[Listener], channel[Dialler], channel[Listener])
    BY <1>2, <1>4, NodeFacts DEF Handshake
  <2>2. channel \in [Node -> Seq(Message)] /\ ownHeight \in [Node -> Heights] /\ announced \in [Node -> Heights]
    BY <1>2, <1>4, <1>5
  <2>3. score \in [Node -> 0..BanThreshold]
    BY <1>4 DEF BanThreshold
  <2>4. phase \in [Node -> {"closed", "reset", "version", "verack", "active"}]
    BY <1>4
  <2> QED BY <2>1, <2>2, <2>3, <2>4 DEF ConnOK
<1>9. HistoryOK
  <2>1. chain[Dialler] = none /\ chain[Listener] = none
    BY <1>4, NodeFacts
  <2>2. none \in Seq(Block)
    BY <1>2
  <2>3. IsPrefix(none, none)
    <3>1. Len(none) <= Len(none) /\ \A i \in 1..Len(none) : none[i] = none[i]
      BY <1>3
    <3> QED BY <2>2, <3>1, PrefixIs, Zenon
  <2>4. OneChain(none, none) /\ Near(none, none)
    BY <1>3, <2>3, SyncAssumption DEF OneChain, Near
  <2>5. late \in 0..MaxLate
    BY <1>4, SyncAssumption
  <2> QED BY <1>4, <2>1, <2>4, <2>5 DEF HistoryOK
<1>10. ASSUME NEW n \in Node PROVE Peaceful(n)
  <2>1. Other(n) \in Node
    BY NodeFacts
  <2>2. channel[n] = none /\ channel[Other(n)] = none
    BY <1>4, <2>1
  <2>3. channel[n] \in Seq(FitMsg(chain[Other(n)], chain[n]))
    BY <1>2, <2>2
  <2> QED BY <1>1, <1>4, <2>1, <2>2, <2>3 DEF Peaceful
<1> QED BY <1>7, <1>8, <1>9, <1>10 DEF SInv

LEMMA SInvStep == SInv /\ [Next]_vars => SInv'
<1> SUFFICES ASSUME SInv, [Next]_vars PROVE SInv'
  OBVIOUS
<1>1. NodesOK /\ ConnOK /\ HistoryOK
  BY DEF SInv
<1>2. NodesOK' /\ ConnOK'
  BY <1>1, NodesStep, ConnStep
<1>3. HistoryOK' /\ (forked => forked') /\ (farBehind => farBehind') /\ (late' = 0 => late = 0)
  BY <1>1, HistoryStep
<1>4. ASSUME ~forked', ~farBehind', late' = 0 PROVE Peace'
  <2>1. ~forked /\ ~farBehind /\ late = 0
    BY <1>3, <1>4
  <2>2. Peace
    BY <2>1 DEF SInv, Peace
  <2> QED BY <1>1, <1>4, <2>1, <2>2, PeaceStep
<1>5. ~forked' /\ ~farBehind' /\ late' = 0 => (\A n \in Node : Peaceful(n))'
  BY <1>4 DEF Peace
<1> QED BY <1>2, <1>3, <1>5 DEF SInv

(***************************************************************************)
(* For every block tree and every limit: the state has its types and every *)
(* message on its way is one its receiver decodes.  No answer to a         *)
(* getheaders, and no getblocks made from one, exceeds the list limit that *)
(* the other end enforces.                                                 *)
(***************************************************************************)
THEOREM SyncTypesHold == Spec => []TypeOK
<1>1. SInv => TypeOK
  BY DEF SInv, NodesOK, ConnOK, HistoryOK, TypeOK
<1> QED BY <1>1, SInvInit, SInvStep, PTL DEF Spec

(***************************************************************************)
(* For every block tree, gap and limit, and any number of connections:     *)
(* while one node's chain is the beginning of the other's, the longer one  *)
(* not more than MaxGap ahead and no deadline has passed with a message on *)
(* its way, neither handleHeaders nor handleBlock nor the end of a         *)
(* connection makes a node charge the other.                               *)
(***************************************************************************)
THEOREM HonestNeverCharged == Spec => []NoPenaltyOnOneChain
<1>1. SInv => NoPenaltyOnOneChain
  <2> SUFFICES ASSUME SInv, ~forked, ~farBehind, ~(late > 0), NEW n \in Node PROVE ~(score[n] > 0)
    BY DEF NoPenaltyOnOneChain
  <2>1. late = 0
    BY DEF SInv, HistoryOK
  <2>2. score[n] = 0
    BY <2>1 DEF SInv, Peaceful
  <2> QED BY <2>2
<1> QED BY <1>1, SInvInit, SInvStep, PTL DEF Spec

=============================================================================
