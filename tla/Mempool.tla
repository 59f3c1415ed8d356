------------------------------ MODULE Mempool ------------------------------
(***************************************************************************)
(* The transaction pool of the RPC server and how it follows the chain.    *)
(*                                                                         *)
(* Blocks that come over RPC prune the pool before chainMu is released.    *)
(* Blocks that come from peers do not: connectBlock changes the chain and  *)
(* releases chainMu, and only then does handleBlock call back, once per    *)
(* connected block or once per reorganisation, taking chainMu again each   *)
(* time.  Several peers' goroutines do this at once, so a notification can *)
(* be delivered to a pool and a chain that have moved on.                  *)
(*                                                                         *)
(* A transaction has one output, named after it; the coinbase output of a  *)
(* block is named after the block.  Signatures, scripts and the balance of *)
(* amounts are taken to be right: what is left is whether the inputs are   *)
(* in the UTXO set, and for a coinbase mature, which is what changes under *)
(* the pool.  Of an amount it matters here whether it is zero.             *)
(***************************************************************************)
EXTENDS Integers, Sequences, FiniteSets, SequencesExt

CONSTANTS
    Tx, Inputs,     \* Inputs[t]: the transactions and coinbases t spends
    Block, Genesis, Parent,
    TxsOf,          \* TxsOf[b]: the transactions of b, its coinbase left out
    Value,          \* Value[o]: atoms
    Maturity,       \* params.CoinbaseMaturity
    Handler         \* goroutines that serve peers

VARIABLES
    chain,          \* blocks above the genesis block
    mempool,
    notes           \* notes[h]: callbacks h's handleBlock has still to make

vars == <<chain, mempool, notes>>

ASSUME MempoolAssumption ==
    /\ Genesis \notin Block /\ Tx \cap Block = {}
    /\ Parent \in [Block -> Block \cup {Genesis}]
    /\ TxsOf \in [Block -> Seq(Tx)]
    /\ Inputs \in [Tx -> (SUBSET (Tx \cup Block)) \ {{}}]
    /\ Value \in [Tx \cup Block -> Nat]
    /\ Maturity \in Nat

Note == [disconnected : Seq(Block), connected : Seq(Block)]

TypeOK ==
    /\ chain \in Seq(Block)
    /\ mempool \in Seq(Tx)
    /\ notes \in [Handler -> Seq(Note)]

Init ==
    /\ chain = <<>> /\ mempool = <<>>
    /\ notes = [h \in Handler |-> <<>>]

-----------------------------------------------------------------------------
(* The ledger. *)

TipOf(c) == IF c = <<>> THEN Genesis ELSE Last(c)

TxsIn(s) == UNION {Range(TxsOf[s[i]]) : i \in DOMAIN s}
Spent(ts) == UNION {Inputs[t] : t \in ts}

\* connectTxOutputs: an output worth nothing does not enter the UTXO set.
Funded(os) == {o \in os : Value[o] # 0}

\* The UTXO set of a chain.
Unspent(c) == LET ts == TxsIn(c) IN Funded(Range(c) \cup ts) \ Spent(ts)

Mature(c, o) == \A i \in DOMAIN c : c[i] = o => Len(c) + 1 >= i + Maturity

\* CalcFees: the transactions of s connect to c one after the other.
Connects(c, s) ==
    LET unspent == Unspent(c) IN
    \A i \in DOMAIN s :
       LET before == {s[j] : j \in 1..(i-1)} IN
       \A o \in Inputs[s[i]] :
          /\ o \in (unspent \cup Funded(before)) \ Spent(before)
          /\ Mature(c, o)

Extends(c, b) == Parent[b] = TipOf(c) /\ Connects(c, TxsOf[b])

\* Each block of s connects on top of the one before.
ExtendsBy(c, s) == \A i \in DOMAIN s : Extends(c \o SubSeq(s, 1, i-1), s[i])

-----------------------------------------------------------------------------
(* The pool. *)

\* acceptTransactionLocked: t joins if the whole pool still connects with it.
Accepted(c, pool, t) ==
    IF t \notin Range(pool) /\ Connects(c, Append(pool, t)) THEN Append(pool, t) ELSE pool

\* Mutant: what the new blocks contain is dropped, nothing else is looked at.
DropIncluded(c, pool, included) == SelectSeq(pool, LAMBDA t : t \notin included)

\* revalidateMempoolLocked: in order, whatever still connects.
Revalidated(c, pool, included) ==
    LET Keep(filtered, t) ==
          IF t \notin included /\ Connects(c, Append(filtered, t))
          THEN Append(filtered, t) ELSE filtered
    IN FoldLeft(Keep, <<>>, pool)

\* Mutant: only the highest disconnected block is looked at.
ReturnedOfTip(note) ==
    IF note.disconnected = <<>> THEN <<>> ELSE TxsOf[Head(note.disconnected)]

\* The transactions NotifyChainReorganized goes through, lowest block first.
Returned(note) == FoldLeft(LAMBDA s, b : TxsOf[b] \o s, <<>>, note.disconnected)

\* Those that the new blocks have are passed over.
Offer(c, included, pool, t) == IF t \in included THEN pool ELSE Accepted(c, pool, t)

OfferAll(c, included, pool, s) == FoldLeft(LAMBDA p, t : Offer(c, included, p, t), pool, s)

\* NotifyBlockConnected and NotifyChainReorganized, against the chain of now.
AfterNote(c, pool, note) ==
    LET included == TxsIn(note.connected)
    IN Revalidated(c, OfferAll(c, included, pool, Returned(note)), included)

-----------------------------------------------------------------------------
(* Actions, each one a hold of chainMu. *)

AcceptTransaction(t) ==
    /\ mempool' = Accepted(chain, mempool, t)
    /\ mempool' # mempool
    /\ UNCHANGED <<chain, notes>>

\* handleSubmitBlock, and handleGenerate, whose block takes its transactions from the pool.
SubmitBlock(b) ==
    /\ Extends(chain, b)
    /\ chain' = Append(chain, b)
    /\ mempool' = Revalidated(chain', mempool, Range(TxsOf[b]))
    /\ UNCHANGED notes

\* A peer's block extends the tip, and with it the orphans that waited for it.
ConnectBlocks(h, s) ==
    /\ notes[h] = <<>>
    /\ ExtendsBy(chain, s)
    /\ chain' = chain \o s
    /\ notes' = [notes EXCEPT ![h] =
                   [i \in DOMAIN s |-> [disconnected |-> <<>>, connected |-> <<s[i]>>]]]
    /\ UNCHANGED mempool

\* disconnectedBlocksForBranchLocked: highest first.
Disconnected(fork) == Reverse(SubSeq(chain, fork + 1, Len(chain)))

IsLonger(fork, branch) == fork + Len(branch) > Len(chain)

\* A peer's block makes a branch longer than the chain above height fork.
ReorganizeTo(h, fork, branch) ==
    /\ notes[h] = <<>>
    /\ fork < Len(chain) /\ IsLonger(fork, branch)
    /\ branch[1] # chain[fork+1]
    /\ ExtendsBy(SubSeq(chain, 1, fork), branch)
    /\ chain' = SubSeq(chain, 1, fork) \o branch
    /\ notes' = [notes EXCEPT ![h] =
                   <<[disconnected |-> Disconnected(fork), connected |-> branch]>>]
    /\ UNCHANGED mempool

\* Only a delivery shortens the queue, so fairness of this is fairness of Deliver.
TakesNote(h) == notes[h] # <<>> /\ notes' = [notes EXCEPT ![h] = Tail(@)]

Deliver(h) ==
    /\ TakesNote(h)
    /\ mempool' = AfterNote(chain, mempool, Head(notes[h]))
    /\ UNCHANGED chain

\* Branches of at most n blocks, each the child of the one before.
Branches(n) ==
    UNION {{s \in [1..k -> Block] : \A i \in 2..k : Parent[s[i]] = s[i-1]} : k \in 1..n}
ShortBranches == Branches(2)
LongBranches == Branches(3)

Next ==
    \/ \E t \in Tx : AcceptTransaction(t)
    \/ \E b \in Block : SubmitBlock(b)
    \/ \E h \in Handler :
         \/ \E s \in ShortBranches : ConnectBlocks(h, s)
         \/ \E fork \in 0..Len(chain) : \E s \in LongBranches : ReorganizeTo(h, fork, s)
         \/ Deliver(h)

Spec == Init /\ [][Next]_vars /\ \A h \in Handler : WF_notes(TakesNote(h))

-----------------------------------------------------------------------------
(* Properties. *)

Quiet == \A h \in Handler : notes[h] = <<>>

(***************************************************************************)
(* When every callback has been made, in whatever order, the pool as a     *)
(* whole connects to the chain: the next block template can be built from  *)
(* it.                                                                     *)
(***************************************************************************)
PoolMineable == Quiet => Connects(chain, mempool)

(***************************************************************************)
(* A pool that a peer's block made stale is put right again.               *)
(***************************************************************************)
PoolRecovers == []<>Connects(chain, mempool)

(***************************************************************************)
(* The callback of a reorganisation puts a disconnected transaction back   *)
(* into the pool if it is valid on the new chain and spends nothing that a *)
(* transaction left in the pool spends.  Two things may keep it out.  The  *)
(* pool as it was may no longer connect: acceptTransactionLocked runs over *)
(* the whole pool, so one transaction the reorganisation made invalid      *)
(* keeps all of them out.  And another goroutine may have reorganised      *)
(* again before the callback: it then drops from the pool what the blocks  *)
(* it is told of contain, though they have left the chain.                 *)
(***************************************************************************)
ReturnsValid ==
    [][\A h \in Handler :
         LET note == Head(notes[h]) IN
         Deliver(h) /\ Connects(chain, mempool) /\ Range(note.connected) \subseteq Range(chain) =>
           \A t \in TxsIn(note.disconnected) \ TxsIn(note.connected) :
              Connects(chain, <<t>>) =>
                 \/ t \in Range(mempool')
                 \/ \E u \in Range(mempool') : Inputs[u] \cap Inputs[t] # {}]_vars

=============================================================================
