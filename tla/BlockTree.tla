----------------------------- MODULE BlockTree -----------------------------
(***************************************************************************)
(* The blocks a node may be sent, and what makes one of them valid.        *)
(*                                                                         *)
(* A block is identified with its hash.  The header fields the node's      *)
(* control flow reads (PrevBlock, Height, Timestamp) are functions of the  *)
(* block; the outcome of every check that depends only on the block and on *)
(* the ancestry its hash commits to is membership in a set:                *)
(*   WorkOK   at least one transaction, merkle root and proof of work pass *)
(*   BitsOK   Bits equals the ASERT value computed from the parent         *)
(*   BodyOK   transactions and coinbase connect to the UTXO set of the     *)
(*            block's ancestors                                            *)
(* What is left is what changes from one evaluation to the next: the tip   *)
(* the block is held against and the clock.  Time is in whole seconds, the *)
(* granularity of a block timestamp.                                       *)
(***************************************************************************)
EXTENDS Integers, Sequences

CONSTANTS
    Block,          \* every block but the genesis block
    Genesis,
    Prev,           \* Header.PrevBlock
    Height,         \* Header.Height, whatever the sender put there
    Time,           \* Header.Timestamp
    WorkOK, BitsOK, BodyOK,
    MaxFuture,      \* params.MaxFutureBlockTime
    TargetTime,     \* params.TargetTimePerBlock
    MiningStart     \* params.MiningStartTime, 0 when mining is always open

AnyBlock == Block \cup {Genesis}

ASSUME BlockAssumption ==
    /\ Genesis \notin Block
    /\ Prev \in [Block -> AnyBlock]
    /\ Height \in [AnyBlock -> Nat]
    /\ Height[Genesis] = 0
    /\ Time \in [AnyBlock -> Nat]
    /\ WorkOK \subseteq Block

ASSUME ParamAssumption ==
    /\ MaxFuture \in Int
    /\ TargetTime \in Nat
    /\ MiningStart \in Nat

-----------------------------------------------------------------------------
(* Consensus time rules. *)

MiningOpen(now) == MiningStart = 0 \/ now >= MiningStart

\* A chain whose tip is ahead of now + MaxFuture may still grow, by one second.
MaxAllowedBlockTime(prevTime, now) ==
    IF MaxFuture <= 0 THEN prevTime + TargetTime
    ELSE IF prevTime > now + MaxFuture THEN prevTime + 1
    ELSE now + MaxFuture

CheckBlockTimestamp(prevTime, blockTime, now) ==
    /\ blockTime > prevTime
    /\ blockTime <= MaxAllowedBlockTime(prevTime, now)

-----------------------------------------------------------------------------
(* Chains: sequences of blocks above the genesis block, lowest first, so   *)
(* that a chain's length is its height.                                    *)

TipOf(c) == IF c = <<>> THEN Genesis ELSE c[Len(c)]

Before(c, i) == IF i = 1 THEN Genesis ELSE c[i-1]

InChain(c, b) == b = Genesis \/ \E i \in 1..Len(c) : c[i] = b

\* The checks of validateBlock that do not read the clock.
Links(b, parent, expectedHeight) ==
    /\ b \in WorkOK
    /\ Height[b] = expectedHeight
    /\ Prev[b] = parent
    /\ Time[b] > Time[parent]
    /\ b \in BitsOK
    /\ b \in BodyOK

\* Mutant: historical blocks are checked for their place in the chain only.
TrustHistory(b, parent, expectedHeight, now, enforceFutureLimit) ==
    /\ Prev[b] = parent /\ Height[b] = expectedHeight
    /\ enforceFutureLimit =>
         /\ Links(b, parent, expectedHeight)
         /\ CheckBlockTimestamp(Time[parent], Time[b], now)

\* validateBlock(block, enforceFutureLimit) of a chain with tip parent.
ValidateBlock(b, parent, expectedHeight, now, enforceFutureLimit) ==
    /\ MiningOpen(now)
    /\ Links(b, parent, expectedHeight)
    /\ enforceFutureLimit => CheckBlockTimestamp(Time[parent], Time[b], now)

\* AddBlock or AddStoredBlock, block by block, accepts all of c.
Replays(c, now, enforceFutureLimit) ==
    \A i \in 1..Len(c) : ValidateBlock(c[i], Before(c, i), i, now, enforceFutureLimit)

\* What consensus says of a chain at any later time.
ValidChain(c) == \A i \in 1..Len(c) : Links(c[i], Before(c, i), i)

=============================================================================
