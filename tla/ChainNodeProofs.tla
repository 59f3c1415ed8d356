-------------------------- MODULE ChainNodeProofs --------------------------
(***************************************************************************)
(* Proofs about ChainNode, for every block tree, every set of peers and    *)
(* every value of the bounds.                                              *)
(***************************************************************************)
EXTENDS ChainNode, SequenceTheorems, TLAPS

(***************************************************************************)
(* A chain grown by a block that links to its tip is a valid chain.        *)
(***************************************************************************)
LEMMA AppendValid ==
  ASSUME NEW c \in Seq(Block), NEW b \in Block,
         ValidChain(c), Links(b, TipOf(c), Len(c) + 1)
  PROVE  /\ Append(c, b) \in Seq(Block)
         /\ Len(Append(c, b)) = Len(c) + 1
         /\ ValidChain(Append(c, b))
<1> DEFINE d == Append(c, b)
<1>1. d \in Seq(Block) /\ Len(d) = Len(c) + 1 /\ d[Len(c) + 1] = b
  OBVIOUS
<1>2. \A i \in 1..Len(c) : d[i] = c[i]
  OBVIOUS
<1>3. ASSUME NEW i \in 1..Len(d) PROVE Links(d[i], Before(d, i), i)
  <2>1. CASE i \in 1..Len(c)
    <3>1. d[i] = c[i] /\ Before(d, i) = Before(c, i)
      BY <2>1, <1>2 DEF Before
    <3>2. Links(c[i], Before(c, i), i)
      BY <2>1 DEF ValidChain
    <3> QED BY <3>1, <3>2
  <2>2. CASE i = Len(c) + 1
    <3>1. Before(d, i) = TipOf(c)
      <4>1. CASE c = <<>>
        BY <4>1, <2>2 DEF Before, TipOf
      <4>2. CASE c # <<>>
        BY <4>2, <2>2, <1>2 DEF Before, TipOf
      <4> QED BY <4>1, <4>2
    <3> QED BY <3>1, <2>2, <1>1
  <2> QED BY <2>1, <2>2, <1>1
<1> QED BY <1>1, <1>3 DEF ValidChain

(***************************************************************************)
(* What Store.Load and the reorganisation replay accept is a valid chain,  *)
(* with or without the future limit.                                       *)
(***************************************************************************)
LEMMA ReplaysValid ==
  ASSUME NEW c, NEW t, NEW e, Replays(c, t, e)
  PROVE  ValidChain(c)
BY DEF Replays, ValidateBlock, ValidChain

(***************************************************************************)
(* A valid reorganised chain is a sequence of blocks that ends in the last *)
(* block of the branch, whose height is its length.                        *)
(***************************************************************************)
LEMMA ReorganizedType ==
  ASSUME NEW c \in Seq(Block), NEW br \in Seq(Block), br # <<>>,
         ValidChain(Reorganized(c, br))
  PROVE  /\ Reorganized(c, br) \in Seq(Block)
         /\ Reorganized(c, br) # <<>>
         /\ Len(Reorganized(c, br)) = Height[br[Len(br)]]
<1> DEFINE fork == Height[Prev[br[1]]]
           N == fork + Len(br)
           r == Reorganized(c, br)
<1>1. br[1] \in Block /\ Len(br) \in Nat /\ Len(br) > 0
  OBVIOUS
<1>2. fork \in Nat
  BY <1>1, BlockAssumption
<1>3. N \in Nat /\ N > 0
  BY <1>1, <1>2
<1>4. r = [i \in 1..N |-> IF i <= fork THEN c[i] ELSE br[i - fork]]
  BY DEF Reorganized
<1> HIDE DEF fork, r
<1>5. Len(r) = N /\ DOMAIN r = 1..N
  BY <1>3, <1>4
<1>6. \A i \in 1..N : r[i] \in Block /\ Height[r[i]] = i
  BY <1>5, BlockAssumption DEF ValidChain, Links, r
<1>7. r \in Seq(Block)
  <2>1. r \in [1..N -> Block]
    BY <1>4, <1>6
  <2> QED BY <2>1, <1>3, SeqDef
<1>8. r[N] = br[Len(br)]
  BY <1>1, <1>2, <1>3, <1>4
<1> QED BY <1>3, <1>5, <1>6, <1>7, <1>8 DEF r

-----------------------------------------------------------------------------
(* What holds in every environment. *)

(***************************************************************************)
(* A handler in flight carries a block, or a branch whose reorganised      *)
(* chain was found valid; chain does not change before it is used.         *)
(***************************************************************************)
InFlightOK ==
  /\ ~up => pc = "idle"
  /\ pc \in {"append", "add"} => blk \in Block
  /\ pc \in {"replace", "reorganize"} =>
       /\ branch # <<>>
       /\ IsLonger(branch)
       /\ ValidChain(Reorganized(chain, branch))

\* The inductive invariant.
GInv == TypeOK /\ ChainValid /\ InFlightOK

LEMMA GInvInit == Init => GInv
BY DEF Init, GInv, TypeOK, ChainValid, InFlightOK, ValidChain

(***************************************************************************)
(* What Fail leaves: the handler ends or goes back to the orphan loop, and *)
(* at most a ban score and a peer entry have changed.                      *)
(***************************************************************************)
LEMMA FailType ==
  ASSUME TypeOK, Fail
  PROVE  /\ pc' \in {"idle", "orphans"}
         /\ from' \in Peer \cup {Local, Orphan}
         /\ blk' \in Block \cup {NoBlock}
         /\ branch' \in Seq(Block)
         /\ due' \subseteq Block
         /\ claim' \in [Peer -> Claims \cup {NoPeer}]
         /\ banScores' \in [Peer -> Nat]
<1>1. CASE from = Orphan
  BY <1>1 DEF TypeOK, Fail, net
<1>2. CASE from # Orphan
  <2>1. Idle
    BY <1>2 DEF Fail
  <2>2. \/ from \in Peer /\ Penalise(from)
        \/ UNCHANGED net
    BY <1>2 DEF Fail
  <2>3. /\ claim' \in [Peer -> Claims \cup {NoPeer}]
        /\ banScores' \in [Peer -> Nat]
    <3>1. CASE UNCHANGED net
      BY <3>1 DEF TypeOK, net
    <3>2. CASE from \in Peer /\ Penalise(from)
      BY <3>2 DEF TypeOK, Penalise, BanInvalidChain
    <3> QED BY <2>2, <3>1, <3>2
  <2>4. <<>> \in Seq(Block)
    OBVIOUS
  <2> QED BY <2>1, <2>3, <2>4 DEF Idle
<1> QED BY <1>1, <1>2

LEMMA DeliverKeepsGInv ==
  ASSUME GInv, NEW p \in Peer, NEW b \in Block, Deliver(p, b)
  PROVE  GInv'
<1> USE DEF GInv
<1>1. CASE BeginConnect(p, b)
  BY <1>1 DEF BeginConnect, TypeOK, ChainValid, InFlightOK, env, mem, net, MayDeliver, Free
<1>2. CASE RejectBlock(p, b)
  BY <1>2 DEF RejectBlock, Penalise, BanInvalidChain, TypeOK, ChainValid, InFlightOK,
              env, mem, job, MayDeliver, Free
<1>3. CASE KeepOrphan(p, b)
  BY <1>3 DEF KeepOrphan, TypeOK, ChainValid, InFlightOK, env, net, job, MayDeliver, Free
<1>4. CASE KeepSide(p, b)
  BY <1>4 DEF KeepSide, TypeOK, ChainValid, InFlightOK, env, net, job, MayDeliver, Free
<1>5. CASE TryReorganize(p, b)
  <2>1. PICK n \in 1..Height[b] :
          /\ BranchReachesMain(sideBlocks', b, n)
          /\ IsLonger(SideBranch(b, n))
          /\ \/ /\ Replays(Reorganized(chain, SideBranch(b, n)), now, TRUE)
                /\ pc' = "replace" /\ from' = p /\ branch' = SideBranch(b, n)
                /\ UNCHANGED <<net, blk, due>>
             \/ Penalise(p) /\ UNCHANGED job
    BY <1>5 DEF TryReorganize
  <2>2. sideBlocks' \subseteq Block
    BY <1>5 DEF TryReorganize, TypeOK
  <2>3. SideBranch(b, n) \in Seq(Block) /\ SideBranch(b, n) # <<>>
    <3>1. n \in Nat /\ n > 0
      BY BlockAssumption DEF AnyBlock
    <3>2. \A i \in 1..n : Ancestor[n-i][b] \in Block
      BY <3>1, <2>1, <2>2 DEF BranchReachesMain
    <3>3. SideBranch(b, n) \in [1..n -> Block]
      BY <3>2 DEF SideBranch
    <3> QED BY <3>1, <3>3, SeqDef
  <2>4. UNCHANGED <<env, chain, orphans, store>> /\ up
    BY <1>5 DEF TryReorganize, MayDeliver, Free
  <2>5. CASE Penalise(p) /\ UNCHANGED job
    BY <2>2, <2>4, <2>5, <1>5
    DEF Penalise, BanInvalidChain, TypeOK, ChainValid, InFlightOK, env, job,
        TryReorganize, MayDeliver, Free
  <2>6. CASE /\ Replays(Reorganized(chain, SideBranch(b, n)), now, TRUE)
             /\ pc' = "replace" /\ from' = p /\ branch' = SideBranch(b, n)
             /\ UNCHANGED <<net, blk, due>>
    <3>1. ValidChain(Reorganized(chain, SideBranch(b, n)))
      BY <2>6, ReplaysValid
    <3>2. TypeOK'
      BY <2>2, <2>3, <2>4, <2>6 DEF TypeOK, env, net
    <3>3. InFlightOK'
      BY <2>1, <2>3, <2>4, <2>6, <3>1 DEF InFlightOK, IsLonger, ChainHeight, env
    <3> QED BY <3>2, <3>3, <2>4 DEF ChainValid
  <2> QED BY <2>1, <2>5, <2>6
<1> QED BY <1>1, <1>2, <1>3, <1>4, <1>5 DEF Deliver


LEMMA HandlerKeepsGInv ==
  ASSUME GInv, HandlerStep \/ DiskError
  PROVE  GInv'
<1> USE DEF GInv
<1>f. ASSUME up, Fail, UNCHANGED <<up, now, mem>>, store' \in Seq(Block), faults' \in Nat
      PROVE  GInv'
  <2>1. TypeOK'
    BY <1>f, FailType DEF TypeOK, mem
  <2>2. InFlightOK'
    BY <1>f, FailType DEF InFlightOK
  <2> QED BY <1>f, <2>1, <2>2 DEF ChainValid, mem
<1>1. CASE StoreAppend
  <2>1. blk \in Block /\ store' = Append(store, blk)
    BY <1>1 DEF StoreAppend, InFlightOK
  <2>2. store' \in Seq(Block)
    BY <2>1 DEF TypeOK
  <2> QED BY <1>1, <2>2 DEF StoreAppend, TypeOK, ChainValid, InFlightOK, env, mem, net
<1>2. CASE AddBlock
  <2>1. Links(blk, TipOf(chain), Len(chain) + 1)
    BY <1>2 DEF AddBlock, ValidatesNow, ValidateBlock, Tip, ChainHeight
  <2>2. blk \in Block
    BY <1>2 DEF AddBlock, InFlightOK
  <2>3. chain' \in Seq(Block) /\ ValidChain(chain')
    BY <1>2, <2>1, <2>2, AppendValid DEF AddBlock, TypeOK, ChainValid
  <2>4. CASE from = Local
    BY <1>2, <2>3, <2>4 DEF AddBlock, Idle, TypeOK, ChainValid, InFlightOK, env, net
  <2>5. CASE from # Local
    BY <1>2, <2>3, <2>5
    DEF AddBlock, WaitingFor, TypeOK, ChainValid, InFlightOK, env, net
  <2> QED BY <2>4, <2>5
<1>3. CASE AddBlockFails
  BY <1>3, <1>f DEF AddBlockFails, TypeOK, env
<1>4. ASSUME NEW o \in Block, TakeOrphan(o) PROVE GInv'
  BY <1>4 DEF TakeOrphan, TypeOK, ChainValid, InFlightOK, env, net
<1>5. CASE OrphansDone
  BY <1>5 DEF OrphansDone, Idle, TypeOK, ChainValid, InFlightOK, env, mem, net
<1>6. CASE StoreReplace
  <2>1. Reorganized(chain, branch) \in Seq(Block)
    BY <1>6, ReorganizedType DEF StoreReplace, TypeOK, InFlightOK
  <2> QED BY <1>6, <2>1
          DEF StoreReplace, TypeOK, ChainValid, InFlightOK, IsLonger, ChainHeight,
              env, mem, net
<1>7. CASE Reorganize
  <2>1. Reorganized(chain, branch) \in Seq(Block) /\ ValidChain(Reorganized(chain, branch))
    BY <1>7, ReorganizedType DEF Reorganize, TypeOK, InFlightOK
  <2>2. chain' = Reorganized(chain, branch) /\ sideBlocks' \subseteq Block /\ Idle
        /\ UNCHANGED <<env, orphans, net, store>>
    BY <1>7 DEF Reorganize, TypeOK
  <2> QED BY <2>1, <2>2 DEF Idle, TypeOK, ChainValid, InFlightOK, env, net
<1>8. CASE ReorganizeFails
  BY <1>8, <1>f DEF ReorganizeFails, TypeOK, env
<1>9. CASE DiskError
  <2>1. CASE StoreAppendFails \/ StoreReplaceFails
    BY <2>1, <1>f DEF StoreAppendFails, StoreReplaceFails, TypeOK, env
  <2>2. CASE StoreAppendUnsynced
    <3>1. blk \in Block /\ store' = Append(store, blk)
      BY <2>2 DEF StoreAppendUnsynced, InFlightOK
    <3>2. store' \in Seq(Block) /\ faults' \in Nat
      BY <2>2, <3>1 DEF StoreAppendUnsynced, TypeOK
    <3> QED BY <2>2, <3>2, <1>f DEF StoreAppendUnsynced
  <2> QED BY <1>9, <2>1, <2>2 DEF DiskError
<1> QED BY <1>1, <1>2, <1>3, <1>4, <1>5, <1>6, <1>7, <1>8, <1>9 DEF HandlerStep

LEMMA EnvironmentKeepsGInv ==
  ASSUME GInv,
         \/ Tick \/ StepBack \/ Crash \/ Restart \/ RestartRepair
         \/ \E p \in Peer : Disconnect(p) \/ \E h \in Claims : Handshake(p, h)
  PROVE  GInv'
<1> USE DEF GInv
<1>1. CASE Tick \/ StepBack
  BY <1>1 DEF Tick, StepBack, TypeOK, ChainValid, InFlightOK, IsLonger, ChainHeight,
              mem, net, job
<1>2. CASE \E p \in Peer : Disconnect(p) \/ \E h \in Claims : Handshake(p, h)
  BY <1>2 DEF Disconnect, Handshake, TypeOK, ChainValid, InFlightOK, IsLonger,
              ChainHeight, env, mem, job
<1>3. CASE Crash
  <2>1. ValidChain(<<>>)
    BY DEF ValidChain
  <2>2. /\ claim' \in [Peer -> Claims \cup {NoPeer}]
        /\ banScores' \in [Peer -> Nat]
    BY <1>3 DEF Crash
  <2>3. TypeOK'
    <3>0. up' \in BOOLEAN
      BY <1>3, Zenon DEF Crash
    <3>1. now' \in Nat /\ faults' \in Nat /\ store' \in Seq(Block)
      BY <1>3 DEF Crash, TypeOK
    <3>2. chain' \in Seq(Block) /\ sideBlocks' \subseteq Block /\ orphans' \subseteq Block
      BY <1>3 DEF Crash
    <3>3. /\ pc' = "idle" /\ from' = Local /\ blk' = NoBlock /\ due' \subseteq Block
          /\ branch' \in Seq(Block)
      BY <1>3 DEF Crash, Idle
    <3> QED BY <3>0, <3>1, <3>2, <3>3, <2>2 DEF TypeOK
  <2> QED BY <1>3, <2>1, <2>3 DEF Crash, Idle, ChainValid, InFlightOK
<1>4. CASE Restart
  <2>1. ValidChain(store)
    BY <1>4, ReplaysValid DEF Restart
  <2> QED BY <1>4, <2>1 DEF Restart, TypeOK, ChainValid, InFlightOK, net, job
<1>5. CASE RestartRepair
  <2>1. PICK k \in 0..Len(store) :
          /\ Replays(SubSeq(store, 1, k), now, FALSE)
          /\ store' = SubSeq(store, 1, k) /\ chain' = store'
    BY <1>5 DEF RestartRepair
  <2>2. SubSeq(store, 1, k) \in Seq(Block)
    BY DEF TypeOK
  <2>3. ValidChain(chain')
    BY <2>1, ReplaysValid
  <2> QED BY <1>5, <2>1, <2>2, <2>3 DEF RestartRepair, TypeOK, ChainValid, InFlightOK, net, job
<1> QED BY <1>1, <1>2, <1>3, <1>4, <1>5

LEMMA GInvNext == GInv /\ [Next]_vars => GInv'
<1> SUFFICES ASSUME GInv, [Next]_vars PROVE GInv'
  OBVIOUS
<1>1. CASE \E p \in Peer, b \in Block : Deliver(p, b)
  BY <1>1, DeliverKeepsGInv
<1>2. CASE \E b \in Block : BeginSubmit(b)
  BY <1>2 DEF BeginSubmit, Free, GInv, TypeOK, ChainValid, InFlightOK, env, mem, net
<1>3. CASE HandlerStep \/ DiskError
  BY <1>3, HandlerKeepsGInv
<1>4. CASE \/ Tick \/ StepBack \/ Crash \/ Restart \/ RestartRepair
           \/ \E p \in Peer : Disconnect(p) \/ \E h \in Claims : Handshake(p, h)
  BY <1>4, EnvironmentKeepsGInv
<1>5. CASE UNCHANGED vars
  BY <1>5 DEF vars, GInv, TypeOK, ChainValid, InFlightOK, IsLonger, ChainHeight
<1> QED BY <1>1, <1>2, <1>3, <1>4, <1>5 DEF Next

LEMMA GInvAlways == Spec => []GInv
BY GInvInit, GInvNext, PTL DEF Spec

(***************************************************************************)
(* Type correctness, in every environment.                                 *)
(***************************************************************************)
THEOREM TypeCorrect == Spec => []TypeOK
<1>1. GInv => TypeOK
  BY DEF GInv
<1> QED BY <1>1, GInvAlways, PTL

(***************************************************************************)
(* The chain in memory is always a valid chain: no interleaving of clock   *)
(* steps, peer changes, disk errors and crashes with the handlers' steps   *)
(* puts a block there that does not link to the one below it.              *)
(***************************************************************************)
THEOREM ChainAlwaysValid == Spec => []ChainValid
<1>1. GInv => ChainValid
  BY DEF GInv
<1> QED BY <1>1, GInvAlways, PTL


(***************************************************************************)
(* While the process lives, the chain in memory gives way only to a        *)
(* strictly longer one: an extension, or a reorganisation whose branch was *)
(* found longer before the store was replaced.                             *)
(***************************************************************************)
THEOREM ChainGrows == Spec => ChainOnlyGrows
<1>1. ASSUME GInv, [Next]_vars, up, up', chain' # chain
      PROVE  Len(chain') > Len(chain)
  <2>1. CASE AddBlock
    <3>1. chain' = Append(chain, blk)
      BY <2>1 DEF AddBlock
    <3> QED BY <1>1, <3>1 DEF GInv, TypeOK
  <2>2. CASE Reorganize
    <3>1. /\ branch # <<>> /\ IsLonger(branch)
          /\ ValidChain(Reorganized(chain, branch))
          /\ chain' = Reorganized(chain, branch)
      BY <1>1, <2>2 DEF Reorganize, GInv, InFlightOK
    <3>2. chain \in Seq(Block) /\ branch \in Seq(Block)
      BY <1>1 DEF GInv, TypeOK
    <3>3. Len(Reorganized(chain, branch)) = Height[branch[Len(branch)]]
      BY <3>1, <3>2, ReorganizedType
    <3> QED BY <3>1, <3>3 DEF IsLonger, ChainHeight
  <2>3. AddBlock \/ Reorganize
    BY <1>1
    DEF Next, vars, Deliver, BeginConnect, RejectBlock, KeepOrphan, KeepSide,
        TryReorganize, BeginSubmit, HandlerStep, StoreAppend, AddBlockFails, TakeOrphan,
        OrphansDone, StoreReplace, ReorganizeFails, DiskError, StoreAppendFails,
        StoreAppendUnsynced, StoreReplaceFails, Tick, StepBack, Disconnect, Handshake, Crash, Restart,
        RestartRepair, mem
  <2> QED BY <2>1, <2>2, <2>3
<1>2. GInv /\ [Next]_vars => [up /\ up' => Len(chain') > Len(chain)]_chain
  BY <1>1
<1> QED BY <1>2, GInvAlways, PTL DEF Spec, ChainOnlyGrows

\* The orphan loop has every orphan that waits for the tip still to try.
Draining ==
  /\ pc = "orphans" => from = Orphan
  /\ pc = "idle" => from # Orphan
  /\ ~up => pc = "idle"
  /\ from = Orphan => \A o \in orphans : Prev[o] = TipOf(chain) => o \in due

LEMMA DrainingNext ==
  ASSUME TypeOK, Draining, [Next]_vars
  PROVE  Draining'
<1>0. Local # Orphan /\ \A p \in Peer : p # Orphan /\ p # Local
  BY NodeAssumption
<1> USE <1>0
<1>1. CASE \E p \in Peer, b \in Block : Deliver(p, b)
  <2>1. PICK p \in Peer, b \in Block : Deliver(p, b)
    BY <1>1
  <2>2. up /\ pc = "idle" /\ from # Orphan
    BY <2>1 DEF Deliver, BeginConnect, RejectBlock, KeepOrphan, KeepSide, TryReorganize, MayDeliver,
                Free, Draining
  <2>3. up' = up /\ (from' = from \/ from' = p)
    BY <2>1 DEF Deliver, BeginConnect, RejectBlock, KeepOrphan, KeepSide, TryReorganize, env, job
  <2>4. pc' \in {pc, "append", "replace"}
    BY <2>1 DEF Deliver, BeginConnect, RejectBlock, KeepOrphan, KeepSide, TryReorganize, job
  <2> QED BY <2>2, <2>3, <2>4 DEF Draining
<1>2. CASE \E b \in Block : BeginSubmit(b)
  BY <1>2 DEF BeginSubmit, Free, Draining, env, mem
<1>3. ASSUME Fail, UNCHANGED <<chain, orphans, up>>, pc \notin {"idle", "orphans"}
      PROVE  Draining'
  <2>1. CASE from = Orphan
    BY <1>3, <2>1 DEF Fail, Draining
  <2>2. CASE from # Orphan
    BY <1>3, <2>2 DEF Fail, Idle, Draining
  <2> QED BY <2>1, <2>2
<1>4. CASE AddBlockFails \/ ReorganizeFails \/ DiskError
  <2>1. Fail /\ UNCHANGED <<chain, orphans, up>> /\ pc \notin {"idle", "orphans"}
    BY <1>4 DEF AddBlockFails, ReorganizeFails, DiskError, StoreAppendFails, StoreAppendUnsynced,
                StoreReplaceFails, env, mem
  <2> QED BY <1>3, <2>1
<1>5. CASE StoreAppend \/ StoreReplace
  BY <1>5 DEF StoreAppend, StoreReplace, Draining, env, mem
<1>6. CASE AddBlock
  <2>1. chain \in Seq(Block) /\ chain' = Append(chain, blk) /\ orphans' = orphans /\ up' = up
    BY <1>6 DEF AddBlock, TypeOK, env
  <2>2. TipOf(chain') = blk
    BY <2>1 DEF TipOf
  <2>3. CASE from = Local
    BY <1>6, <2>1, <2>3 DEF AddBlock, Idle, Draining
  <2>4. CASE from # Local
    <3>1. pc' = "orphans" /\ from' = Orphan /\ due' = due \cup WaitingFor(blk) /\ up
      BY <1>6, <2>4 DEF AddBlock
    <3> QED BY <2>1, <2>2, <3>1 DEF WaitingFor, Draining
  <2> QED BY <2>3, <2>4
<1>7. ASSUME NEW o \in Block, TakeOrphan(o)
      PROVE  Draining'
  BY <1>7 DEF TakeOrphan, Draining, env
<1>8. CASE OrphansDone \/ Reorganize \/ Crash
  BY <1>8 DEF OrphansDone, Reorganize, Crash, Idle, Draining, env
<1>9. CASE Restart \/ RestartRepair
  BY <1>9 DEF Restart, RestartRepair, Draining, job
<1>10. CASE \/ Tick \/ StepBack
            \/ \E p \in Peer : Disconnect(p) \/ \E h \in Claims : Handshake(p, h)
  BY <1>10 DEF Tick, StepBack, Disconnect, Handshake, Draining, env, mem, job
<1>11. CASE UNCHANGED vars
  BY <1>11 DEF vars, Draining
<1> QED BY <1>1, <1>2, <1>4, <1>5, <1>6, <1>7, <1>8, <1>9, <1>10, <1>11 DEF Next, HandlerStep

(***************************************************************************)
(* For every tree of orphans, and whatever the clock, the disk and the     *)
(* peers do between its steps, connectOrphansLocked ends with no orphan    *)
(* left that waits for the tip it has reached.                             *)
(***************************************************************************)
THEOREM OrphansAlwaysDrained == Spec => OrphansDrained
<1>1. Init => Draining
  BY NodeAssumption DEF Init, Draining
<1>2. TypeOK /\ Draining /\ [Next]_vars => Draining'
  BY DrainingNext
<1>3. ASSUME TypeOK, Draining, [Next]_vars, pc = "orphans", pc' = "idle", up'
      PROVE  \A o \in orphans' : Prev[o] # TipOf(chain')
  <2>1. OrphansDone
    BY <1>3
    DEF Next, vars, Deliver, BeginConnect, RejectBlock, KeepOrphan, KeepSide, TryReorganize,
        MayDeliver, Free, BeginSubmit, HandlerStep, StoreAppend, AddBlock, AddBlockFails,
        TakeOrphan, StoreReplace, Reorganize, ReorganizeFails, DiskError, StoreAppendFails,
        StoreAppendUnsynced, StoreReplaceFails, Tick, StepBack, Disconnect, Handshake, Crash,
        Restart, RestartRepair, job
  <2>2. due = {} /\ orphans' = orphans /\ chain' = chain /\ from = Orphan
    BY <1>3, <2>1 DEF OrphansDone, Draining, mem
  <2> QED BY <1>3, <2>2 DEF Draining
<1>4. TypeOK /\ Draining /\ [Next]_vars =>
        [pc = "orphans" /\ pc' = "idle" /\ up' => \A o \in orphans' : Prev[o] # TipOf(chain')]_vars
  BY <1>3
<1> QED BY <1>1, <1>2, <1>4, TypeCorrect, PTL DEF Spec, OrphansDrained

-----------------------------------------------------------------------------
(***************************************************************************)
(* Proofs about ChainNode in a steady environment: the clock never steps   *)
(* back and stands still, and the sender's entry in n.peers stays, between *)
(* the validation of a block and its addition, and a record that reached   *)
(* the file is never reported as an error.  Crashes may happen anywhere,   *)
(* and Append and Replace may fail before they change the file.            *)
(***************************************************************************)

Steady == SteadyClock /\ SteadyPeers /\ ~SyncMayFail

\* What is on disk at each step of a handler.
InSync ==
  /\ up /\ pc \in {"idle", "append", "orphans", "replace"} => store = chain
  /\ up /\ pc = "add" => store = Append(chain, blk)
  /\ up /\ pc = "reorganize" => store = Reorganized(chain, branch)

\* The verdict reached before the store was written still stands.
StillChecked ==
  /\ pc \in {"append", "add"} => ValidatesNow(blk, from)
  /\ pc \in {"replace", "reorganize"} => Replays(Reorganized(chain, branch), now, TRUE)

SenderConnected ==
  /\ pc = "orphans" => from = Orphan
  /\ InFlight /\ from \in Peer => claim[from] # NoPeer

\* The inductive invariant.
SInv == Steady /\ GInv /\ InSync /\ StillChecked /\ SenderConnected /\ StoreLoads

LEMMA StoredReplay ==
  ASSUME NEW c, NEW t, ValidChain(c), MiningOpen(t)
  PROVE  Replays(c, t, FALSE)
BY DEF Replays, ValidateBlock, ValidChain

(***************************************************************************)
(* A store that loads now loads at any later time.                         *)
(***************************************************************************)
LEMMA LoadsLater ==
  ASSUME NEW c, NEW t \in Nat, NEW u \in Nat, t <= u, Replays(c, t, FALSE)
  PROVE  Replays(c, u, FALSE)
BY ParamAssumption DEF Replays, ValidateBlock, MiningOpen

(***************************************************************************)
(* A store that loads, grown by a block just validated, loads.             *)
(***************************************************************************)
LEMMA AppendLoads ==
  ASSUME NEW c \in Seq(Block), NEW b \in Block, NEW t, NEW e,
         ValidChain(c), ValidateBlock(b, TipOf(c), Len(c) + 1, t, e)
  PROVE  Replays(Append(c, b), t, FALSE)
<1>1. MiningOpen(t) /\ Links(b, TipOf(c), Len(c) + 1)
  BY DEF ValidateBlock
<1>2. ValidChain(Append(c, b))
  BY <1>1, AppendValid
<1> QED BY <1>1, <1>2, StoredReplay

LEMMA ReorganizedLoads ==
  ASSUME NEW c, NEW t, Replays(c, t, TRUE)
  PROVE  Replays(c, t, FALSE)
BY DEF Replays, ValidateBlock

-----------------------------------------------------------------------------
(* The parts of SInv that are not GInv. *)

Rest == InSync /\ StillChecked /\ SenderConnected /\ StoreLoads

LEMMA SInvInit == Steady /\ Init => SInv
<1> SUFFICES ASSUME Steady, Init PROVE SInv
  OBVIOUS
<1>1. GInv
  BY GInvInit
<1>2. pc = "idle" /\ store = chain /\ Len(store) = 0
  BY DEF Init
<1>3. InSync /\ StillChecked /\ SenderConnected
  BY <1>2 DEF InSync, StillChecked, SenderConnected, InFlight
<1>4. StoreLoads
  BY <1>2 DEF StoreLoads, Replays
<1> QED BY <1>1, <1>3, <1>4 DEF SInv

\* A step that ends or suspends the handler and touches neither chain nor store.
LEMMA RestKept ==
  ASSUME SInv, up, pc \in {"idle", "append", "orphans", "replace"},
         UNCHANGED <<up, now, chain, store>>,
         \/ pc' = "idle"
         \/ pc' = "orphans" /\ from' = Orphan
  PROVE  Rest'
<1>1. store' = chain'
  BY DEF SInv, InSync
<1>2. InSync' /\ StillChecked' /\ SenderConnected'
  BY <1>1 DEF InSync, StillChecked, SenderConnected, InFlight
<1>3. StoreLoads'
  BY DEF SInv, StoreLoads
<1> QED BY <1>2, <1>3 DEF Rest

LEMMA DeliverKeepsRest ==
  ASSUME SInv, NEW p \in Peer, NEW b \in Block, Deliver(p, b)
  PROVE  Rest'
<1>0. up /\ pc = "idle" /\ claim[p] # NoPeer /\ UNCHANGED <<up, now, chain, store>>
  BY DEF Deliver, BeginConnect, RejectBlock, KeepOrphan, KeepSide, TryReorganize,
         MayDeliver, Free, env, mem
<1>1. CASE BeginConnect(p, b)
  <2>1. /\ pc' = "append" /\ blk' = b /\ from' = p /\ claim' = claim
        /\ ValidatesNow(b, p)
    BY <1>1 DEF BeginConnect, net
  <2>2. InSync'
    BY <1>0, <2>1 DEF SInv, InSync
  <2>3. StillChecked'
    BY <1>0, <2>1
    DEF StillChecked, ValidatesNow, IsHistoricalSyncBlock, Tip, ChainHeight
  <2>4. SenderConnected'
    BY <1>0, <2>1 DEF SenderConnected
  <2>5. StoreLoads'
    BY <1>0 DEF SInv, StoreLoads
  <2> QED BY <2>2, <2>3, <2>4, <2>5 DEF Rest
<1>2. CASE RejectBlock(p, b) \/ KeepOrphan(p, b) \/ KeepSide(p, b)
  <2>1. pc' = "idle"
    BY <1>0, <1>2 DEF RejectBlock, KeepOrphan, KeepSide, job
  <2> QED BY <1>0, <2>1, RestKept
<1>3. CASE TryReorganize(p, b)
  <2>1. \/ pc' = "idle"
        \/ /\ pc' = "replace" /\ from' = p /\ claim' = claim
           /\ Replays(Reorganized(chain, branch'), now, TRUE)
    BY <1>0, <1>3 DEF TryReorganize, job, net
  <2>2. CASE pc' = "idle"
    BY <1>0, <2>2, RestKept
  <2>3. CASE /\ pc' = "replace" /\ from' = p /\ claim' = claim
             /\ Replays(Reorganized(chain, branch'), now, TRUE)
    <3>1. InSync' /\ SenderConnected'
      BY <1>0, <2>3 DEF SInv, InSync, SenderConnected
    <3>2. StillChecked'
      BY <1>0, <2>3 DEF StillChecked
    <3>3. StoreLoads'
      BY <1>0 DEF SInv, StoreLoads
    <3> QED BY <3>1, <3>2, <3>3 DEF Rest
  <2> QED BY <2>1, <2>2, <2>3
<1> QED BY <1>1, <1>2, <1>3 DEF Deliver

LEMMA SubmitKeepsRest ==
  ASSUME SInv, NEW b \in Block, BeginSubmit(b)
  PROVE  Rest'
<1>1. /\ up /\ pc = "idle" /\ UNCHANGED <<up, now, chain, store>>
      /\ pc' = "append" /\ blk' = b /\ from' = Local
      /\ ValidateBlock(b, Tip, ChainHeight + 1, now, TRUE)
  BY DEF BeginSubmit, Free, env, mem
<1>2. InSync' /\ SenderConnected'
  BY <1>1, NodeAssumption DEF SInv, InSync, SenderConnected
<1>3. StillChecked'
  BY <1>1, NodeAssumption
  DEF StillChecked, ValidatesNow, IsHistoricalSyncBlock, Tip, ChainHeight
<1>4. StoreLoads'
  BY <1>1 DEF SInv, StoreLoads
<1> QED BY <1>2, <1>3, <1>4 DEF Rest

LEMMA HandlerKeepsRest ==
  ASSUME SInv, HandlerStep \/ DiskError
  PROVE  Rest'
<1>0. GInv /\ GInv' /\ InSync /\ StillChecked /\ SenderConnected /\ StoreLoads
  BY HandlerKeepsGInv DEF SInv
<1>t. TypeOK /\ ChainValid /\ InFlightOK
  BY <1>0 DEF GInv
<1>1. CASE StoreAppend
  <2>1. /\ up /\ pc = "append" /\ pc' = "add"
        /\ UNCHANGED <<up, now, chain, claim, from, blk>>
        /\ store' = Append(store, blk)
    BY <1>1 DEF StoreAppend, env, mem, net
  <2>2. store = chain /\ ValidatesNow(blk, from) /\ blk \in Block
    BY <1>0, <1>t, <2>1 DEF InSync, StillChecked, InFlightOK
  <2>3. InSync'
    BY <2>1, <2>2 DEF InSync
  <2>4. StillChecked'
    BY <2>1, <2>2
    DEF StillChecked, ValidatesNow, IsHistoricalSyncBlock, Tip, ChainHeight
  <2>5. SenderConnected'
    BY <1>0, <2>1 DEF SenderConnected, InFlight
  <2>6. StoreLoads'
    BY <1>t, <2>1, <2>2, AppendLoads
    DEF StoreLoads, TypeOK, ChainValid, ValidatesNow, Tip, ChainHeight
  <2> QED BY <2>3, <2>4, <2>5, <2>6 DEF Rest
<1>2. CASE AddBlock
  <2>1. /\ up /\ pc = "add"
        /\ pc' = "idle" \/ (pc' = "orphans" /\ from' = Orphan)
        /\ UNCHANGED <<up, now, store>>
        /\ chain' = Append(chain, blk)
    BY <1>2 DEF AddBlock, Idle, env
  <2>2. store' = chain'
    BY <1>0, <2>1 DEF InSync
  <2>3. InSync' /\ StillChecked' /\ SenderConnected'
    BY <2>1, <2>2 DEF InSync, StillChecked, SenderConnected, InFlight
  <2>4. StoreLoads'
    BY <1>0, <2>1 DEF StoreLoads
  <2> QED BY <2>3, <2>4 DEF Rest
<1>3. ~AddBlockFails /\ ~ReorganizeFails
  BY <1>0 DEF StillChecked, AddBlockFails, ReorganizeFails
<1>4. ASSUME NEW o \in Block, TakeOrphan(o) PROVE Rest'
  <2>1. up /\ pc = "orphans" /\ UNCHANGED <<up, now, chain, store, from>>
    BY <1>4 DEF TakeOrphan, env
  <2>2. \/ pc' = "orphans"
        \/ /\ pc' = "append" /\ blk' = o
           /\ ValidateBlock(o, Tip, ChainHeight + 1, now, TRUE)
    BY <1>4, <2>1 DEF TakeOrphan
  <2>3. CASE pc' = "orphans"
    BY <1>0, <2>1, <2>3, RestKept DEF SenderConnected
  <2>4. CASE /\ pc' = "append" /\ blk' = o
             /\ ValidateBlock(o, Tip, ChainHeight + 1, now, TRUE)
    <3>1. from' = Orphan /\ Orphan \notin Peer
      BY <2>1, <1>0, NodeAssumption DEF SenderConnected
    <3>2. InSync' /\ SenderConnected'
      BY <1>0, <2>1, <2>4, <3>1 DEF InSync, SenderConnected
    <3>3. StillChecked'
      BY <2>1, <2>4, <3>1
      DEF StillChecked, ValidatesNow, IsHistoricalSyncBlock, Tip, ChainHeight
    <3>4. StoreLoads'
      BY <1>0, <2>1 DEF StoreLoads
    <3> QED BY <3>2, <3>3, <3>4 DEF Rest
  <2> QED BY <2>2, <2>3, <2>4
<1>5. CASE OrphansDone
  BY <1>5, RestKept DEF OrphansDone, Idle, env, mem
<1>6. CASE StoreReplace
  <2>1. /\ up /\ pc = "replace" /\ pc' = "reorganize"
        /\ UNCHANGED <<up, now, chain, claim, from, branch>>
        /\ store' = Reorganized(chain, branch)
    BY <1>6 DEF StoreReplace, env, mem, net
  <2>2. Replays(Reorganized(chain, branch), now, TRUE)
    BY <1>0, <2>1 DEF StillChecked
  <2>3. InSync' /\ StillChecked'
    BY <2>1, <2>2 DEF InSync, StillChecked
  <2>4. SenderConnected'
    BY <1>0, <2>1 DEF SenderConnected, InFlight
  <2>5. StoreLoads'
    BY <2>1, <2>2, ReorganizedLoads DEF StoreLoads
  <2> QED BY <2>3, <2>4, <2>5 DEF Rest
<1>7. CASE Reorganize
  <2>1. /\ up /\ pc = "reorganize" /\ pc' = "idle"
        /\ UNCHANGED <<up, now, store>>
        /\ chain' = Reorganized(chain, branch)
    BY <1>7 DEF Reorganize, Idle, env
  <2>2. store' = chain'
    BY <1>0, <2>1 DEF InSync
  <2>3. InSync' /\ StillChecked' /\ SenderConnected'
    BY <2>1, <2>2 DEF InSync, StillChecked, SenderConnected, InFlight
  <2>4. StoreLoads'
    BY <1>0, <2>1 DEF StoreLoads
  <2> QED BY <2>3, <2>4 DEF Rest
<1>8. CASE DiskError
  <2>1. /\ up /\ pc \in {"append", "replace"} /\ Fail
        /\ UNCHANGED <<up, now, chain, store>>
    BY <1>8
    DEF DiskError, StoreAppendFails, StoreAppendUnsynced, StoreReplaceFails, env, mem,
        SInv, Steady
  <2>2. pc' = "idle" \/ (pc' = "orphans" /\ from' = Orphan)
    BY <2>1 DEF Fail, Idle
  <2> QED BY <2>1, <2>2, RestKept
<1> QED BY <1>1, <1>2, <1>3, <1>4, <1>5, <1>6, <1>7, <1>8 DEF HandlerStep

LEMMA EnvironmentKeepsRest ==
  ASSUME SInv,
         \/ Tick \/ StepBack \/ Crash \/ Restart \/ RestartRepair
         \/ \E p \in Peer : Disconnect(p) \/ \E h \in Claims : Handshake(p, h)
  PROVE  Rest'
<1>0. /\ Steady /\ TypeOK /\ InFlightOK
      /\ InSync /\ StillChecked /\ SenderConnected /\ StoreLoads
  BY DEF SInv, GInv
<1>1. CASE Tick
  <2>1. /\ now' = now + 1 /\ ~InFlight
        /\ UNCHANGED <<up, chain, store, pc, from, blk, branch>>
    BY <1>0, <1>1 DEF Tick, Steady, mem, job
  <2>2. InSync'
    BY <1>0, <2>1 DEF InSync
  <2>3. StillChecked' /\ SenderConnected'
    BY <1>0, <2>1 DEF StillChecked, SenderConnected, InFlight
  <2>4. StoreLoads'
    <3>1. now \in Nat /\ now' \in Nat /\ now <= now' /\ store' = store
      BY <1>0, <2>1 DEF TypeOK
    <3>2. Replays(store, now, FALSE)
      BY <1>0 DEF StoreLoads
    <3>3. Replays(store, now', FALSE)
      BY <3>1, <3>2, LoadsLater
    <3> QED BY <3>1, <3>3 DEF StoreLoads
  <2> QED BY <2>2, <2>3, <2>4 DEF Rest
<1>2. ~StepBack /\ ~RestartRepair
  BY <1>0 DEF StepBack, RestartRepair, Steady, StoreLoads
<1>3. CASE Crash
  <2>0. ~up'
    BY <1>3, Zenon DEF Crash
  <2>1. pc' = "idle" /\ UNCHANGED <<now, store>>
    BY <1>3 DEF Crash, Idle
  <2>2. InSync' /\ StillChecked' /\ SenderConnected'
    BY <2>0, <2>1 DEF InSync, StillChecked, SenderConnected, InFlight
  <2>3. StoreLoads'
    BY <1>0, <2>1 DEF StoreLoads
  <2> QED BY <2>2, <2>3 DEF Rest
<1>4. CASE Restart
  <2>1. pc = "idle" /\ pc' = "idle" /\ chain' = store /\ UNCHANGED <<now, store>>
    BY <1>0, <1>4 DEF Restart, InFlightOK, job
  <2>2. InSync' /\ StillChecked' /\ SenderConnected'
    BY <2>1 DEF InSync, StillChecked, SenderConnected, InFlight
  <2>3. StoreLoads'
    BY <1>0, <2>1 DEF StoreLoads
  <2> QED BY <2>2, <2>3 DEF Rest
<1>5. ASSUME NEW p \in Peer, Disconnect(p) \/ \E h \in Claims : Handshake(p, h)
      PROVE  Rest'
  <2>1. UNCHANGED <<up, now, chain, store, pc, from, blk, branch>>
    BY <1>5 DEF Disconnect, Handshake, env, mem, job
  <2>2. InFlight /\ from \in Peer => claim'[from] = claim[from]
    <3>1. CASE Disconnect(p)
      BY <1>0, <3>1 DEF Disconnect, Steady, TypeOK
    <3>2. CASE \E h \in Claims : Handshake(p, h)
      BY <1>0, <3>2 DEF Handshake, SenderConnected, TypeOK
    <3> QED BY <1>5, <3>1, <3>2
  <2>3. InSync'
    BY <1>0, <2>1 DEF InSync
  <2>4. StillChecked'
    BY <1>0, <2>1, <2>2
    DEF StillChecked, ValidatesNow, IsHistoricalSyncBlock, Tip, ChainHeight, InFlight
  <2>5. SenderConnected'
    BY <1>0, <2>1, <2>2 DEF SenderConnected, InFlight
  <2>6. StoreLoads'
    BY <1>0, <2>1 DEF StoreLoads
  <2> QED BY <2>3, <2>4, <2>5, <2>6 DEF Rest
<1> QED BY <1>1, <1>2, <1>3, <1>4, <1>5

LEMMA SInvNext == SInv /\ [Next]_vars => SInv'
<1> SUFFICES ASSUME SInv, [Next]_vars PROVE SInv'
  OBVIOUS
<1>1. Steady' /\ GInv'
  BY GInvNext DEF SInv, Steady
<1>2. Rest'
  <2>1. CASE \E p \in Peer, b \in Block : Deliver(p, b)
    BY <2>1, DeliverKeepsRest
  <2>2. CASE \E b \in Block : BeginSubmit(b)
    BY <2>2, SubmitKeepsRest
  <2>3. CASE HandlerStep \/ DiskError
    BY <2>3, HandlerKeepsRest
  <2>4. CASE \/ Tick \/ StepBack \/ Crash \/ Restart \/ RestartRepair
             \/ \E p \in Peer : Disconnect(p) \/ \E h \in Claims : Handshake(p, h)
    BY <2>4, EnvironmentKeepsRest
  <2>5. CASE UNCHANGED vars
    BY <2>5
    DEF SInv, Rest, vars, InSync, StillChecked, ValidatesNow, IsHistoricalSyncBlock, Tip,
        ChainHeight, SenderConnected, InFlight, StoreLoads
  <2> QED BY <2>1, <2>2, <2>3, <2>4, <2>5 DEF Next
<1> QED BY <1>1, <1>2 DEF SInv, Rest

LEMMA SInvAlways == Steady /\ Spec => []SInv
BY SInvInit, SInvNext, PTL DEF Spec

-----------------------------------------------------------------------------

(***************************************************************************)
(* In a steady environment the file and the chain in memory agree whenever *)
(* chainMu is free: a failed Append or Replace, or a crash and a restart,  *)
(* never leaves a block on one side only.                                  *)
(***************************************************************************)
THEOREM StoreStaysInSync == Steady /\ Spec => []StoreMatchesChain
<1>1. SInv => StoreMatchesChain
  BY DEF SInv, InSync, StoreMatchesChain, Free
<1> QED BY <1>1, SInvAlways, PTL

(***************************************************************************)
(* In a steady environment Store.Load accepts the file after a crash       *)
(* between any two steps of any handler: repair is never needed.           *)
(***************************************************************************)
THEOREM StoreAlwaysLoads == Steady /\ Spec => []StoreLoads
<1>1. SInv => StoreLoads
  BY DEF SInv
<1> QED BY <1>1, SInvAlways, PTL

(***************************************************************************)
(* In a steady environment the store implements the abstract best chain:   *)
(* it changes only to a strictly longer valid chain, crashes included.     *)
(***************************************************************************)
THEOREM StoreImplementsBestChain == Steady /\ Spec => StoreIsBestChain
<1>v. ASSUME NEW c PROVE Best!ValidChain(c) <=> ValidChain(c)
  BY DEF Best!ValidChain, ValidChain, Best!Links, Links, Best!Before, Before
<1>1. Init => Best!Init
  BY DEF Init, Best!Init
<1>2. ASSUME SInv, [Next]_vars, store' # store PROVE Best!Adopt
  <2>0. /\ Steady /\ TypeOK /\ ChainValid /\ InFlightOK
        /\ InSync /\ StillChecked /\ StoreLoads
    BY <1>2 DEF SInv, GInv
  <2>1. CASE StoreAppend
    <3>1. up /\ pc = "append" /\ store' = Append(store, blk)
      BY <2>1 DEF StoreAppend
    <3>2. store = chain /\ blk \in Block /\ Links(blk, TipOf(chain), Len(chain) + 1)
      BY <2>0, <3>1
      DEF InSync, InFlightOK, StillChecked, ValidatesNow, ValidateBlock, Tip, ChainHeight
    <3>3. store' \in Seq(Block) /\ Len(store') = Len(store) + 1 /\ ValidChain(store')
      BY <2>0, <3>1, <3>2, AppendValid DEF TypeOK, ChainValid
    <3>4. Len(store) \in Nat
      BY <2>0 DEF TypeOK
    <3> QED BY <3>3, <3>4, <1>v DEF Best!Adopt
  <2>2. CASE StoreReplace
    <3>1. up /\ pc = "replace" /\ store' = Reorganized(chain, branch)
      BY <2>2 DEF StoreReplace
    <3>2. /\ store = chain /\ branch # <<>> /\ IsLonger(branch)
          /\ ValidChain(Reorganized(chain, branch))
      BY <2>0, <3>1 DEF InSync, InFlightOK
    <3>3. /\ Reorganized(chain, branch) \in Seq(Block)
          /\ Len(Reorganized(chain, branch)) = Height[branch[Len(branch)]]
      BY <2>0, <3>2, ReorganizedType DEF TypeOK
    <3> QED BY <3>1, <3>2, <3>3, <1>v DEF Best!Adopt, IsLonger, ChainHeight
  <2>3. ~RestartRepair /\ ~StoreAppendUnsynced
    BY <2>0 DEF RestartRepair, StoreLoads, StoreAppendUnsynced, Steady
  <2>4. StoreAppend \/ StoreReplace
    BY <1>2, <2>3
    DEF Next, vars, Deliver, BeginConnect, RejectBlock, KeepOrphan, KeepSide,
        TryReorganize, BeginSubmit, HandlerStep, AddBlock, AddBlockFails, TakeOrphan,
        OrphansDone, Reorganize, ReorganizeFails, DiskError, StoreAppendFails,
        StoreAppendUnsynced, StoreReplaceFails, Tick, StepBack, Disconnect, Handshake, Crash, Restart
  <2> QED BY <2>1, <2>2, <2>4
<1>3. SInv /\ [Next]_vars => [Best!Adopt]_store
  BY <1>2
<1> QED BY <1>1, <1>3, SInvAlways, PTL DEF Spec, StoreIsBestChain, Best!Spec

=============================================================================
