----------------------------- MODULE ChainNode -----------------------------
(***************************************************************************)
(* How one pacd process turns the blocks it is handed into a chain in      *)
(* memory and a block store on disk: connectBlock and its helpers in the   *)
(* p2p node, the submit paths of the RPC and Stratum servers, the load or  *)
(* repair at start-up, and crashes.                                        *)
(*                                                                         *)
(* Every one of these handlers holds chainMu from its first check to its   *)
(* last assignment, so at most one is under way: pc says where it is.  A   *)
(* handler is nevertheless several steps, because between two of them the  *)
(* clock can advance (each validation calls time.Now() afresh), the peers  *)
(* map can change (it is guarded by another mutex, n.mu) and the process   *)
(* can die.  A block is validated, then appended to the store, then        *)
(* validated again by AddBlock; a reorganisation replays the whole chain   *)
(* before the store is replaced, and again after it.                       *)
(*                                                                         *)
(* A handler that returns before it changes anything is not a step.        *)
(***************************************************************************)
EXTENDS BlockTree, FiniteSets

CONSTANTS
    Peer,           \* remote hosts
    NoPeer,         \* claim of a host that has no entry in n.peers
    Local,          \* from: a block submitted over RPC or Stratum
    Orphan,         \* from: a block taken out of the orphan pool
    NoBlock,
    Claims,         \* BestHeight values a peer may send in its version message
    MaxOrphans,     \* defaultMaxOrphans
    MaxGap,         \* defaultMaxOrphanHeightGap
    SteadyClock,    \* TRUE: the clock never steps back, and does not advance
                    \* between the check of a block and its addition
    SteadyPeers,    \* TRUE: nor does the sender's entry in n.peers vanish then
    DiskMayFail,    \* TRUE: Append and Replace may fail and leave the file as it was
    SyncMayFail,    \* TRUE: the Sync that ends Append may fail, the record written
    MaxNow,         \* bound on the clock
    MaxFaults       \* bound on the number of crashes, sync errors and backward clock steps

VARIABLES
    up,             \* the process is running
    now,            \* the wall clock
    chain,          \* Chain.blocks above the genesis block
    store,          \* the records of blocks.jsonl
    sideBlocks, orphans,
    claim,          \* peers[p].info.BestHeight
    banScores,
    pc, from, blk,  \* the handler that holds chainMu, whose block, which block
    branch,         \* the side branch a reorganisation adopts
    due,            \* orphans connectOrphansLocked has still to try
    faults

mem == <<chain, sideBlocks, orphans>>
job == <<pc, from, blk, branch, due>>
net == <<claim, banScores>>
env == <<up, now, faults>>
vars == <<up, now, chain, store, sideBlocks, orphans, claim, banScores,
          pc, from, blk, branch, due, faults>>

BanThreshold == 100
BanInvalidChain == 50

ASSUME NodeAssumption ==
    /\ Claims \subseteq Nat
    /\ NoPeer \notin Nat
    /\ Local \notin Peer /\ Orphan \notin Peer /\ Local # Orphan
    /\ NoBlock \notin AnyBlock
    /\ MaxOrphans \in Nat \ {0} /\ MaxGap \in Nat
    /\ SteadyClock \in BOOLEAN /\ SteadyPeers \in BOOLEAN
    /\ DiskMayFail \in BOOLEAN /\ SyncMayFail \in BOOLEAN
    /\ MaxNow \in Nat /\ MaxFaults \in Nat

TypeOK ==
    /\ up \in BOOLEAN
    /\ now \in Nat
    /\ chain \in Seq(Block) /\ store \in Seq(Block)
    /\ sideBlocks \subseteq Block /\ orphans \subseteq Block
    /\ claim \in [Peer -> Claims \cup {NoPeer}]
    /\ banScores \in [Peer -> Nat]
    /\ pc \in {"idle", "append", "add", "orphans", "replace", "reorganize"}
    /\ from \in Peer \cup {Local, Orphan}
    /\ blk \in Block \cup {NoBlock}
    /\ branch \in Seq(Block)
    /\ due \subseteq Block
    /\ faults \in Nat

Init ==
    /\ up = TRUE /\ now = 0 /\ faults = 0
    /\ chain = <<>> /\ store = <<>>
    /\ sideBlocks = {} /\ orphans = {}
    /\ claim = [p \in Peer |-> NoPeer]
    /\ banScores = [p \in Peer |-> 0]
    /\ pc = "idle" /\ from = Local /\ blk = NoBlock /\ branch = <<>> /\ due = {}

-----------------------------------------------------------------------------
(* Reading the state. *)

ChainHeight == Len(chain)
Tip == TipOf(chain)
InMain(b) == InChain(chain, b)

\* The caller holds chainMu and the process is alive.
Free == up /\ pc = "idle"

\* A block at or below the height a peer claimed, while we are still below it,
\* is synced without the future limit.  Reads n.peers without n.mu.
IsHistoricalSyncBlock(b, p) ==
    /\ p \in Peer
    /\ claim[p] # NoPeer
    /\ claim[p] > ChainHeight
    /\ Height[b] <= claim[p]

ValidatesNow(b, p) ==
    ValidateBlock(b, Tip, ChainHeight + 1, now, ~IsHistoricalSyncBlock(b, p))

\* Mutant: only the main chain is consulted.
KnowsMainPrev(b) == InMain(Prev[b])

KnowsSideOrMainPrev(b) == InMain(Prev[b]) \/ Prev[b] \in sideBlocks

ValidSideCandidate(b) ==
    /\ b \in WorkOK
    /\ Height[b] # 0
    /\ MiningOpen(now)
    /\ Height[b] <= ChainHeight + MaxGap
    /\ KnowsSideOrMainPrev(b)
    /\ Height[b] = Height[Prev[b]] + 1
    /\ CheckBlockTimestamp(Time[Prev[b]], Time[b], now)
    /\ b \in BitsOK

\* Neither Bits nor the height against the (unknown) parent can be checked;
\* the timestamp is held against our own tip.
ValidOrphanCandidate(b) ==
    /\ b \in WorkOK
    /\ Height[b] > ChainHeight
    /\ Height[b] <= ChainHeight + MaxGap
    /\ CheckBlockTimestamp(Time[Tip], Time[b], now)

\* The three ways connectBlock can go with a block it does not know.
ExtendsTip(b) == Height[b] = ChainHeight + 1 /\ Prev[b] = Tip

GoesToSide(b) ==
    \/ Height[b] <= ChainHeight /\ ~InMain(b)
    \/ Height[b] > ChainHeight /\ ~ExtendsTip(b) /\ KnowsSideOrMainPrev(b)

GoesToOrphans(b) ==
    Height[b] > ChainHeight /\ ~ExtendsTip(b) /\ ~KnowsSideOrMainPrev(b)

\* The n-th ancestor of every block.
Ancestor[n \in Nat] ==
    IF n = 0 THEN [b \in AnyBlock |-> b]
    ELSE [b \in AnyBlock |-> IF Ancestor[n-1][b] \in Block
                             THEN Prev[Ancestor[n-1][b]] ELSE Genesis]

\* sideBranchLocked: n side blocks lead from b down to the main chain.
BranchReachesMain(side, b, n) ==
    /\ InMain(Ancestor[n][b])
    /\ \A k \in 0..(n-1) : Ancestor[k][b] \in side
    /\ \A k \in 1..(n-1) : ~InMain(Ancestor[k][b])

SideBranch(b, n) == [i \in 1..n |-> Ancestor[n-i][b]]

\* Mutant: equal height is enough.
IsNotShorter(br) == Height[br[Len(br)]] >= ChainHeight

IsLonger(br) == Height[br[Len(br)]] > ChainHeight

\* The chain reorganizeCandidate builds: the main chain up to the fork point,
\* then the branch.
Reorganized(c, br) ==
    LET fork == Height[Prev[br[1]]]
    IN [i \in 1..(fork + Len(br)) |-> IF i <= fork THEN c[i] ELSE br[i - fork]]

-----------------------------------------------------------------------------
(* A block arrives. *)

Idle == pc' = "idle" /\ from' = Local /\ blk' = NoBlock /\ branch' = <<>> /\ due' = {}

\* handleBlock returned an error: the host's score grows and readLoop hangs up.
Penalise(p) ==
    /\ banScores' = [banScores EXCEPT ![p] = @ + BanInvalidChain]
    /\ claim' = [claim EXCEPT ![p] = NoPeer]

MayDeliver(p) == Free /\ claim[p] # NoPeer

BeginConnect(p, b) ==
    /\ MayDeliver(p) /\ ExtendsTip(b) /\ ValidatesNow(b, p)
    /\ pc' = "append" /\ from' = p /\ blk' = b
    /\ UNCHANGED <<env, mem, net, store, branch, due>>

RejectBlock(p, b) ==
    /\ MayDeliver(p)
    /\ \/ ExtendsTip(b) /\ ~ValidatesNow(b, p)
       \/ GoesToOrphans(b) /\ ~ValidOrphanCandidate(b)
    /\ Penalise(p)
    /\ UNCHANGED <<env, mem, store, job>>

\* A full pool drops an arbitrary orphan (Go's map order).
KeepOrphan(p, b) ==
    /\ MayDeliver(p) /\ GoesToOrphans(b) /\ ValidOrphanCandidate(b)
    /\ b \notin orphans
    /\ IF Cardinality(orphans) >= MaxOrphans
       THEN \E o \in orphans : orphans' = (orphans \ {o}) \cup {b}
       ELSE orphans' = orphans \cup {b}
    /\ UNCHANGED <<env, chain, sideBlocks, net, store, job>>

\* The side block's branch does not lead to the main chain or is not longer.
KeepSide(p, b) ==
    /\ MayDeliver(p) /\ GoesToSide(b) /\ ValidSideCandidate(b)
    /\ b \notin sideBlocks
    /\ \/ Height[b] <= ChainHeight
       \/ ~ \E n \in 1..Height[b] : BranchReachesMain(sideBlocks \cup {b}, b, n)
    /\ sideBlocks' = sideBlocks \cup {b}
    /\ UNCHANGED <<env, chain, orphans, net, store, job>>

\* A longer branch is replayed from the genesis block, AddBlock's future limit
\* included, and either begins a reorganisation or is charged to the peer.
TryReorganize(p, b) ==
    /\ MayDeliver(p) /\ GoesToSide(b) /\ ValidSideCandidate(b)
    /\ sideBlocks' = sideBlocks \cup {b}
    /\ \E n \in 1..Height[b] :
         /\ BranchReachesMain(sideBlocks', b, n)
         /\ LET br == SideBranch(b, n) IN
            /\ IsLonger(br)
            /\ IF Replays(Reorganized(chain, br), now, TRUE)
               THEN /\ pc' = "replace" /\ from' = p /\ branch' = br
                    /\ UNCHANGED <<net, blk, due>>
               ELSE Penalise(p) /\ UNCHANGED job
    /\ UNCHANGED <<env, chain, orphans, store>>

\* Mutant: the block is written before anything is checked but its height.
SubmitUnchecked(b) ==
    /\ Free /\ Height[b] = ChainHeight + 1
    /\ pc' = "append" /\ from' = Local /\ blk' = b
    /\ UNCHANGED <<env, mem, net, store, branch, due>>

\* handleSubmitBlock, handleGenerate, acceptBlock: the same three calls, and
\* neither the side nor the orphan pool is looked at.
BeginSubmit(b) ==
    /\ Free /\ ValidateBlock(b, Tip, ChainHeight + 1, now, TRUE)
    /\ pc' = "append" /\ from' = Local /\ blk' = b
    /\ UNCHANGED <<env, mem, net, store, branch, due>>

-----------------------------------------------------------------------------
(* The handler's later steps. *)

\* Where an error sends the handler: the peer pays, the orphan loop goes on.
Fail ==
    IF from = Orphan
    THEN /\ pc' = "orphans" /\ blk' = NoBlock
         /\ UNCHANGED <<from, branch, due, net>>
    ELSE /\ Idle
         /\ IF from \in Peer THEN Penalise(from) ELSE UNCHANGED net

StoreAppend ==
    /\ up /\ pc = "append"
    /\ store' = Append(store, blk)
    /\ pc' = "add"
    /\ UNCHANGED <<env, mem, net, from, blk, branch, due>>

\* The write failed before it reached the file.
StoreAppendFails ==
    /\ up /\ pc = "append" /\ DiskMayFail
    /\ Fail
    /\ UNCHANGED <<env, mem, store>>

\* The record is in the file, but Append returns Sync's error.
StoreAppendUnsynced ==
    /\ up /\ pc = "append" /\ SyncMayFail /\ faults < MaxFaults
    /\ store' = Append(store, blk)
    /\ Fail
    /\ faults' = faults + 1
    /\ UNCHANGED <<up, now, mem>>

\* Mutant: orphans of a connected orphan are forgotten.
WaitingForFirst(b) == IF from = Orphan THEN {} ELSE {o \in orphans : Prev[o] = b}

WaitingFor(b) == {o \in orphans : Prev[o] = b}

\* AddBlock: the second validation, then the assignment, then the orphans that
\* were waiting for this block.
AddBlock ==
    /\ up /\ pc = "add" /\ ValidatesNow(blk, from)
    /\ chain' = Append(chain, blk)
    /\ IF from = Local THEN Idle
       ELSE /\ pc' = "orphans" /\ from' = Orphan /\ blk' = NoBlock
            /\ due' = due \cup WaitingFor(blk)
            /\ UNCHANGED branch
    /\ UNCHANGED <<env, sideBlocks, orphans, net, store>>

AddBlockFails ==
    /\ up /\ pc = "add" /\ ~ValidatesNow(blk, from)
    /\ Fail
    /\ UNCHANGED <<env, mem, store>>

\* connectOrphansLocked: one of the waiting orphans leaves the pool, to be
\* appended or dropped.  Siblings are tried in no fixed order here.
TakeOrphan(o) ==
    /\ up /\ pc = "orphans" /\ o \in due
    /\ due' = due \ {o}
    /\ orphans' = orphans \ {o}
    /\ IF ValidateBlock(o, Tip, ChainHeight + 1, now, TRUE)
       THEN pc' = "append" /\ blk' = o
       ELSE UNCHANGED <<pc, blk>>
    /\ UNCHANGED <<env, chain, sideBlocks, net, store, from, branch>>

OrphansDone ==
    /\ up /\ pc = "orphans" /\ due = {}
    /\ Idle
    /\ UNCHANGED <<env, mem, net, store>>

\* Mutant: the branch is added to the file, the old blocks stay.
StoreAppendBranch ==
    /\ up /\ pc = "replace"
    /\ store' = store \o branch
    /\ pc' = "reorganize"
    /\ UNCHANGED <<env, mem, net, from, blk, branch, due>>

\* Replace writes a temporary file, syncs and renames it: all or nothing.
StoreReplace ==
    /\ up /\ pc = "replace"
    /\ store' = Reorganized(chain, branch)
    /\ pc' = "reorganize"
    /\ UNCHANGED <<env, mem, net, from, blk, branch, due>>

StoreReplaceFails ==
    /\ up /\ pc = "replace" /\ DiskMayFail
    /\ Fail
    /\ UNCHANGED <<env, mem, store>>

Reorganize ==
    /\ up /\ pc = "reorganize" /\ Replays(Reorganized(chain, branch), now, TRUE)
    /\ chain' = Reorganized(chain, branch)
    /\ sideBlocks' = sideBlocks \ {branch[i] : i \in 1..Len(branch)}
    /\ Idle
    /\ UNCHANGED <<env, orphans, net, store>>

ReorganizeFails ==
    /\ up /\ pc = "reorganize" /\ ~Replays(Reorganized(chain, branch), now, TRUE)
    /\ Fail
    /\ UNCHANGED <<env, mem, store>>

-----------------------------------------------------------------------------
(* Environment: clock, connections, crashes. *)

InFlight == pc \in {"append", "add", "replace", "reorganize"}

Tick ==
    /\ now < MaxNow
    /\ SteadyClock => ~InFlight
    /\ now' = now + 1
    /\ UNCHANGED <<up, faults, mem, net, store, job>>

\* The wall clock is corrected backwards.
StepBack ==
    /\ now > 0 /\ ~SteadyClock /\ faults < MaxFaults
    /\ now' = now - 1 /\ faults' = faults + 1
    /\ UNCHANGED <<up, mem, net, store, job>>

\* reservePeer refuses a banned host; the claimed height is never updated.
Handshake(p, h) ==
    /\ up /\ claim[p] = NoPeer /\ banScores[p] < BanThreshold
    /\ claim' = [claim EXCEPT ![p] = h]
    /\ UNCHANGED <<env, mem, store, banScores, job>>

\* removePeer.  A connection that lost its entry to another one for the same
\* address removes that one's entry when it ends, so the entry can vanish while
\* a block of its peer is being connected.
Disconnect(p) ==
    /\ up /\ claim[p] # NoPeer
    /\ SteadyPeers => ~(InFlight /\ from = p)
    /\ claim' = [claim EXCEPT ![p] = NoPeer]
    /\ UNCHANGED <<env, mem, store, banScores, job>>

\* Everything but the block store is lost.
Crash ==
    /\ up /\ faults < MaxFaults
    /\ up' = FALSE /\ faults' = faults + 1
    /\ chain' = <<>> /\ sideBlocks' = {} /\ orphans' = {}
    /\ claim' = [p \in Peer |-> NoPeer]
    /\ banScores' = [p \in Peer |-> 0]
    /\ Idle
    /\ UNCHANGED <<now, store>>

\* Store.Load replays the records with AddStoredBlock; a bad one ends the
\* process before it serves anything.
Restart ==
    /\ ~up /\ Replays(store, now, FALSE)
    /\ up' = TRUE /\ chain' = store
    /\ UNCHANGED <<now, faults, sideBlocks, orphans, net, store, job>>

\* Started with the repair flag: the store is cut before its first bad record.
RestartRepair ==
    /\ ~up /\ ~Replays(store, now, FALSE)
    /\ \E k \in 0..Len(store) :
         /\ Replays(SubSeq(store, 1, k), now, FALSE)
         /\ ~Replays(SubSeq(store, 1, k+1), now, FALSE)
         /\ store' = SubSeq(store, 1, k) /\ chain' = store'
    /\ up' = TRUE
    /\ UNCHANGED <<now, faults, sideBlocks, orphans, net, job>>

-----------------------------------------------------------------------------

Deliver(p, b) ==
    \/ BeginConnect(p, b) \/ RejectBlock(p, b) \/ KeepOrphan(p, b)
    \/ KeepSide(p, b) \/ TryReorganize(p, b)

HandlerStep ==
    \/ StoreAppend \/ AddBlock \/ AddBlockFails
    \/ (\E o \in Block : TakeOrphan(o)) \/ OrphansDone
    \/ StoreReplace \/ Reorganize \/ ReorganizeFails

DiskError == StoreAppendFails \/ StoreAppendUnsynced \/ StoreReplaceFails

Next ==
    \/ \E p \in Peer, b \in Block : Deliver(p, b)
    \/ \E b \in Block : BeginSubmit(b)
    \/ HandlerStep
    \/ DiskError
    \/ Tick \/ StepBack
    \/ \E p \in Peer : Disconnect(p) \/ \E h \in Claims : Handshake(p, h)
    \/ Crash \/ Restart \/ RestartRepair

Spec == Init /\ [][Next]_vars

(* Handlers run to completion and the process is restarted, with the repair  *)
(* flag if it must be.  Every host keeps reconnecting while it is allowed    *)
(* to, and keeps sending every block.                                        *)
Fairness ==
    /\ WF_vars(HandlerStep) /\ WF_vars(Tick) /\ WF_vars(Restart \/ RestartRepair)
    /\ \A p \in Peer : SF_vars(\E h \in Claims : Handshake(p, h))
    /\ \A p \in Peer, b \in Block : SF_vars(Deliver(p, b))

FairSpec == Spec /\ Fairness

-----------------------------------------------------------------------------
(* Properties. *)

(***************************************************************************)
(* The chain in memory is a valid chain at every step of every handler,    *)
(* whatever was validated when: blocks reach it only through AddBlock and  *)
(* Reorganize, which validate again at the moment of the assignment.       *)
(***************************************************************************)
ChainValid == ValidChain(chain)

(***************************************************************************)
(* Whenever chainMu is free, blocks.jsonl holds exactly the chain in       *)
(* memory: append-before-add and replace-before-reorganize never leave one *)
(* side ahead, whichever step fails.                                       *)
(***************************************************************************)
StoreMatchesChain == Free => store = chain

(***************************************************************************)
(* The store can be loaded at any moment, so a crash between any two steps *)
(* leaves a file that Load accepts without the repair flag.                *)
(***************************************************************************)
StoreLoads == Replays(store, now, FALSE)

(***************************************************************************)
(* The chain in memory is replaced only by a strictly longer one, except   *)
(* by the death of the process.                                            *)
(***************************************************************************)
ChainOnlyGrows ==
    [][up /\ up' => Len(chain') > Len(chain)]_chain

(***************************************************************************)
(* connectOrphansLocked leaves no orphan behind that waits for the new     *)
(* tip, however long the chain of orphans it connected.                    *)
(***************************************************************************)
OrphansDrained ==
    [][pc = "orphans" /\ pc' = "idle" /\ up'
         => \A o \in orphans' : Prev[o] # TipOf(chain')]_vars

\* Every block below b links, so some chain ends in b.
HasValidAncestry(b) ==
    LET path == [i \in 1..Height[b] |-> Ancestor[Height[b] - i][b]]
    IN Height[b] > 0 /\ ValidChain(path)

(***************************************************************************)
(* A node that is sent every block again and again ends on a chain of the  *)
(* greatest height any valid chain has, whatever order they came in,       *)
(* whichever branch it was on and whatever a block that failed half way    *)
(* left in the store, unless it comes to ban everyone who sends them.      *)
(***************************************************************************)
Converges ==
    \/ <>[](up /\ \A b \in Block : HasValidAncestry(b) => Height[b] <= ChainHeight)
    \/ <>[](\A p \in Peer : banScores[p] >= BanThreshold)

(***************************************************************************)
(* The store implements the abstract best chain.                           *)
(***************************************************************************)
Best == INSTANCE BestChain WITH best <- store
StoreIsBestChain == Best!Spec

=============================================================================
