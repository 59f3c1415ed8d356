# Verification of pacd

`pacd` is the full node of the Pingancoin chain: one Go process with a block
chain in memory, a block store on disk, a peer-to-peer node, an HTTP RPC server
and a Stratum bridge, all of which change the same chain under one mutex;
`pacwallet` is its wallet. This directory models both in TLA+, checks them with TLC
on small instances, and proves every safety property the runs check with TLAPS, for all instances.

    tlc -workers 2 -config ChainNode.cfg MCChainNode      # one run; all are in PROJECT.json
    tlapm ChainNodeProofs.tla                             # one proof module

## 1. Inventory

### 1.1 The parts of the system

| part | source | state | operations | talks to |
|---|---|---|---|---|
| consensus time rules | `internal/consensus/time.go`, `chaincfg/params.go` | none | `MaxAllowedBlockTime`, `CheckBlockTimestamp`, `NextBlockTime`, `MiningOpen` | called by the chain, Stratum, miners |
| difficulty, work, subsidy | `consensus/asert.go`, `pow.go`, `subsidy.go` | none | `CalcASERTNextBits`, compact bits, `CheckProofOfWork`, `CalcBlockOneTimeSplit` | called by the chain and header checks |
| chain in memory | `blockchain/chain.go` | `blocks`, `utxos` | `ValidateBlock`, `ValidateStoredBlock`, `AddBlock`, `AddStoredBlock`, `Reorganize`, `CalcFees` | no lock of its own: callers hold `chainMu` |
| block store | `blockstore/jsonl.go` | `blocks.jsonl`, `.rewrite`, `.corrupt.*` | `Append`, `Replace`, `Load`, `Repair` | called before every change of the chain in memory |
| block acceptance | `p2p/node.go` (`connectBlock` and below) | `orphans`, `orphansByPrev`, `sideBlocks`, `sideByPrev` | connect, keep, reorganise, drain orphans | chain, store, callbacks into RPC |
| peer table and bans | `p2p/node.go` | `peers`, `banScores`, `selfAddrs` | `reservePeer`, `updatePeer`, `removePeer`, `addBanScore` | read by block acceptance without its lock |
| header sync and inventory | `p2p/node.go`, `p2p/sync.go` | announced heights | `syncStep`, `headersAfter`, `validateHeaderChain`, `handleInv`, `handleGetData` | peers |
| address book, discovery | `p2p/node.go` | `addrBook`, `peers.json` | `learnAddr`, `discoveryStep`, `persistAddrBook` | disk, peers |
| mempool | `rpcserver/server.go` | `mempool` | `acceptTransactionLocked`, `revalidateMempoolLocked`, `NotifyBlockConnected`, `NotifyChainReorganized` | callbacks from p2p, RPC submission |
| RPC server | `rpcserver/server.go` | `mempool`, callbacks | 16 handlers, three of which change the chain or the pool | chain, store, node, Stratum |
| Stratum bridge | `stratum/server.go` | `sessions`, `jobs`, `jobOrder`, counters | subscribe, authorise, submit, refresh | chain, store, RPC callback, node |
| block production | `mining/miner.go` | none | candidate, template, nonce search | chain, mempool |
| service wiring | `cmd/pacd/main.go` | `chainMu` | `runServices`, start-up with or without repair | everything |
| wallet | `internal/wallet` | key file | keys, balance scan, transaction building | RPC |
| wire formats, scripts, addresses | `wire`, `txscript`, `address` | none | encodings, hashes, signatures | everything |

### 1.2 What is hard here

* **Check, persist, check again.** A block is validated, appended to the file
  and validated a second time by `AddBlock`. Each validation reads the clock, and
  for peer blocks the peer table without its lock. The step order is what a crash
  or a differing second verdict exposes.
* **A time rule that is not monotone.** The latest allowed timestamp can drop as
  time passes (`time.go:19`).
* **Arrival order.** Orphans, side branches and reorganisations depend on the order
  in which blocks come, on bounded pools, and on bans that cut off the sender.
* **One mutex, many callbacks.** RPC calls the node with `chainMu` held, Stratum
  calls the RPC server with `chainMu` held, the node calls the RPC server after
  releasing it; sockets are written under it without deadlines.
* **A text file as database.** A torn write, a lost newline, a failed write in a
  process that lives on, a repair that crashes.
* **Late notifications.** The pool learns of chain changes after the lock was
  released, from several goroutines.
* **A table keyed by address.** Connections own entries of the peer table by their
  remote address; a static dial may take over the entry of a connection that is
  still shaking hands, and an entry may be removed by a goroutine whose it no longer is.
* **Heights that are told once.** A peer's height is read from its version message and never
  updated; announcements start only when a handshake has ended.
* **Files written without a lock.** Goroutines write the address book, and processes the wallet,
  from a copy they took earlier.
* **A clock with fractions against timestamps without.** Block times are cut to seconds
  after they were compared.

The list, with lines and the properties that cover them, is under `hazards` in
`PROJECT.json`; hazards that no property covers are in section 5.1.

### 1.3 What makes each part correct

* chain in memory: always valid; replaced only by a strictly longer chain;
* store: equal to the chain in memory when no handler runs; loadable after a crash
  at any step; every acknowledged block readable; nothing lost by a repair;
* block acceptance: no usable orphan or longer branch left aside; convergence to
  the greatest height;
* mempool: minable as a whole once notifications are in; what a
  reorganisation disconnects and is still valid comes back;
* services: no circular wait; every handler finishes;
* peer table: a serving connection owns its entry, unless a dial of a configured peer may
  replace it; the table is bounded; bans reach every
  connection of a host and only hosts that did something wrong; static peers come back;
* header sync: honest nodes on one chain never charge each other and end up level;
* address book: its file decodes after a crash, is current when nobody writes, and what was
  saved is never forgotten;
* Stratum: of two blocks for one tip one is taken; recent jobs are answerable; miners end on
  the tip; the times of jobs and templates are acceptable;
* difficulty and subsidy: the target follows the schedule, its compact form is usable, the
  schedule adds up to the announced supply;
* wallet: a scan agrees with the node; a draft from a quiet scan is accepted; the wallet file
  is sealed as a whole and reported keys are kept.

## 2. Modules

| module | models | extends |
|---|---|---|
| `BlockTree` | blocks, the time rules, `validateBlock`, replay | |
| `BestChain` | abstract: a valid chain that only grows | `BlockTree` |
| `ChainNode` | block acceptance, submission, store, clock, peers' entries, crash and restart | `BlockTree`, instance of `BestChain` |
| `ChainNodeProofs` | theorems about `ChainNode` | `ChainNode`, `TLAPS` |
| `BlockStore`, `BlockStoreProofs` | `blocks.jsonl` line by line, torn writes, repair; theorems | `BlockTree` |
| `Sync`, `SyncProofs` | two nodes: handshake, header sync, inventory, idle timeout; theorems | `BlockTree` |
| `Peers`, `PeersProofs` | the peer table, dials, arrivals, bans, self-connections; theorems | |
| `AddrBook`, `AddrBookProofs` | the address book and the goroutines that write `peers.json`; theorems | |
| `Mempool` | the pool and the callbacks that keep it in step | |
| `Wallet` | `pacwallet balance`, `drafttx`, `send` against a node that moves | `Mempool` |
| `WalletKeys` | the wallet file and the commands that change it | |
| `WalletProofs` | theorems about `Mempool`, `Wallet` and `WalletKeys` | `Wallet`, `WalletKeys`, `TLAPS` |
| `Difficulty` | compact targets, ASERT, subsidy, block times as operators | |
| `Mining`, `MiningProofs` | Stratum's sessions, jobs, broadcasts and blocks; theorems | `Difficulty` |
| `Services`, `ServicesProofs` | goroutines, mutexes, callbacks, socket writes; theorems | |
| `MC*` | block trees and deployments for TLC | the module they are named after |

### 2.1 `BlockTree` and `BestChain`

A block is its hash. `Prev`, `Height` and `Time` are its header fields; `WorkOK`,
`BitsOK` and `BodyOK` are the verdicts of the checks that depend only on the block
and its ancestry (hash commitment makes them functions of the block). What varies
between two validations of one block, the tip and the clock, is explicit.
`ValidateBlock` is `Chain.validateBlock`, with `enforceFutureLimit` as in the code.
A chain is the sequence of blocks above the genesis block.

`BestChain` is the promise: the chain is valid and gives way only to a strictly
longer valid one. `ChainNode`'s store implements it, through
`INSTANCE BestChain WITH best <- store`; `BlockStore!ReadableOnlyGrows` says the same of the
readable part of the file, line by line, outside the faults it names.

### 2.2 `ChainNode`

`chain`, `sideBlocks`, `orphans` are the node's maps; `claim` is
`peers[p].info.BestHeight` and `banScores` the score per host; `store` is the
sequence of records on disk; `up`, `now`, `faults` are the environment. A handler that
holds `chainMu` is a small program counter `pc` with the block (`blk`), its origin
(`from`: a peer, the orphan loop, or a local submission), the branch and the
orphans still due.

| action | code |
|---|---|
| `BeginConnect`, `RejectBlock`, `KeepOrphan`, `KeepSide`, `TryReorganize` | the five outcomes of `connectBlock` up to the first write |
| `BeginSubmit` | `handleSubmitBlock`, `handleGenerate`, Stratum's `acceptBlock` up to the first write |
| `StoreAppend`, `StoreAppendFails`, `StoreAppendUnsynced` | `Store.Append` |
| `AddBlock`, `AddBlockFails` | the second validation and the assignment |
| `TakeOrphan`, `OrphansDone` | `connectOrphansLocked` |
| `StoreReplace`, `StoreReplaceFails`, `Reorganize`, `ReorganizeFails` | `tryReorganizeLocked` after the replay |
| `Handshake`, `Disconnect`, `Tick`, `StepBack`, `Crash`, `Restart`, `RestartRepair` | environment |

`chainMu` makes the handlers of one process sequential; what interleaves with their
steps is the clock, the peer table (read without `Node.mu`), disk errors and crashes.
`SteadyClock` and `SteadyPeers` say whether clock and peer entry keep still while a
block is in flight, `DiskMayFail` and `SyncMayFail` which disk errors occur. Orphans
that wait for the same parent are tried in any order; the code uses arrival order.
The order of a recursive drain is abstracted to a set of orphans still due.

### 2.3 `BlockStore`

A line is the sequence of whole and torn records between two newlines; `ended` says
whether the last line has its newline. `Append` writes after whatever the file ends
with, as the code does. `RepairBackup` and `RepairTruncate` are the two steps of
`Repair` that change the disk. `acked` is the chain in memory and `kept` the history of
blocks whose write returned without an error. `due` is the chain a handler has written and not yet
in memory: `Adopt` is `AddBlock` or `Reorganize` after the write, `AdoptRefused` the second
validation saying no, which leaves the file ahead of memory; a crash may come between. How much a
crash or an error leaves of a record is an input. `Replace` is one step: before its rename
`blocks.jsonl` is untouched. The clock is read once per load.

### 2.4 `Mempool` and `Wallet`

Each action is one hold of `chainMu`. `ConnectBlocks` and `ReorganizeTo` change the
chain on behalf of a peer's goroutine and queue its callbacks; `Deliver` makes the
next one, against the chain and pool of that moment. A transaction has one output; an
input is unspent and mature or it is not. `Value` tells outputs of value zero from the others:
`connectTxOutputs` enters only `Funded` ones in the UTXO set, for a block as for the pool, so a
transaction that spends the rest is missing an input. Signatures and sums are taken to be right.

`Wallet` composes that node with one wallet command: `GetBestBlock`, one `GetBlock` per
height, `GetRawMempool`, `BuildDraftTx`, then `Balance`, `DraftTx` or `Send`, with steps of
the node between any two. `utxos` is the map `ScanWallet` builds, one entry per outpoint and outputs
of value zero among them, `moved` remembers that the node changed meanwhile. The run `wallet` checks the composition, so it has the properties
of both modules.

### 2.5 `Services`

Every handler is the list of its mutex operations and socket writes, built by
operators named after the functions (`BroadcastInv`, `CreateJob`, `AcceptBlock`,
...). One goroutine per connection, plus `syncLoop` and `refreshLoop`. `services` is
chosen at the start from the deployments of the configuration, and the callbacks
are the ones `runServices` installs for it.

### 2.6 `Peers`

`state` is where the goroutine of a connection is, `peers` the table by address
("pending" until `updatePeer`), `banScores` and `selfAddrs` the maps of those names.
`Accept`, `ConnectLoop` and `DiscoveryStep` are the three callers of `reservePeer`;
`DialSucceeds`, `DialFails`, `HandshakeFails`, `UpdatePeer`, `Drop` and `RemovePeer` follow
a connection; `Misbehave`, `Reset` and `AnswerFails` are what costs points. A dial of the own
address comes back as an inbound connection, and both ends notice. Retry delays are left
out: a dial may happen at any time.

### 2.7 `AddrBook`

`book` is `n.addrBook`, `file` and `tmp` are `peers.json` and `peers.json.tmp`. A
goroutine that changed the book copies it under `Node.mu` (`AddrBookEntries`), and without
the mutex opens the temporary file (`OpenTmp`), writes (`WriteTmp`, `WriteFails`) and
renames (`RenameTmp`). `fd` is the file a descriptor names: after another goroutine's rename
the open temporary file is the real one. `mixed` records that two writes overlapped. `Start` is
`NewNode`, which writes the configured addresses out if they are news; `StartUnwritten` the same
with a disk on which none of these writes succeeds.

### 2.8 `Sync`

Two nodes, `Dialler` and `Listener`, and a FIFO channel each way. `Connect`, `ReadVersion` and `ExpectVerAck` are the
handshake; `HandleHeaders`, `HandleGetBlocks`, `HandleInv`, `HandleBlock` and so on are the
readers; `SyncStep` is the ticker. The read deadline of two minutes is `IdleTimeout` when everything
sent has been read, and `LateTimeout` when it passes with a message on its way or half read, at most
`MaxLate` times; unread messages turn the close into a reset. The handshake has a deadline of ten
seconds, which is left out: when the read deadline of one end passes, the other's handshake is over.
What a node does with a block is `connectBlock` without clock and disk, which `ChainNode` has: in
particular the timestamp check of `validateOrphanCandidateLocked` and the eviction from a full
orphan pool are there and not here. Message lists are
as long as both ends accept. `News` and `BlockMsgs` are the loops of `validateHeaderChain` and
`handleGetBlocks`, as recursive functions; `PathTo` is the chain that ends in a block. `forked` and
`farBehind` are history: whether the chains ever diverged, or were ever more than `MaxGap` apart;
`late` counts the deadlines that passed too early.

### 2.9 `Difficulty` and `Mining`

`Difficulty` holds the arithmetic. The code works on 256-bit integers with bytes of eight
bits and a radix of 2^16; `Base` and `Radix` stand for these so that TLC's integers suffice, and
the polynomial's coefficients are rounded to four digits so that they add up to one (the code's
add up to one and a quarter of a unit of its radix, which its rounding takes back). The early return
of `EstimateTotalSubsidy` for a sum beyond an int64 is left out; the networks' schedule adds up to
2.1 * 10^15. Go's division towards zero is
`Quo`; powers are the recursion `Power`, which can be reasoned about where `^` cannot. Clock readings are in half seconds and timestamps in seconds, because the code
compares the one with the other.

`Mining` has the sessions (`state`), the job each was sent last, the cache (`jobs`), what
each goroutine is sending (`out`) and the block a session has found and not yet handed in
(`sub`). `Refresh`, `Authorize` and `BroadcastJob` make a job, `PickSessions` and
`SendNotify` deliver it, `Submit` and `AcceptBlock` are the two halves of `submit`,
`OtherBlock` is a block from a peer or from RPC. A job is known by the number of jobs made
after it instead of its number, which keeps the state finite without a bound on the jobs.

### 2.10 `WalletKeys`

A key record is the key with the salt and passphrase it is sealed under, or neither. A
process loads the file into `mem`, changes it (`NewAddress`, `ImportPrivKey`, `Encrypt`,
`ChangePassphrase`; `Create` starts from nothing), truncates the file and writes. `Stop` is
an error, a crash or a command that only reads. `tells` and `acked` are what users were told;
`overlapped` and `mistyped` mark the two things a user can do to himself. The specification is
`KeysSpec`, so that one module can prove about the wallet's file and its scans.

## 3. Runs

| run | shows |
|---|---|
| `chain_node` | with clock and peer entry steady, disk errors and a crash anywhere: memory valid, store equal to memory when free, always loadable, chain only grows, orphans drained, store refines `BestChain` |
| `chain_node_live` | clock moving both ways, entries vanishing, sync errors, crashes, stores that need a repair: in every order of a branch of two and a branch of three blocks the node ends on the greatest height, unless it has banned the sender |
| `chain_node_diverge` (violation) | the clock ticks between the two validations; the block stays on disk only, and the file stops loading |
| `block_store` | every fault at once: no acknowledged record leaves the disk; outside four named faults a start gets every acknowledged block back and the readable part only grows |
| `peers` | nine connections in any order: ownership of entries no dial may replace, bounds, one connection per host, bans that reach everyone they should and no one else, static peers that return |
| `addr_book` | two goroutines, failing writes, crashes, restarts: the file decodes, is current, and forgets nothing, unless two writes overlapped |
| `sync` | two honest nodes: no penalty on one chain within the gap while deadlines do not cut messages off; level in the end, or banned |
| `wallet` | callbacks in any order and a wallet that reads meanwhile: pool minable, recovering, given back what a reorganisation disconnects; scans and maturities sound, drafts accepted unless they select an output of value zero |
| `wallet_keys` | two overlapping processes that stop anywhere: the file is of one kind and one passphrase; taking turns, no reported key is lost |
| `mining` | two sessions, refreshes and outside blocks: one block per tip, recent jobs answerable, miners end on the tip, times acceptable; difficulty, compact targets and supply at every height |
| `services` | with RPC and p2p, or with Stratum and p2p: no circular wait, and every handler finishes |
| `services_mining` (violation) | with RPC and Stratum both on, the first block found locks the process up |

The violations are described, with the line of the repository that says otherwise,
under `findings` in `PROJECT.json`. Properties that hold with an exception name it in their
comment. What the exceptions are, and what else the models show and no run is kept for:

* **An orphan may be stranded** (`node.go:838`). Orphans are tried only after a peer's block
  extended the tip. A parent that comes by RPC, by Stratum or by a reorganisation leaves them
  in the pool, and `hasBlock` then keeps the node from asking for them. `OrphansDrained` is
  therefore about `connectOrphansLocked` alone. The run `sync` reaches the case of the
  reorganisation; the headers of the next handshake bring the orphan back.
* **A lost newline** (`jsonl.go:152`). A crash that takes only the newline of the last record
  leaves a file that loads; the next record continues the line, and neither can be read.
  A write that fails part way in a process that lives on has the same effect. Together
  with a repair under a clock from before the opening of mining, and with the next item, these are
  the four faults `spoiled` stands for.
* **A block refused after it was written** (`node.go:834`). The record of a block that `AddBlock` or
  `Reorganize` refuses stays in the file, and the next block is written behind it. This is what
  `chain_node_diverge` finds; `AckedReadable` and `ReadableOnlyGrows` except it, `Recoverable` does
  not: what was acknowledged meanwhile is cut off by a repair, and is in its backup.
* **Outputs of value zero** (`chain.go:373`). The node accepts a transaction that creates one and
  leaves it out of the UTXO set; the wallet lists it as spendable, and `selectUTXOs` may take it. The
  node then refuses the payment with a missing input. `ScanMatchesNode` names these outputs as the only
  difference between the two views, and `DraftIsAccepted` as the only reason for a refusal.
* **A deadline that passes too early** (`node.go:457`). The end whose deadline passes with a message
  unread is not charged, but closes with a reset, and the other end charges that as a malformed
  message: honest nodes come to ban each other. `NoPenaltyOnOneChain` excepts it.
* **A reorganisation may lose valid transactions.** `acceptTransactionLocked` validates the whole
  pool with the newcomer, so one entry the reorganisation has made invalid keeps all
  disconnected transactions out. `ReturnsValid` has this as its first condition.
* **A late callback takes out too much** (`server.go:201`). Between a reorganisation and its
  callback another goroutine may reorganise again. `NotifyChainReorganized` then removes from
  the pool what the blocks it is told of contain, although they have left the chain, and those
  transactions are in neither until somebody sends them again. `ReturnsValid` has this as its
  second condition; without it TLC finds a behaviour in the tree of `MCWallet`, which has a
  third branch for the purpose.
* **A reorganisation above a block from the future.** `reorganizeCandidate` replays the main
  chain below the fork with the future limit, although historical sync accepts blocks
  without it: above a block stamped ahead of the clock no branch is adopted until the
  clock catches up (`chain.go:177`).
* **Header sync does not repair a fork** (`node.go:766`). Headers must extend the receiver's own
  tip; on a fork the answer to `getheaders` costs the honest sender 50 points and the
  connection, and the second one a ban. On an unforked chain the same happens to a node that
  is more than `defaultMaxOrphanHeightGap` behind and hears two announcements.
* **A missed announcement** heals by the idle timeout and a new handshake: nobody sends
  pings, and `syncStep` compares with the height of the old one.
* **Static peers given by name** may be charged for entries others removed: a name's entry
  and its address's entry are different, see `OwnEntry` and `HonestNotBanned`.
* **Overlapping address-book writes** share one temporary name; the result may be empty or a
  mixture that `NewNode` refuses to start with. A later lone write heals it.
* **Overlapping wallet commands** lose a key, bring an old passphrase back, or put all keys
  back in clear after `encrypt`; a process that stops between truncation and write leaves
  a file that no command accepts. `newaddress` takes any passphrase, and after a mistyped one
  `changepassphrase` always fails.
* **No acceptable time.** Within the second of the tip's timestamp `NextBlockTime` returns
  a time that is cut to the tip's own, and when the tip is exactly at the future limit no time is
  acceptable for up to a second. `ProposedTimeFits` names both.

### 3.1 Bounds

* `MCChainNode`: seven blocks in two branches of height 3, one of them invalid, with
  timestamps before, at and beyond the future limit; two peers with low and high
  claims; an orphan pool of two (so eviction happens), a gap of three; clock up to 2;
  one or two faults. A fork, a reorganisation, a chain of two orphans, an eviction, a ban
  and a crash between any two steps all occur. `MaxNow` and the finite tree end every
  behaviour, hence `CHECK_DEADLOCK FALSE`.
* `MCBlockStore`: two branches of three blocks, three reorganisations, three faults:
  a torn write, a crash in the repair and another crash fit, or a refused block and two crashes.
* `MCWallet`: three branches above height 2, the last one longer, so that a reorganisation
  can follow one that is not yet reported; conflicting, dependent and immature
  transactions, two goroutines, up to two blocks per message; a wallet that owns coinbases of two
  branches and two outputs, one of them of value zero, and payments that take one or two of them.
* `MCPeers`: a table of one slot, so that every limit is met; a static peer given by address
  that discovery knows too and whose host also dials in, a static peer given by name that
  discovery knows too, a discovered peer, a stranger, and the own address coming back through a
  host another peer shares.
* `MCAddrBook`: three addresses, two goroutines, three changes (two overlapping writes and a
  lone one after them), two faults, a file of the old format at first.
* `MCSync`: seven blocks, two branches of height four mined by either node; batches of two,
  so that four blocks take two; a gap of two, so that a node can be too far behind; one deadline
  that passes too early, at any point of a connection.
* `MCMining`: two sessions and a cache of two jobs, which overflows at once; two blocks, so
  that the tip moves under a job and a second race follows; a clock of three half seconds and
  times up to three seconds: behind, within, at and beyond the future limit. Bytes of four
  bits, targets up to 16^5, a half-life of five seconds, tips up to eight half-lives late or
  early; a subsidy that falls by a third every three blocks until it is gone.
* `MCWalletKeys`: two processes, three keys, two good passphrases and a short one, four
  salts (the file's, two copies' and a fresh one). Keys, processes and salts are symmetric, and
  no property is temporal.
* `MCServices`: two peers, one miner, one RPC client, the two tickers; `MaxBusy` limits
  how many are inside a handler at once, to two. (With four the invariant holds too: 604217
  states, one minute; liveness is what needs the smaller bound.)

### 3.2 Fairness

* `ChainNode!Fairness`: weak fairness of a handler's own steps (a goroutine that holds
  `chainMu` runs), of the clock and of the restart (systemd restarts the service;
  `deploy/README.md:140` has the operator run it with `--repairstore` when the file does not load).
  Strong fairness of handshakes and of each delivery is an assumption about the
  environment: honest hosts reconnect and offer every block again. The code does
  not ensure that by itself, see the sync hazards; `Converges` says what block acceptance does
  when it is so.
* `Mempool!Spec`: weak fairness of each goroutine's callbacks (`TakesNote`): `handleBlock`
  calls back right after `connectBlock` returns.
* `Peers!Spec`: weak fairness of `Moves`, the steps a connection's goroutine takes by itself:
  a dial or handshake ends or times out, a closed connection is removed, a `connectLoop` dials
  again. Nothing is asked of the remote end.
* `Sync!Fairness`: weak fairness of the dialler, the readers, the ticker and the read
  deadline of a silent connection. Mining may stop. That deadlines cut messages off only
  finitely often is an assumption about the network.
* `Mining!Fairness`: weak fairness of the refresh ticker and of sends, provided the remote ends
  read or hang up. Miners and blocks are free to stop.
* `Services!Spec`: strong fairness of a goroutine's steps. Go's mutexes hand over to
  the longest waiter after a millisecond, so a goroutine that waits for a mutex that is
  released again and again gets it. A write completing is an assumption: there
  are no write deadlines.

## 4. Proofs

Assumptions: every module declares its constants with a named `ASSUME` (`BlockAssumption`,
`ParamAssumption`, `NodeAssumption`, `StoreAssumption`, `PeersAssumption`,
`AddrBookAssumption`, `MempoolAssumption`, `WalletAssumption`, `WalletKeysAssumption`,
`DifficultyAssumption`, `MiningAssumption`, `ServicesAssumption`, `SyncAssumption`): the types of the
constants, that names that stand for different things differ, in `Services` that the sets of
peers and miners are finite, in `Sync` that a block is one higher than its parent, which
`validateBlock` demands of every block, and in `Difficulty` that the number of a byte's values is even,
the anchor target within the limit, and the subsidy's reduction a factor below one. TLC evaluates all of them in the runs. Nothing is assumed of the
size of the block tree, the number of hosts, peers, goroutines, processes, keys, sessions or
faults, the limits of the pools and messages, the clock, or the parameters of the difficulty and
the subsidy.

| module | theorems | inductive invariant |
|---|---|---|
| `ChainNodeProofs` | `TypeCorrect`, `ChainAlwaysValid`, `ChainGrows`, `OrphansAlwaysDrained`; under `Steady`: `StoreStaysInSync`, `StoreAlwaysLoads`, `StoreImplementsBestChain` | `GInv`, `Draining`; `SInv` |
| `BlockStoreProofs` | `NothingLost`, `AckedBlocksReadable`, `ReadableNeverShrinks` | `BInv` |
| `PeersProofs` | `AnswersReachAsker`, `TableStaysBounded`, `OneConnectionPerHost`, `BanReachesAll`, `HonestHostsNotBanned` | `PInv` |
| `AddrBookProofs` | `FileAlwaysDecodes`, `FileHasBook`, `SavedAddressesKept` | `AInv` |
| `MiningProofs` | `OneBlockPerTip`, `SentJobsKept`, `NewTimesFit`; `TargetTracksTime`, `NextBitsUsable`, `SupplyIsEstimate` | `MInv` |
| `SyncProofs` | `SyncTypesHold`, `HonestNeverCharged` | `SInv` |
| `ServicesProofs` | `NoDeadlock` | `SInv` |
| `WalletProofs` | `PoolStaysMineable`, `CallbackReturnsValid`, `StaleTipIsSafe`, `ScanIsTheNodesView`, `StillNodeAccepts`; of `WalletKeys`: `WalletTypes`, `FileHasOneSeal`, `FileHasOnePassphrase`, `ReportedKeysKept` | `ScanInv`; `WInv`, `RInv` |

### 4.1 `ChainNodeProofs`

* `GInv` is `TypeOK`, `ChainValid`, and `InFlightOK`, which says that a
  handler about to append or add has a block, and one about to replace or
  reorganise has a non-empty branch that was found longer than the chain, which
  has not changed since. `ChainValid` alone is not inductive: a reorganisation's target is
  computed from the branch that was stored steps before. Blocks enter `chain` only in
  `AddBlock` and `Reorganize`, each of which validates at that step; `AppendValid` and
  `ReorganizedType` say that the result is a valid chain of the expected length.
* `Draining`: while the orphan loop runs, every orphan that waits for the tip is among those it has
  still to try. It has to be kept through the steps that connect one, which move the tip.
* Under `Steady` (clock and peer entry still while a block is in flight, no failed sync)
  `SInv` adds `StoreLoads`, `InSync` (what the store is at each `pc`: equal to the chain, one block
  ahead, or the reorganised chain), `StillChecked` (the block in flight would pass the second
  validation) and `SenderConnected` (its peer entry is there). The last two are what `Steady`
  buys, and what the violation of `chain_node_diverge` breaks.
* Refinement: only `StoreAppend` and `StoreReplace` change the store, and each is an
  `Adopt` step; a restart leaves it alone because it loads.

### 4.2 `BlockStoreProofs`

`BInv`: `CopiedBeforeCut` (a repair that is about to cut has copied the whole file),
`Recoverable` itself, and `Sound`: unless a fault of the four named ones occurred the file is a
sequence of whole, linked records that begins with `due`, and after them at most one torn record.
While a process lives the records are exactly `due`, which is the chain in memory except between a
write and `Adopt`; that a block refused there ends all this is why `AdoptRefused` is a fault. `AckedReadable` speaks of what a loader reads, so it is the loader's
`GoodLines` that has to be computed: `GoodLinesAre` shows that it stops at exactly that torn
record. `ReadableNeverShrinks` compares what is readable before and after a step.

### 4.3 `PeersProofs`

`PInv`: besides the properties, `Ownership` says who may be in an entry: a goroutine that reserved
the entry of a fixed address finds it until it removes it, there is one such goroutine, and a
connection without rivals owns its entry. `TableBounded` rests on the two checks of `reservePeer`;
`OnePerHost` and `BanCloses` on the entries that are still pending being seen. No connection can
be charged for an answer it could not be sent unless its entry was replaced, which is
`HonestNotBanned`.

### 4.4 `AddrBookProofs`

`AInv` is about the goroutine that writes while nobody else does (`lone`): it has the temporary
file to itself, so what it renames is what it wrote (`Alone`); its copy, or else the file, covers
the book (`Current`); and the book has only become better since it was copied (`Kept`). The third
is why a stale copy does not undo what was saved.

### 4.5 `MiningProofs`

`MInv`: the ages in the cache are consecutive (`Ages`), every job with a session or on its way is in
the cache unless it is too old (`InCache`: `RecentJobsKept` alone is not inductive, because
a job is sent after it was made), and jobs and submitted blocks are not ahead of the chain.
`NewTimesFit` is arithmetic about `NextBlockTime` and `TemplateTime`, with the half seconds
that `Unix` cuts off.

The other three are about the consensus arithmetic, and need of the state only that the chain is
within `MaxBlocks`. The lemmas hold for every time and height; the properties quantify over the
ones TLC can visit.

* `TargetTracksTime`. `SplitIs` is what the code's correction of Go's division amounts to: the
  exponent is a whole number of half-lives and a fraction that is not negative. `FactorIs`: the
  polynomial is one at the beginning of a half-life, two at its end, and grows between, so a step
  into the next half-life never lowers the target (`ReachedMono`), although the shift to the
  right rounds. It is here that the coefficients matter: they add up to one.
* `NextBitsUsable`. `ByteLenIs` says that the length is the one whose powers enclose the number,
  `CompactRounds` that what a mantissa cuts off is less than its last place, with and without
  the shift for the sign.
* `SupplyIsEstimate`. The subsidy falls by at least one in every era until it is zero, so there is a
  last era (`EndEraIs`) and `EstimateFrom`, a recursion upwards, has a value (`EstimateIs`). The
  fold over a set of heights, taken in whatever order, is the sum in order (`FoldSums`); the sum by
  blocks agrees with the sum by eras at every boundary (`EraBlocks`: the genesis block pays
  nothing, so the first era is one short); nothing is paid later (`NothingLater`).

### 4.6 `ServicesProofs`

`chainMu` and `sessionsMu` are outer mutexes, all others inner. `AllRun` says that what a
goroutine has still to do, started with what it holds, takes an inner mutex only with at most outer
ones in its hands, an outer one only with none, releases only what it holds, and ends with nothing.
Each handler is shown to be such a sequence, by lemmas on concatenation (`FlattenSeq`, and loops
over peers or sessions in any order). A goroutine that others wait for holds only outer mutexes and
waits for an inner one, which nobody who waits holds; so there is no circle. The
hypothesis, that RPC and Stratum are not both on, is the one `services_mining` refutes when
dropped: Stratum's callback takes `chainMu` twice.

### 4.7 `WalletProofs`

* The pool: `PoolMineable` is inductive with the types. Every change of the chain by a peer's block
  leaves a callback to be made, and every callback ends with a revalidation against the chain of
  its own moment. What `revalidateMempoolLocked` returns connects: `RevalidatedConnects`.
* The chain: `Valid` says that every block extends those below it; so no block is on it twice
  (`BlocksOnce`), it spends only what it created (`PrefixClosed`), and transactions that connect to
  it are not in it, come once, and are not spent before they come (`Ledger`).
* `CallbackReturnsValid`: offering to a pool that connects leaves one that connects and takes
  nothing out; the pool has nothing that a block of the chain has, so the revalidation changes
  nothing; and a transaction that is valid alone and not accepted conflicts with one that is in.
* `StaleTipIsSafe`: the tip of the first request is never above the node's, because the chain
  never gets shorter, and `BlocksOnce` makes the height in the map the block's own.
* `ScanIsTheNodesView` and `StillNodeAccepts`: `ScanView` says that after the blocks up to a height,
  and then the pool, the map `Reflects` exactly the wallet's outputs that are unspent so far.
  `ScanMatchesNode` alone says nothing of a scan that is half done. The wallet's loop knows nothing
  of values, so `ScanView` is stated with all that the chain created and did not spend (`Created`); the node's view
  is its `Funded` part, and a valid chain spends nothing else.

### 4.8 `WalletKeys`, in `WalletProofs`

* `WInv` says of the file and of every process's copy what `OneSeal` and `OnePassphrase` say of the
  file. A command writes the copy it holds, however old, so the property of the file alone is not
  inductive.
* `RInv`: while commands take turns at most one process is
  active; a loaded copy is the file; a changed copy has what was reported and what is about
  to be (`Outlook`). `SavesKeeps` is the heart: a command either takes over all keys with
  their salt, or seals all of them again under a salt that is new.

### 4.9 `SyncProofs`

A node charges the other for what it reads, so the invariant is about messages on their way.

* `Handshake` says what the channels hold at each pair of phases: without it a version message
  might be read where a list is expected, and the types of what is read would be lost.
* `Peaceful`, while the chains are one chain within the gap: every message `Fits`. Headers are a
  part of the sender's chain that begins no higher than the receiver's ends (`Segment`), blocks
  are on the sender's chain, a request begins no higher than the asker's tip. The chains only grow
  then, so a message keeps fitting however late it is read and whatever was mined meanwhile. A
  closed end has empty channels on both sides, so that no answer fails and is charged; that is what
  a deadline that passes too early breaks, so `Peaceful` is only claimed while `late` is 0.
* What follows from a message that fits is what the readers do with it: `validateHeaderChain` skips
  what the receiver already has and the rest extends its tip; a block is known, extends the tip, or
  is an orphan within the gap, and orphans end on the sender's chain. `News`, `BlockMsgs` and
  the drain of orphans each have a lemma that says what the loop computes.

### 4.10 Only model-checked

Liveness (`Converges`, `PoolRecovers`, `HandlersFinish`, `StaticReturns`, `LevelOrBanned`,
`FreshWork`): fairness is outside what the installed provers do. Every invariant and every action
property of a passing run is a theorem.

The type invariants of all modules are proved as part of the inductive invariants, `Services`
aside, whose state has the types `SInv` gives it; of these `ChainNode`'s, `Sync`'s and
`WalletKeys`' are also theorems of their own.

### 4.11 Induction

What a fold computes is proved by induction over the naturals in the form "the least
counterexample" (`LeastNat`, `SetInduction`): `FoldExists` and `FoldAcc` turn a `FoldLeft` into
its sequence of intermediate results, and each fold of the model has a lemma that says so
(`RevalidatedIs`, `OfferedIs`, `ReturnedIs`, `ApplyTxsIs`). A recursive function is a `CHOOSE`, so it is
first shown to have a solution: `RecursionExists` builds one from its first n rounds, and `PowerIs`,
`ReducedIs`, `EstimateIs` and `FoldSums` give the equations of the model's own. The library's own induction
theorems take an operator as a parameter, which the provers cannot instantiate.

## 5. What is not modelled

* Byte formats, hashing, signatures, address encodings, the ciphers: pure functions
  of bytes, outside TLC's reach. Their verdicts are part of a block's or a
  transaction's validity; a sealed key opens for its salt and passphrase.
* Printing, logging, flag parsing, the read-only RPC views, Stratum's counters and the
  `pacpoolview` page.
* In `Services`, what the messages say; in `ChainNode`, what the callbacks do; in
  `Mempool`, fees and amounts; in `Peers`, retry delays; in `AddrBook`, time stamps.
* Transaction inventory between peers: it has the shape of block inventory in `Sync`.
* A power failure after a write that was not synced, for the wallet and the address book.
* Clock readings inside one load or one replay are a single reading.

### 5.1 Hazards no property covers

Four entries of `hazards` have no property, because the code does what they describe and any property
near them has to except it: a host banned for the node's own disk errors, one banned because it
was cut off, handlers that hang on a remote end that does not read, and a wallet file lost in the
middle of its rewriting. Several others have a note on the part that is excepted. Beyond the list:

* A reorganisation replays the common ancestors with the future limit although they were
  accepted without it (`chain.go:177`): known from the model, see section 3; no property says
  that a longer branch is adopted at once.
* `sideBlocks` has no limit and is never expired (`node.go:1556`): a bound the code does not have.
* Two nodes that dial each other at the same moment refuse each other by host and retry
  (`node.go:885`): the outcome depends on the delays, which `Peers` leaves out.
* The accepting end of a self-dial is refused because the dialling end has the same host, so the
  nonce is compared only when a router changes the source address (`node.go:901`).
* `discoveryCandidates` stamps every candidate although only the first is dialled
  (`node.go:1229`): the choice among candidates is left open in `Peers`.
* `sendAddr` fails for a book of more than 1000 addresses, and the connection with it
  (`node.go:1046`): list lengths in `Sync` are block lists only.
* A target of zero encodes as bits that no block can meet (`asert.go:19`): hundreds of half-lives
  ahead of schedule, out of reach of the clock rules.
* A share sent twice is counted twice (`stratum/server.go:663`): counters are left out.
* The wallet file is not synced (`wallet.go:104`): power failures are left out.
* `connectTxOutputs` overwrites an unspent output of the same identifier (`chain.go:370`):
  left to `Ledger`.

## 6. Plan

* `Ledger`: the UTXO set with amounts: fees and subsidy account for the supply, coinbases with
  equal identifiers, undo by replay; `Mempool` to be based on it.
* Theorems: the safety properties of `Ledger`, once it is there, on top of `SupplyIsEstimate`.
