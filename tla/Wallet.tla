------------------------------- MODULE Wallet -------------------------------
(***************************************************************************)
(* pacwallet balance, drafttx and send against a node that goes on         *)
(* working.                                                                *)
(*                                                                         *)
(* The wallet keeps no index.  Every command asks for the best block, then *)
(* for each block by its height, then for the pool, one RPC request at a   *)
(* time, and applies the transactions in order to an empty set of unspent  *)
(* outputs.  Nothing holds the node still in between: its chain can grow   *)
(* or reorganise and its pool can change, and the heights and maturities   *)
(* the wallet computes are those of the tip it saw first.                  *)
(***************************************************************************)
EXTENDS Mempool, FiniteSetsExt

CONSTANTS
    Mine,           \* outputs whose script belongs to a key of the wallet
    Needs           \* amount + fee of the payments a user may make

VARIABLES
    step,           \* "idle", "blocks", "draft", "submit"
    tip,            \* chainTip.Height, from getbestblock
    at,             \* the next height to ask for
    utxos,          \* the map ScanWallet builds
    selected,       \* inputs of the draft
    moved           \* history: the node changed since the command began

wallet == <<step, tip, at, utxos, selected, moved>>
allVars == <<vars, wallet>>

Output == Tx \cup Block
UTXO == [out : Output, height : Nat, coinbase : BOOLEAN, pending : BOOLEAN]

ASSUME WalletAssumption ==
    /\ Mine \subseteq Output
    /\ Needs \subseteq Nat \ {0}

WalletTypeOK ==
    /\ TypeOK
    /\ step \in {"idle", "blocks", "draft", "submit"}
    /\ tip \in Nat /\ at \in Nat
    /\ utxos \subseteq UTXO
    /\ selected \subseteq Output
    /\ moved \in BOOLEAN

Reset == step' = "idle" /\ tip' = 0 /\ at' = 0 /\ utxos' = {} /\ selected' = {} /\ moved' = FALSE

WalletInit ==
    /\ Init
    /\ step = "idle" /\ tip = 0 /\ at = 0 /\ utxos = {} /\ selected = {} /\ moved = FALSE

-----------------------------------------------------------------------------
(* Reading a block or the pool. *)

\* Mutant: what a transaction spends stays in the map.
ApplyOutputs(us, o, spends, height, coinbase, pending) ==
    us \cup {[out |-> x, height |-> height, coinbase |-> coinbase, pending |-> pending]
               : x \in {o} \cap Mine}

\* applyTx: the spent outputs leave the map, the wallet's own enter it, worth nothing or not.
ApplyTx(us, o, spends, height, coinbase, pending) ==
    {u \in us : u.out \notin spends \cup ({o} \cap Mine)} \cup
    {[out |-> x, height |-> height, coinbase |-> coinbase, pending |-> pending]
       : x \in {o} \cap Mine}

ApplyTxs(us, ts, height, pending) ==
    FoldLeft(LAMBDA m, t : ApplyTx(m, t, Inputs[t], height, FALSE, pending), us, ts)

\* The coinbase transaction comes first; the height is the block's own.
ApplyBlock(us, height) ==
    LET b == chain[height] IN
    ApplyTxs(ApplyTx(us, b, {}, height, TRUE, FALSE), TxsOf[b], height, FALSE)

\* Mutant: one block too early.
IsMatureEarly(u) == u.coinbase => tip + 2 >= u.height + Maturity

\* isMature, against the tip of the first request.
IsMature(u) == u.coinbase => tip + 1 >= u.height + Maturity

IsSpendableUTXO(u) == ~u.pending /\ IsMature(u)

-----------------------------------------------------------------------------
(* Requests. *)

GetBestBlock ==
    /\ step = "idle"
    /\ step' = "blocks" /\ tip' = Len(chain) /\ at' = 1
    /\ UNCHANGED <<vars, utxos, selected, moved>>

GetBlock ==
    /\ step = "blocks" /\ at <= tip
    /\ utxos' = ApplyBlock(utxos, at) /\ at' = at + 1
    /\ UNCHANGED <<vars, step, tip, selected, moved>>

GetRawMempool ==
    /\ step = "blocks" /\ at > tip
    /\ utxos' = ApplyTxs(utxos, mempool, 0, TRUE)
    /\ step' = "draft"
    /\ UNCHANGED <<vars, tip, at, selected, moved>>

Total(os) == FoldSet(LAMBDA o, n : Value[o] + n, 0, os)

\* selectUTXOs: by height, ties by transaction hash, until the sum is enough.
Selects(s, need) ==
    LET spendable == {u \in utxos : IsSpendableUTXO(u)} IN
    /\ s \subseteq spendable
    /\ Total({u.out : u \in s}) >= need
    /\ \E last \in s :
         /\ Total({u.out : u \in s \ {last}}) < need
         /\ \A u \in s : u.height <= last.height
    /\ \A u \in spendable \ s : \A v \in s : v.height <= u.height

BuildDraftTx ==
    /\ step = "draft"
    /\ \E need \in Needs, s \in SUBSET utxos :
         Selects(s, need) /\ selected' = {u.out : u \in s}
    /\ step' = "submit"
    /\ UNCHANGED <<vars, tip, at, utxos, moved>>

\* balance, history, and a payment there is not enough for end with the scan.
Balance == step = "draft" /\ Reset /\ UNCHANGED vars

\* drafttx prints the transaction.
DraftTx == step = "submit" /\ Reset /\ UNCHANGED vars

\* The request's handler calls acceptTransactionLocked.
SubmitRawTransaction(t) ==
    /\ mempool' = Accepted(chain, mempool, t)
    /\ UNCHANGED <<chain, notes>>

\* send: signed and submitted, whatever the answer.
Send(t) ==
    /\ step = "submit" /\ Inputs[t] = selected
    /\ SubmitRawTransaction(t)
    /\ Reset

WalletStep ==
    \/ GetBestBlock \/ GetBlock \/ GetRawMempool \/ BuildDraftTx \/ Balance \/ DraftTx
    \/ \E t \in Tx : Send(t)

NodeStep ==
    /\ Next
    /\ moved' = (moved \/ step # "idle")
    /\ UNCHANGED <<step, tip, at, utxos, selected>>

WalletNext == WalletStep \/ NodeStep

WalletSpec ==
    /\ WalletInit /\ [][WalletNext]_allVars
    /\ \A h \in Handler : WF_notes(TakesNote(h))

-----------------------------------------------------------------------------
(* Properties. *)

\* What the chain created and the node does not have, because it is worth nothing.
Skipped(c) == {o \in Range(c) \cup TxsIn(c) : Value[o] = 0}

(***************************************************************************)
(* If the node kept still, the map that the wallet computed request by     *)
(* request is the node's own view, but for outputs worth nothing, which    *)
(* the wallet lists and connectTxOutputs leaves out: what the wallet calls *)
(* spendable is what the chain has unspent and mature and the pool does    *)
(* not spend, with every mature output of that kind added, and what it     *)
(* calls pending is what the pool creates and does not spend.              *)
(***************************************************************************)
ScanMatchesNode ==
    step = "draft" /\ ~moved /\ Connects(chain, mempool) =>
       LET pool == Range(mempool) IN
       /\ {u.out : u \in {v \in utxos : IsSpendableUTXO(v)}} =
            {o \in Mine \cap (Unspent(chain) \cup Skipped(chain)) : Mature(chain, o)} \ Spent(pool)
       /\ {u.out : u \in {v \in utxos : v.pending}} = (Mine \cap pool) \ Spent(pool)

(***************************************************************************)
(* Whatever moved while the wallet was reading, an output it calls mature  *)
(* and that the chain still has at that height is mature for the node: a   *)
(* stale tip errs on the side of waiting.                                  *)
(***************************************************************************)
MatureIsMature ==
    \A u \in utxos :
       u.coinbase /\ IsMature(u) /\ u.height <= Len(chain) /\ chain[u.height] = u.out
          => Mature(chain, u.out)

(***************************************************************************)
(* A payment built from a scan during which the node kept still is         *)
(* accepted, unless selectUTXOs put an output worth nothing among its      *)
(* inputs: the node does not have that one and refuses the payment.        *)
(***************************************************************************)
DraftIsAccepted ==
    [][\A t \in Tx :
         Send(t) /\ ~moved /\ Connects(chain, mempool)
           => (t \in Range(mempool') <=> selected = Funded(selected))]_allVars

=============================================================================
