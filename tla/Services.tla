------------------------------ MODULE Services ------------------------------
(***************************************************************************)
(* The goroutines that runServices starts and the mutexes they share.      *)
(*                                                                         *)
(* The RPC server, the peer-to-peer node and the Stratum bridge are given  *)
(* one mutex, chainMu, and callbacks into each other; each has mutexes of  *)
(* its own.  Go's mutexes are not reentrant, sockets are written with      *)
(* mutexes held, and no write has a deadline.                              *)
(*                                                                         *)
(* A handler is the sequence of mutex operations and socket writes on one  *)
(* path through it.  A critical section that takes no other mutex and      *)
(* writes to no socket is one step, Touch; several on the same mutex in a  *)
(* row are one.  Loops over peers or items take and release the same       *)
(* mutexes in each round; one round per peer and one item per message are  *)
(* kept.                                                                   *)
(***************************************************************************)
EXTENDS Integers, Sequences, FiniteSets, SequencesExt

CONSTANTS
    Peer, Miner, Client,    \* remote ends: peers, Stratum workers, RPC clients
    Deployments,            \* the sets of services an operator may enable
    MaxBusy                 \* bound on the goroutines that serve something at once

VARIABLES
    services,   \* the services that run
    todo,       \* todo[g]: the steps goroutine g has still to take
    owner       \* owner[l]: the goroutine that holds mutex l, or None

vars == <<services, todo, owner>>

None == "none"
SyncLoop == "syncLoop"
RefreshLoop == "refreshLoop"

\* One goroutine per connection and two tickers.
Goroutine == Peer \cup Miner \cup Client \cup {SyncLoop, RefreshLoop}

ChainMu == <<"chainMu">>
NodeMu == <<"Node.mu">>
SessionsMu == <<"sessionsMu">>
JobsMu == <<"jobsMu">>
WriteMu(p) == <<"writeMu", p>>
SessionMu(m) == <<"session.mu", m>>
SendMu(m) == <<"sendMu", m>>

Mutex ==
    {ChainMu, NodeMu, SessionsMu, JobsMu}
      \cup {WriteMu(p) : p \in Peer}
      \cup {SessionMu(m) : m \in Miner} \cup {SendMu(m) : m \in Miner}

Lock(l) == [op |-> "lock", on |-> l]
Unlock(l) == [op |-> "unlock", on |-> l]
Touch(l) == [op |-> "touch", on |-> l]
Write(e) == [op |-> "write", on |-> <<"conn", e>>]

Holding(l, body) == <<Lock(l)>> \o body \o <<Unlock(l)>>

ASSUME ServicesAssumption ==
    /\ \A d \in Deployments : d \subseteq {"rpc", "p2p", "stratum"}
    /\ MaxBusy \in Nat
    /\ IsFiniteSet(Peer) /\ IsFiniteSet(Miner) /\ None \notin Goroutine
    /\ Cardinality(Goroutine) = Cardinality(Peer) + Cardinality(Miner) + Cardinality(Client) + 2

-----------------------------------------------------------------------------
(* Writing to peers and miners. *)

\* Mutant: the early return of a failed write keeps the mutex.
WritePeerKeeping(p) == <<Touch(NodeMu), Lock(WriteMu(p)), Write(p)>>

WritePeerMessage(p) == <<Touch(NodeMu)>> \o Holding(WriteMu(p), <<Write(p)>>)

BroadcastInv(ps) ==
    <<Touch(NodeMu)>> \o
    FlattenSeq([i \in 1..Cardinality(ps) |->
                  LET p == SetToSeq(ps)[i] IN Holding(WriteMu(p), <<Write(p)>>)])

Send(m) == Holding(SendMu(m), <<Write(m)>>)

CreateJob == Holding(ChainMu, <<Touch(JobsMu)>>)

BroadcastJob ==
    LET miners == SetToSeq(Miner) IN
    CreateJob
      \o Holding(SessionsMu, [i \in DOMAIN miners |-> Touch(SessionMu(miners[i]))])
      \o FlattenSeq([i \in DOMAIN miners |-> Send(miners[i])])

-----------------------------------------------------------------------------
(* The callbacks that runServices installs. *)

NotifyBlockConnected == IF "rpc" \in services THEN <<Touch(ChainMu)>> ELSE <<>>
RelayBlock == IF "p2p" \in services THEN BroadcastInv(Peer) ELSE <<>>
AcceptTx == IF "rpc" \in services THEN <<Touch(ChainMu)>> ELSE <<>>

-----------------------------------------------------------------------------
(* Handlers. *)

\* Mutant: the orphan pool is locked before the chain.
HasBlockSwapped == Holding(NodeMu, <<Touch(ChainMu)>>)

HasBlock == Holding(ChainMu, <<Touch(NodeMu)>>)

\* handleConn and readLoop of the connection to p, by command; "refused" is an
\* error from the chain, a ban score and the end of the connection.
PeerHandlers(p) ==
    { <<Touch(NodeMu), Touch(ChainMu), Write(p), Touch(NodeMu), Touch(ChainMu)>>
        \o WritePeerMessage(p),                                 \* version, getheaders, addr
      WritePeerMessage(p),                                      \* ping, getaddr
      <<Touch(ChainMu)>> \o WritePeerMessage(p),                \* getheaders, headers, getblocks, getdata
      HasBlock \o WritePeerMessage(p),                          \* inv
      <<Touch(NodeMu)>>,                                        \* addr
      <<Touch(ChainMu)>> \o NotifyBlockConnected \o BroadcastInv(Peer \ {p}),   \* block
      <<Touch(ChainMu), Touch(NodeMu)>> }                       \* refused
    \cup IF AcceptTx = <<>> THEN {} ELSE {AcceptTx \o BroadcastInv(Peer \ {p})} \* tx

\* syncStep, when every peer claims to be higher.
SyncStep ==
    LET peers == SetToSeq(Peer) IN
    <<Touch(ChainMu), Touch(NodeMu)>>
      \o FlattenSeq([i \in DOMAIN peers |-> <<Touch(ChainMu)>> \o WritePeerMessage(peers[i])])

\* The RPC server's handlers; the read-only ones answer with chainMu held.
ClientHandlers(c) ==
    { Holding(ChainMu, <<Write(c)>>),
      <<Touch(ChainMu), Touch(NodeMu), Write(c)>>,                              \* getnetworkinfo
      AcceptTx \o (IF "p2p" \in services THEN BroadcastInv(Peer) ELSE <<>>)
               \o <<Touch(ChainMu), Write(c)>>,                                 \* submitrawtransaction
      Holding(ChainMu, RelayBlock \o <<Write(c)>>) }                            \* submitblock, generate
    \cup IF "stratum" \in services
         THEN {<<Touch(SessionsMu), Touch(JobsMu)>>
                 \o [i \in 1..Cardinality(Miner) |-> Touch(SessionMu(SetToSeq(Miner)[i]))]
                 \o <<Write(c)>>}                                               \* getstratuminfo
         ELSE {}

\* acceptBlock calls back before it releases chainMu.
AcceptBlock == Holding(ChainMu, NotifyBlockConnected \o RelayBlock)

\* handleConn of a miner's connection, by method.
MinerHandlers(m) ==
    LET mark == <<Touch(SessionMu(m))>> IN
    { <<Touch(SessionsMu)>>,                                                    \* connected, disconnected
      mark \o Send(m) \o Send(m) \o mark,                                       \* subscribe
      mark \o Send(m) \o CreateJob \o Send(m) \o mark,                          \* authorize
      mark \o <<Touch(JobsMu)>> \o mark \o Send(m),                             \* submit, a share
      mark \o <<Touch(JobsMu)>> \o AcceptBlock \o mark \o BroadcastJob
        \o mark \o Send(m) }                                                   \* submit, a block

Handlers(g) ==
    CASE g \in Peer -> IF "p2p" \in services THEN PeerHandlers(g) ELSE {}
      [] g = SyncLoop -> IF "p2p" \in services THEN {SyncStep} ELSE {}
      [] g \in Client -> IF "rpc" \in services THEN ClientHandlers(g) ELSE {}
      [] g \in Miner -> IF "stratum" \in services THEN MinerHandlers(g) ELSE {}
      [] g = RefreshLoop -> IF "stratum" \in services THEN {BroadcastJob} ELSE {}

-----------------------------------------------------------------------------
Init ==
    /\ services \in Deployments
    /\ todo = [g \in Goroutine |-> <<>>]
    /\ owner = [l \in Mutex |-> None]

Start(g) ==
    /\ todo[g] = <<>>
    /\ Cardinality({k \in Goroutine : todo[k] # <<>>}) < MaxBusy
    /\ \E h \in Handlers(g) : todo' = [todo EXCEPT ![g] = h]
    /\ UNCHANGED <<services, owner>>

At(g, op) == todo[g] # <<>> /\ Head(todo[g]).op = op
Goes(g) == todo' = [todo EXCEPT ![g] = Tail(@)] /\ UNCHANGED services
On(g) == Head(todo[g]).on

LockMutex(g) ==
    /\ At(g, "lock") /\ owner[On(g)] = None
    /\ owner' = [owner EXCEPT ![On(g)] = g]
    /\ Goes(g)

UnlockMutex(g) ==
    /\ At(g, "unlock")
    /\ owner' = [owner EXCEPT ![On(g)] = None]
    /\ Goes(g)

TouchMutex(g) ==
    /\ At(g, "touch") /\ owner[On(g)] = None
    /\ UNCHANGED owner
    /\ Goes(g)

\* The remote end takes what is written to it, or the connection breaks.
WriteConn(g) ==
    /\ At(g, "write")
    /\ UNCHANGED owner
    /\ Goes(g)

Step(g) == LockMutex(g) \/ UnlockMutex(g) \/ TouchMutex(g) \/ WriteConn(g)

Next == \E g \in Goroutine : Start(g) \/ Step(g)

\* Strong fairness: a goroutine that waits for a Go mutex is served in turn.
Spec == Init /\ [][Next]_vars /\ \A g \in Goroutine : SF_vars(Step(g))

-----------------------------------------------------------------------------
(* Properties. *)

WaitsFor(g, k) == (At(g, "lock") \/ At(g, "touch")) /\ owner[On(g)] = k

(***************************************************************************)
(* No goroutines wait for each other's mutexes in a circle, and none waits *)
(* for one that it holds itself.                                           *)
(***************************************************************************)
NoCircularWait ==
    ~\E S \in (SUBSET Goroutine) \ {{}} : \A g \in S : \E k \in S : WaitsFor(g, k)

(***************************************************************************)
(* Every request, message, share and tick that a goroutine begins to serve *)
(* is served to the end, given that remote ends read what they are sent.   *)
(***************************************************************************)
HandlersFinish == \A g \in Goroutine : todo[g] # <<>> ~> todo[g] = <<>>

=============================================================================
