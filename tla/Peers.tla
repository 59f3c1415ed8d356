------------------------------- MODULE Peers -------------------------------
(***************************************************************************)
(* The peer table of the p2p node.                                         *)
(*                                                                         *)
(* Every connection, accepted or dialled, is a goroutine: it reserves an   *)
(* entry, shakes hands, fills the entry in, greets, reads messages, and    *)
(* removes the entry when it returns.  The table is keyed by the remote    *)
(* address, not by the connection: a static dial may take the place of an  *)
(* entry whose connection is still shaking hands, and that connection goes *)
(* on.                                                                     *)
(*                                                                         *)
(* A connection is named by its address and by who opened it: TCP lets an  *)
(* inbound address exist once, a static address has one connectLoop, and   *)
(* of two discovery dials of an address the later one is refused.  Penalty *)
(* points are counted in fifties.                                          *)
(***************************************************************************)
EXTENDS Integers, FiniteSets, Functions

CONSTANTS
    Addr, HostOf,       \* banKey
    Loopback,           \* hosts for which isLoopbackHost
    Conn, AddrOf,       \* connections and their remote addresses
    Inbound,            \* accepted by acceptLoop
    Static,             \* dialled by a connectLoop; the rest by discovery
    Configured,         \* cfg.Connect entries written as the address itself
    Own, OwnSource,     \* dialling Own reaches this node as OwnSource
    Advertised,         \* Advertised[c]: the address in c's version message
    Honest,             \* hosts that answer, send nothing wrong and never reset
    MaxPeers

VARIABLES
    state,              \* where each connection's goroutine is
    peers,              \* by address: "absent", "pending" (conn is nil) or a connection
    banScores,
    selfAddrs,
    faulted             \* history: hosts that sent something wrong or were cut off

vars == <<state, peers, banScores, selfAddrs, faulted>>

Host == Range(HostOf)
BanThreshold == 2
BanMalformed == 2
BanInvalidChain == 1

ASSUME PeersAssumption ==
    /\ HostOf \in [Addr -> Host] /\ Loopback \subseteq Host
    /\ AddrOf \in [Conn -> Addr] /\ Advertised \in [Conn -> Addr \cup {""}]
    /\ Inbound \subseteq Conn /\ Static \subseteq Conn \ Inbound
    /\ {Own, OwnSource} \subseteq Conn /\ OwnSource \in Inbound \ Static
    /\ Configured \subseteq {AddrOf[c] : c \in Static}
    /\ Honest \subseteq Host
    /\ MaxPeers \in Nat \ {0}
    /\ Conn \cap {"absent", "pending"} = {}

TypeOK ==
    /\ state \in [Conn -> {"idle", "dialling", "handshake", "active", "closed"}]
    /\ peers \in [Addr -> Conn \cup {"absent", "pending"}]
    /\ \A a \in Addr : peers[a] \in Conn => AddrOf[peers[a]] = a
    /\ banScores \in [Host -> 0..BanThreshold]
    /\ selfAddrs \subseteq Addr
    /\ faulted \subseteq Host

Init ==
    /\ state = [c \in Conn |-> "idle"]
    /\ peers = [a \in Addr |-> "absent"]
    /\ banScores = [h \in Host |-> 0]
    /\ selfAddrs = {} /\ faulted = {}

HostOfConn(c) == HostOf[AddrOf[c]]
Live(c) == state[c] \in {"handshake", "active", "closed"}

-----------------------------------------------------------------------------
(* Questions about the table. *)

Entries(p) == {a \in Addr : p[a] # "absent"}
Pending(p) == {a \in Addr : p[a] = "pending"}
Active(p) == {a \in Addr : p[a] \in Conn}

\* An entry stands for its own host and, once filled in, for the advertised one.
StandsFor(p, b, h) ==
    \/ p[b] # "absent" /\ HostOf[b] = h
    \/ p[b] \in Conn /\ Advertised[p[b]] \in Addr /\ HostOf[Advertised[p[b]]] = h

HasPeerForHost(p, h) == h \notin Loopback /\ \E b \in Addr : StandsFor(p, b, h)

HasActivePeerForHost(p, h) ==
    h \notin Loopback /\ \E b \in Active(p) : StandsFor(p, b, h)

\* By address, and for a host that is not a loopback one by host.
IsKnownSelfAddr(a) ==
    \/ a \in selfAddrs
    \/ HostOf[a] \notin Loopback /\ \E s \in selfAddrs : HostOf[s] = HostOf[a]

IsStatic(c) == c \in Static \/ AddrOf[c] \in Configured

Banned(h) == banScores[h] >= BanThreshold

\* Mutant: no separate limit.
MaxEntries(maxPeers) == 3 * maxPeers

MaxPendingPeers(maxPeers) == 2 * maxPeers

Without(p, as) == [a \in Addr |-> IF a \in as THEN "absent" ELSE p[a]]

-----------------------------------------------------------------------------
(* reservePeer.  The entries it deletes on its way stay deleted when a     *)
(* later condition refuses the reservation.                                *)

AfterSameAddr(c) == Without(peers, IF peers[AddrOf[c]] = "pending" THEN {AddrOf[c]} ELSE {})

AfterSameHost(c) ==
    LET p == AfterSameAddr(c) h == HostOfConn(c) IN
    IF HasPeerForHost(p, h) THEN Without(p, {b \in Pending(p) : HostOf[b] = h}) ELSE p

RefusedAtOnce(c) ==
    \/ IsKnownSelfAddr(AddrOf[c]) \/ Banned(HostOfConn(c))
    \/ peers[AddrOf[c]] # "absent" /\ (~IsStatic(c) \/ peers[AddrOf[c]] \in Conn)

\* Mutant: a pending entry of the same host does not count.
RefusedForActiveHost(c) == HasActivePeerForHost(AfterSameAddr(c), HostOfConn(c))

RefusedForHost(c) ==
    LET p == AfterSameAddr(c) h == HostOfConn(c) IN
    HasPeerForHost(p, h) /\ (~IsStatic(c) \/ HasActivePeerForHost(p, h))

\* Mutant: static peers wait for a slot like the others.
RefusedEvenStatic(c) ==
    LET p == AfterSameHost(c) IN
    \/ Cardinality(Active(p)) >= MaxPeers
    \/ Cardinality(Pending(p)) >= MaxPendingPeers(MaxPeers)

RefusedForRoom(c) ==
    LET p == AfterSameHost(c) IN
    \/ Cardinality(Active(p)) >= MaxPeers /\ (c \in Inbound \/ ~IsStatic(c))
    \/ Cardinality(Pending(p)) >= MaxPendingPeers(MaxPeers) /\ ~IsStatic(c)

TakesPlace(c) ==
    /\ ~RefusedAtOnce(c) /\ ~RefusedForHost(c) /\ ~RefusedForRoom(c)
    /\ peers' = [AfterSameHost(c) EXCEPT ![AddrOf[c]] = "pending"]
    /\ state' = [state EXCEPT ![c] = "handshake"]

\* handleConn returns before it would remove anything.
IsRefused(c) ==
    /\ \/ RefusedAtOnce(c) /\ peers' = peers
       \/ ~RefusedAtOnce(c) /\ RefusedForHost(c) /\ peers' = AfterSameAddr(c)
       \/ ~RefusedAtOnce(c) /\ ~RefusedForHost(c) /\ RefusedForRoom(c)
          /\ peers' = AfterSameHost(c)
    /\ state' = [state EXCEPT ![c] = "idle"]

ReservePeer(c) ==
    /\ TakesPlace(c) \/ IsRefused(c)
    /\ UNCHANGED <<banScores, selfAddrs, faulted>>

-----------------------------------------------------------------------------
(* Opening a connection. *)

\* A dial of Own is what makes OwnSource arrive, before or after Own reserves.
Accept(c) ==
    /\ c \in Inbound /\ state[c] = "idle"
    /\ c = OwnSource => state[Own] \in {"dialling", "handshake"}
    /\ ReservePeer(c)

ConnectLoop(c) ==
    /\ c \in Static /\ state[c] = "idle" /\ ~IsKnownSelfAddr(AddrOf[c])
    /\ state' = [state EXCEPT ![c] = "dialling"]
    /\ UNCHANGED <<peers, banScores, selfAddrs, faulted>>

\* discoveryStep and discoveryCandidates.
DiscoveryStep(c) ==
    LET a == AddrOf[c] IN
    /\ c \notin Inbound \cup Static /\ state[c] = "idle"
    /\ Cardinality(Entries(peers)) < MaxPeers
    /\ ~IsKnownSelfAddr(a) /\ peers[a] = "absent" /\ ~HasPeerForHost(peers, HostOf[a])
    /\ \A b \in Active(peers) : Advertised[peers[b]] # a
    /\ a \notin Configured /\ ~Banned(HostOf[a])
    /\ state' = [state EXCEPT ![c] = "dialling"]
    /\ UNCHANGED <<peers, banScores, selfAddrs, faulted>>

\* The table may have changed while connectAndHandle dialled.
DialSucceeds(c) == state[c] = "dialling" /\ ReservePeer(c)

DialFails(c) ==
    /\ state[c] = "dialling" /\ HostOfConn(c) \notin Honest
    /\ state' = [state EXCEPT ![c] = "idle"]
    /\ UNCHANGED <<peers, banScores, selfAddrs, faulted>>

-----------------------------------------------------------------------------
(* The handshake. *)

\* The accepting end reads the nonce, if the dialling end got as far as sending
\* it, and hangs up: it learns the address the dial came from, the dialling end
\* sees the connection close.
RememberSelfAddr(c) ==
    selfAddrs \cup {AddrOf[d] : d \in {OwnSource} \cap {c}}

HandshakeFails(c) ==
    /\ state[c] = "handshake"
    /\ c = Own => ~Live(OwnSource)
    /\ c \in {Own, OwnSource} \/ HostOfConn(c) \notin Honest
    /\ state' = [state EXCEPT ![c] = "closed"]
    /\ selfAddrs' = IF state[Own] = "handshake" THEN RememberSelfAddr(c) ELSE selfAddrs
    /\ UNCHANGED <<peers, banScores, faulted>>

UpdatePeer(c) ==
    /\ state[c] = "handshake" /\ c \notin {Own, OwnSource}
    /\ peers' = [peers EXCEPT ![AddrOf[c]] = c]
    /\ state' = [state EXCEPT ![c] = "active"]
    /\ UNCHANGED <<banScores, selfAddrs, faulted>>

\* writePeerMessage looks the address up again, and may find another connection.
CanWrite(c) ==
    LET peer == peers[AddrOf[c]] IN peer \in Conn /\ state[peer] # "closed"

-----------------------------------------------------------------------------
(* Reading messages. *)

\* Beyond the threshold the score makes no difference.
Raised(score, points) == IF score + points > BanThreshold THEN BanThreshold ELSE score + points

\* Mutant: the score is counted and the connection reads on.
CountOnly(c, points) ==
    banScores' = [banScores EXCEPT ![HostOfConn(c)] = Raised(@, points)] /\ UNCHANGED state

\* addBanScore, and the return of c's readLoop.
AddBanScore(c, points) ==
    LET h == HostOfConn(c)
        closes == {peers[b] : b \in {a \in Active(peers) : HostOf[a] = h}}
    IN /\ banScores' = [banScores EXCEPT ![h] = Raised(@, points)]
       /\ state' = [d \in Conn |->
                      IF d = c \/ (d \in closes /\ Banned(h)') THEN "closed" ELSE state[d]]

\* A message that cannot be decoded or a block, header or transaction that is invalid.
Misbehave(c, points) ==
    /\ state[c] = "active" /\ HostOfConn(c) \notin Honest
    /\ AddBanScore(c, points)
    /\ faulted' = faulted \cup {HostOfConn(c)}
    /\ UNCHANGED <<peers, selfAddrs>>

\* shouldBanReadError: a reset, or an end in the middle of a message, is charged
\* like a malformed message.
Reset(c) == Misbehave(c, BanMalformed)

\* The answer to a getheaders or inv message cannot be written: the handler's error
\* is charged to the sender.
AnswerFails(c) ==
    /\ state[c] = "active" /\ ~CanWrite(c)
    /\ AddBanScore(c, BanMalformed)
    /\ UNCHANGED <<peers, selfAddrs, faulted>>

\* The remote end closes between messages or is silent for defaultIdleTimeout, or
\* one of the first messages to it, sendGetHeaders and sendAddr, fails.
Drop(c) ==
    /\ state[c] = "active"
    /\ state' = [state EXCEPT ![c] = "closed"]
    /\ UNCHANGED <<peers, banScores, selfAddrs, faulted>>

\* Mutant: everything the host has is removed.
RemoveHost(c) ==
    /\ state[c] = "closed"
    /\ peers' = Without(peers, {a \in Addr : HostOf[a] = HostOfConn(c)})
    /\ state' = [state EXCEPT ![c] = "idle"]
    /\ UNCHANGED <<banScores, selfAddrs, faulted>>

\* The deferred removePeer, by address.
RemovePeer(c) ==
    /\ state[c] = "closed"
    /\ peers' = [peers EXCEPT ![AddrOf[c]] = "absent"]
    /\ state' = [state EXCEPT ![c] = "idle"]
    /\ UNCHANGED <<banScores, selfAddrs, faulted>>

Next ==
    \E c \in Conn :
       \/ Accept(c) \/ ConnectLoop(c) \/ DiscoveryStep(c) \/ DialSucceeds(c) \/ DialFails(c)
       \/ HandshakeFails(c) \/ UpdatePeer(c)
       \/ Misbehave(c, BanInvalidChain) \/ Reset(c) \/ AnswerFails(c) \/ Drop(c)
       \/ RemovePeer(c)

\* Goroutines run, dials and handshakes end or time out, connectLoop dials again.  The
\* steps of a connection in these states are its goroutine's alone, so this is fairness
\* of them and asks nothing of the remote end.
Moves(c) ==
    /\ \/ state[c] \in {"dialling", "handshake", "closed"}
       \/ state[c] = "idle" /\ c \in Static /\ ~IsKnownSelfAddr(AddrOf[c])
    /\ \E s \in {"idle", "dialling", "handshake", "active", "closed"} \ {state[c]} :
         state' = [state EXCEPT ![c] = s]

Spec == Init /\ [][Next]_vars /\ \A c \in Conn : WF_state(Moves(c))

-----------------------------------------------------------------------------
(* Properties. *)

StaticHosts == {HostOfConn(c) : c \in Static}

\* No static dial deletes an entry of the address: a dial of the address itself would, and
\* one of its host unless that is a loopback one.
Fixed(a) ==
    /\ a \notin {AddrOf[c] : c \in Static}
    /\ HostOf[a] \in StaticHosts => HostOf[a] \in Loopback

\* Discovery passes over an address that is configured as it is written.
MayOpen(c) == AddrOf[c] \in Configured => c \in Inbound \cup Static

Rivals(c) == {d \in Conn \ {c} : AddrOf[d] = AddrOf[c] /\ MayOpen(d)}

Replaceable(c) == MayOpen(c) /\ Rivals(c) # {} /\ ~Fixed(AddrOf[c])

(***************************************************************************)
(* A connection that serves messages is the one its address's entry names, *)
(* so answers go to whoever asked, unless a static dial can delete the     *)
(* entry and another connection of the same address then take its place.   *)
(***************************************************************************)
OwnEntry ==
    \A c \in Conn : state[c] = "active" /\ ~Replaceable(c) => peers[AddrOf[c]] = c

(***************************************************************************)
(* MaxPeers bounds the connections that have shaken hands when another one *)
(* is let in; the ones that are let in together pass the same check.  The  *)
(* table never holds more than this, static hosts aside.                   *)
(***************************************************************************)
TableBounded ==
    Cardinality({a \in Entries(peers) : HostOf[a] \notin StaticHosts}) <= 3 * MaxPeers - 1

(***************************************************************************)
(* However dials and arrivals interleave, a host has one connection,       *)
(* static and loopback hosts aside.                                        *)
(***************************************************************************)
OnePerHost ==
    \A c, d \in Conn :
       /\ c # d /\ Live(c) /\ Live(d)
       /\ HostOfConn(c) = HostOfConn(d)
       => HostOfConn(c) \in StaticHosts \cup Loopback

(***************************************************************************)
(* A ban reaches every connection of the host, one whose handshake was     *)
(* under way included, static and loopback hosts aside.                    *)
(***************************************************************************)
BanCloses ==
    \A c \in Conn :
       Banned(HostOfConn(c)) /\ HostOfConn(c) \notin StaticHosts \cup Loopback
         => state[c] \notin {"handshake", "active"}

(***************************************************************************)
(* A host that sent nothing wrong and was never cut off is not banned,     *)
(* unless a connection of it is replaceable: one whose entry another has   *)
(* removed cannot answer, and that is charged to the host.                 *)
(***************************************************************************)
HonestNotBanned ==
    \A h \in Host :
       banScores[h] > 0 =>
          h \in faulted \/ \E c \in Conn : HostOfConn(c) = h /\ Replaceable(c)

(***************************************************************************)
(* A static peer that is configured by its address and keeps answering is  *)
(* again and again connected and in the table, whatever arrives from its   *)
(* host and however full the table is.                                     *)
(***************************************************************************)
StaticReturns ==
    \A c \in Static :
       AddrOf[c] \in Configured /\ HostOfConn(c) \in Honest =>
          []<>(\E d \in Conn : /\ HostOfConn(d) = HostOfConn(c)
                               /\ state[d] = "active" /\ peers[AddrOf[d]] = d)

=============================================================================
