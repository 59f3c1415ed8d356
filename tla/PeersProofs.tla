---------------------------- MODULE PeersProofs ----------------------------
(***************************************************************************)
(* Proofs about the peer table: who owns an entry, how many entries there  *)
(* are, and whom a ban reaches, for any number of hosts, addresses and     *)
(* connections.                                                            *)
(***************************************************************************)
EXTENDS Peers, FiniteSetTheorems, TLAPS

\* An entry that is filled in names a connection whose goroutine has not yet returned.
EntryLive == \A a \in Addr : peers[a] \in Conn => state[peers[a]] \in {"active", "closed"}

\* Discovery leaves an address alone that is configured as it is written.
NeverOpened == \A c \in Conn : ~MayOpen(c) => state[c] = "idle"

\* The entry a goroutine reserved is there until the goroutine removes it.
FixedKept ==
  \A c \in Conn : Fixed(AddrOf[c]) =>
     /\ state[c] = "handshake" => peers[AddrOf[c]] = "pending"
     /\ state[c] = "active" => peers[AddrOf[c]] = c
     /\ state[c] = "closed" => peers[AddrOf[c]] \in {"pending", c}

OnePerFixed ==
  \A c, d \in Conn : Fixed(AddrOf[c]) /\ AddrOf[c] = AddrOf[d] /\ Live(c) /\ Live(d) => c = d

SoleKept == \A c \in Conn : state[c] = "active" /\ Rivals(c) = {} => peers[AddrOf[c]] = c

Bounded == IsFiniteSet(Entries(peers)) /\ TableBounded

\* The inductive invariant.
Ownership == EntryLive /\ NeverOpened /\ FixedKept /\ OnePerFixed /\ SoleKept

PInv == TypeOK /\ Ownership /\ OnePerHost /\ BanCloses /\ HonestNotBanned /\ Bounded

-----------------------------------------------------------------------------
(* Static hosts and addresses. *)

LEMMA ConnTypes ==
  ASSUME NEW c \in Conn
  PROVE  AddrOf[c] \in Addr /\ HostOf[AddrOf[c]] \in Host /\ c # "absent" /\ c # "pending"
BY PeersAssumption

\* isStaticPeerLocked holds of no connection of a fixed address.
LEMMA StaticNotFixed ==
  ASSUME NEW c \in Conn, IsStatic(c)
  PROVE  /\ ~Fixed(AddrOf[c])
         /\ HostOfConn(c) \in StaticHosts
         /\ \A a \in Addr : HostOf[a] = HostOfConn(c) /\ Fixed(a) => HostOf[a] \in Loopback
<1>1. PICK s \in Static : AddrOf[s] = AddrOf[c]
  BY PeersAssumption DEF IsStatic
<1> QED BY <1>1 DEF Fixed, StaticHosts, HostOfConn

LEMMA PlainIsFixed ==
  ASSUME NEW c \in Conn, HostOfConn(c) \notin StaticHosts
  PROVE  Fixed(AddrOf[c])
BY DEF Fixed, StaticHosts, HostOfConn

-----------------------------------------------------------------------------
(* What reservePeer does to the table. *)

\* The entries it finds before it deletes any.
LEMMA AfterSameAddrIs ==
  ASSUME TypeOK, NEW c \in Conn, ~RefusedAtOnce(c)
  PROVE  /\ AfterSameAddr(c) \in [Addr -> Conn \cup {"absent", "pending"}]
         /\ AfterSameAddr(c)[AddrOf[c]] = "absent"
         /\ \A a \in Addr : a # AddrOf[c] => AfterSameAddr(c)[a] = peers[a]
         /\ peers[AddrOf[c]] \in {"absent", "pending"}
         /\ peers[AddrOf[c]] = "pending" => IsStatic(c)
BY ConnTypes DEF AfterSameAddr, Without, RefusedAtOnce, TypeOK

LEMMA AfterSameHostIs ==
  ASSUME TypeOK, NEW c \in Conn, ~RefusedAtOnce(c), ~RefusedForHost(c)
  PROVE  /\ AfterSameHost(c) \in [Addr -> Conn \cup {"absent", "pending"}]
         /\ AfterSameHost(c)[AddrOf[c]] = "absent"
         /\ \A a \in Addr : AfterSameHost(c)[a] # AfterSameAddr(c)[a] =>
               /\ IsStatic(c) /\ AfterSameAddr(c)[a] = "pending" /\ AfterSameHost(c)[a] = "absent"
               /\ HostOf[a] = HostOfConn(c) /\ HostOf[a] \notin Loopback
<1>1. CASE HasPeerForHost(AfterSameAddr(c), HostOfConn(c))
  <2>1. IsStatic(c)
    BY <1>1 DEF RefusedForHost
  <2>2. HostOfConn(c) \notin Loopback
    BY <1>1 DEF HasPeerForHost
  <2>3. AfterSameHost(c) =
          Without(AfterSameAddr(c), {b \in Pending(AfterSameAddr(c)) : HostOf[b] = HostOfConn(c)})
    BY <1>1 DEF AfterSameHost
  <2> QED BY <2>1, <2>2, <2>3, AfterSameAddrIs, ConnTypes DEF Without, Pending
<1>2. CASE ~HasPeerForHost(AfterSameAddr(c), HostOfConn(c))
  BY <1>2, AfterSameAddrIs DEF AfterSameHost
<1> QED BY <1>1, <1>2

\* A static dial deletes pending entries; every other change is the reservation.
LEMMA ReserveKeeps ==
  ASSUME TypeOK, NEW c \in Conn, ReservePeer(c)
  PROVE  /\ peers' \in [Addr -> Conn \cup {"absent", "pending"}]
         /\ \A a \in Addr : peers[a] \in Conn \/ peers'[a] \in Conn => peers'[a] = peers[a]
         /\ \A a \in Addr : Fixed(a) /\ peers'[a] # peers[a] =>
               a = AddrOf[c] /\ peers'[a] = "pending" /\ peers[a] = "absent" /\ TakesPlace(c)
<1> USE ConnTypes
<1>1. CASE TakesPlace(c)
  <2>1. ~RefusedAtOnce(c) /\ ~RefusedForHost(c)
        /\ peers' = [AfterSameHost(c) EXCEPT ![AddrOf[c]] = "pending"]
    BY <1>1 DEF TakesPlace
  <2> QED BY <1>1, <2>1, AfterSameAddrIs, AfterSameHostIs, StaticNotFixed DEF TypeOK
<1>2. CASE RefusedAtOnce(c) /\ peers' = peers
  BY <1>2 DEF TypeOK
<1>3. CASE ~RefusedAtOnce(c) /\ RefusedForHost(c) /\ peers' = AfterSameAddr(c)
  BY <1>3, AfterSameAddrIs, StaticNotFixed DEF TypeOK
<1>4. CASE ~RefusedAtOnce(c) /\ ~RefusedForHost(c) /\ peers' = AfterSameHost(c)
  BY <1>4, AfterSameAddrIs, AfterSameHostIs, StaticNotFixed DEF TypeOK
<1> QED BY <1>1, <1>2, <1>3, <1>4 DEF ReservePeer, IsRefused

LEMMA ReserveState ==
  ASSUME NEW c \in Conn, ReservePeer(c)
  PROVE  /\ state' = [state EXCEPT ![c] = IF TakesPlace(c) THEN "handshake" ELSE "idle"]
         /\ UNCHANGED <<banScores, selfAddrs, faulted>>
<1>1. CASE TakesPlace(c)
  BY <1>1 DEF TakesPlace, ReservePeer
<1>2. CASE ~TakesPlace(c)
  BY <1>2 DEF IsRefused, ReservePeer
<1> QED BY <1>1, <1>2

\* What a reservation has checked.
LEMMA ReserveChecked ==
  ASSUME TypeOK, NEW c \in Conn, TakesPlace(c)
  PROVE  /\ ~Banned(HostOfConn(c))
         /\ peers'[AddrOf[c]] = "pending"
         /\ Fixed(AddrOf[c]) => peers[AddrOf[c]] = "absent"
         /\ HostOfConn(c) \notin StaticHosts \cup Loopback =>
               \A a \in Addr : HostOf[a] = HostOfConn(c) => peers[a] = "absent"
         /\ HostOfConn(c) \notin StaticHosts =>
               /\ ~(Cardinality(Active(peers)) >= MaxPeers)
               /\ ~(Cardinality(Pending(peers)) >= 2 * MaxPeers)
               /\ peers' = [peers EXCEPT ![AddrOf[c]] = "pending"]
<1> USE ConnTypes
<1>1. /\ ~RefusedAtOnce(c) /\ ~RefusedForHost(c) /\ ~RefusedForRoom(c)
      /\ peers' = [AfterSameHost(c) EXCEPT ![AddrOf[c]] = "pending"]
  BY DEF TakesPlace
<1>2. ~Banned(HostOfConn(c))
  BY <1>1 DEF RefusedAtOnce
<1>3. peers'[AddrOf[c]] = "pending"
  BY <1>1, AfterSameHostIs
<1>4. Fixed(AddrOf[c]) => peers[AddrOf[c]] = "absent"
  BY <1>1, AfterSameAddrIs, StaticNotFixed
<1>5. ASSUME HostOfConn(c) \notin StaticHosts
      PROVE  ~IsStatic(c) /\ AfterSameAddr(c) = peers /\ AfterSameHost(c) = peers
  <2>1. ~IsStatic(c)
    BY <1>5, StaticNotFixed
  <2>2. \A a \in Addr : AfterSameAddr(c)[a] = peers[a] /\ AfterSameHost(c)[a] = peers[a]
    BY <1>1, <2>1, AfterSameAddrIs, AfterSameHostIs
  <2> QED BY <1>1, <2>1, <2>2, AfterSameAddrIs, AfterSameHostIs DEF TypeOK
<1>6. ASSUME HostOfConn(c) \notin StaticHosts \cup Loopback,
             NEW a \in Addr, HostOf[a] = HostOfConn(c)
      PROVE  peers[a] = "absent"
  BY <1>1, <1>5, <1>6 DEF RefusedForHost, HasPeerForHost, StandsFor
<1>7. ASSUME HostOfConn(c) \notin StaticHosts
      PROVE  /\ ~(Cardinality(Active(peers)) >= MaxPeers)
             /\ ~(Cardinality(Pending(peers)) >= 2 * MaxPeers)
  BY <1>1, <1>5, <1>7 DEF RefusedForRoom, MaxPendingPeers
<1> QED BY <1>1, <1>2, <1>3, <1>4, <1>5, <1>6, <1>7

-----------------------------------------------------------------------------
(* The five ways in which a step moves goroutines and entries. *)

Closes(S) ==
  /\ peers' = peers
  /\ state' = [d \in Conn |-> IF d \in S THEN "closed" ELSE state[d]]
  /\ \A d \in S : Live(d)

Opens(c) ==
  /\ peers' = peers
  /\ state[c] \in {"idle", "dialling"}
  /\ \E s \in {"idle", "dialling"} : state' = [state EXCEPT ![c] = s]
  /\ state'[c] = "idle" \/ MayOpen(c)

Reserves(c) ==
  /\ ReservePeer(c)
  /\ state[c] \in {"idle", "dialling"}
  /\ MayOpen(c)

LEMMA OwnershipCloses ==
  ASSUME TypeOK, Ownership, NEW S \in SUBSET Conn, Closes(S)
  PROVE  Ownership'
<1> USE ConnTypes DEF Closes, TypeOK
<1>1. EntryLive'
  BY DEF Ownership, EntryLive
<1>2. NeverOpened'
  BY DEF Ownership, NeverOpened, MayOpen, Live
<1>3. FixedKept'
  BY DEF Ownership, FixedKept, Live, Fixed, StaticHosts, HostOfConn
<1>4. OnePerFixed'
  BY DEF Ownership, OnePerFixed, Live, Fixed, StaticHosts, HostOfConn
<1>5. SoleKept'
  BY DEF Ownership, SoleKept, Rivals, MayOpen
<1> QED BY <1>1, <1>2, <1>3, <1>4, <1>5 DEF Ownership

LEMMA OwnershipOpens ==
  ASSUME TypeOK, Ownership, NEW c \in Conn, Opens(c)
  PROVE  Ownership'
<1> USE ConnTypes DEF Opens, TypeOK
<1>1. EntryLive'
  BY DEF Ownership, EntryLive
<1>2. NeverOpened'
  BY DEF Ownership, NeverOpened, MayOpen
<1>3. FixedKept'
  BY DEF Ownership, FixedKept, Fixed, StaticHosts, HostOfConn
<1>4. OnePerFixed'
  BY DEF Ownership, OnePerFixed, Live, Fixed, StaticHosts, HostOfConn
<1>5. SoleKept'
  BY DEF Ownership, SoleKept, Rivals, MayOpen
<1> QED BY <1>1, <1>2, <1>3, <1>4, <1>5 DEF Ownership

\* A fixed address that is free has no connection that is live.
LEMMA OwnershipReserves ==
  ASSUME TypeOK, Ownership, NEW c \in Conn, Reserves(c)
  PROVE  Ownership'
<1> USE ConnTypes
<1> DEFINE s == IF TakesPlace(c) THEN "handshake" ELSE "idle"
<1>1. /\ ReservePeer(c) /\ state[c] \in {"idle", "dialling"}
      /\ MayOpen(c)
  BY DEF Reserves
<1>2. state' = [state EXCEPT ![c] = s] /\ s \in {"handshake", "idle"} /\ (s = "handshake" <=> TakesPlace(c))
  BY <1>1, ReserveState
<1> HIDE DEF s
<1>3. /\ \A a \in Addr : peers[a] \in Conn \/ peers'[a] \in Conn => peers'[a] = peers[a]
      /\ \A a \in Addr : Fixed(a) /\ peers'[a] # peers[a] =>
            a = AddrOf[c] /\ peers'[a] = "pending" /\ peers[a] = "absent" /\ TakesPlace(c)
  BY <1>1, ReserveKeeps
<1>4. TakesPlace(c) => peers'[AddrOf[c]] = "pending" /\ (Fixed(AddrOf[c]) => peers[AddrOf[c]] = "absent")
  BY ReserveChecked
<1>5. EntryLive'
  BY <1>1, <1>2, <1>3 DEF Ownership, EntryLive, TypeOK
<1>6. NeverOpened'
  BY <1>1, <1>2 DEF Ownership, NeverOpened, MayOpen, TypeOK
<1>7. FixedKept'
  <2> SUFFICES ASSUME NEW d \in Conn, Fixed(AddrOf[d])
               PROVE  /\ state'[d] = "handshake" => peers'[AddrOf[d]] = "pending"
                      /\ state'[d] = "active" => peers'[AddrOf[d]] = d
                      /\ state'[d] = "closed" => peers'[AddrOf[d]] \in {"pending", d}
    BY DEF FixedKept, Fixed, StaticHosts, HostOfConn
  <2>1. CASE d = c
    BY <1>2, <1>4, <2>1 DEF TypeOK
  <2>2. CASE d # c
    BY <1>2, <1>3, <2>2 DEF Ownership, FixedKept, TypeOK
  <2> QED BY <2>1, <2>2
<1>8. OnePerFixed'
  <2> SUFFICES ASSUME NEW d \in Conn, NEW e \in Conn, Fixed(AddrOf[d]), AddrOf[d] = AddrOf[e],
                      Live(d)', Live(e)', d # e
               PROVE  FALSE
    BY DEF OnePerFixed, Fixed, StaticHosts, HostOfConn
  <2>1. ASSUME NEW f \in Conn, AddrOf[f] = AddrOf[c], f # c, Fixed(AddrOf[c]), Live(f)'
        PROVE  s # "handshake"
    BY <1>2, <1>4, <2>1 DEF Ownership, FixedKept, Live, TypeOK
  <2>2. Live(c)' => s = "handshake"
    BY <1>2 DEF Live, TypeOK
  <2>3. CASE d = c \/ e = c
    BY <2>1, <2>2, <2>3
  <2>4. CASE d # c /\ e # c
    BY <1>2, <2>4 DEF Ownership, OnePerFixed, Live, TypeOK
  <2> QED BY <2>3, <2>4
<1>9. SoleKept'
  BY <1>2, <1>3 DEF Ownership, SoleKept, Rivals, MayOpen, TypeOK
<1> QED BY <1>5, <1>6, <1>7, <1>8, <1>9 DEF Ownership

LEMMA OwnershipUpdate ==
  ASSUME TypeOK, Ownership, NEW c \in Conn, UpdatePeer(c)
  PROVE  Ownership'
<1> USE ConnTypes DEF UpdatePeer, TypeOK
<1>1. EntryLive'
  BY DEF Ownership, EntryLive
<1>2. NeverOpened'
  BY DEF Ownership, NeverOpened, MayOpen
<1>3. FixedKept'
  BY DEF Ownership, FixedKept, OnePerFixed, Live, Fixed, StaticHosts, HostOfConn
<1>4. OnePerFixed'
  BY DEF Ownership, OnePerFixed, Live, Fixed, StaticHosts, HostOfConn
<1>5. SoleKept'
  <2> SUFFICES ASSUME NEW d \in Conn, d # c, state[d] = "active", Rivals(d) = {}
               PROVE  peers'[AddrOf[d]] = d
    BY DEF SoleKept, Rivals, MayOpen
  <2>1. AddrOf[d] # AddrOf[c]
    BY DEF Rivals, Ownership, NeverOpened
  <2> QED BY <2>1 DEF Ownership, SoleKept
<1> QED BY <1>1, <1>2, <1>3, <1>4, <1>5 DEF Ownership

LEMMA OwnershipRemove ==
  ASSUME TypeOK, Ownership, NEW c \in Conn, RemovePeer(c)
  PROVE  Ownership'
<1> USE ConnTypes DEF RemovePeer, TypeOK
<1>1. EntryLive'
  BY DEF Ownership, EntryLive
<1>2. NeverOpened'
  BY DEF Ownership, NeverOpened, MayOpen
<1>3. FixedKept'
  BY DEF Ownership, FixedKept, OnePerFixed, Live, Fixed, StaticHosts, HostOfConn
<1>4. OnePerFixed'
  BY DEF Ownership, OnePerFixed, Live, Fixed, StaticHosts, HostOfConn
<1>5. SoleKept'
  <2> SUFFICES ASSUME NEW d \in Conn, d # c, state[d] = "active", Rivals(d) = {}
               PROVE  peers'[AddrOf[d]] = d
    BY DEF SoleKept, Rivals, MayOpen
  <2>1. AddrOf[d] # AddrOf[c]
    BY DEF Rivals, Ownership, NeverOpened
  <2> QED BY <2>1 DEF Ownership, SoleKept
<1> QED BY <1>1, <1>2, <1>3, <1>4, <1>5 DEF Ownership

-----------------------------------------------------------------------------
(* Every step is one of these. *)

LEMMA AddBanScoreCloses ==
  ASSUME TypeOK, EntryLive, NEW c \in Conn, state[c] = "active", peers' = peers,
         NEW points \in {BanMalformed, BanInvalidChain}, AddBanScore(c, points)
  PROVE  /\ \E S \in SUBSET Conn : Closes(S) /\ c \in S
         /\ \A h \in Host : h # HostOfConn(c) => banScores'[h] = banScores[h]
         /\ banScores' \in [Host -> 0..BanThreshold]
<1> USE ConnTypes
<1> DEFINE h == HostOfConn(c)
           S == {c} \cup {d \in Conn : Banned(h)' /\ \E b \in Active(peers) : HostOf[b] = h /\ d = peers[b]}
<1>1. /\ banScores' = [banScores EXCEPT ![h] = Raised(@, points)]
      /\ state' = [d \in Conn |-> IF d \in S THEN "closed" ELSE state[d]]
  BY DEF AddBanScore
<1>2. \A d \in S : Live(d)
  BY DEF Live, EntryLive, Active
<1>3. banScores[h] \in 0..2 => Raised(banScores[h], points) \in 0..2
  BY DEF Raised, BanThreshold, BanMalformed, BanInvalidChain
<1>4. banScores[h] \in 0..2 /\ h \in Host
  BY DEF TypeOK, HostOfConn, BanThreshold
<1>5. banScores' \in [Host -> 0..2]
  BY <1>1, <1>3, <1>4 DEF TypeOK, BanThreshold
<1>6. S \in SUBSET Conn /\ Closes(S) /\ c \in S
  BY <1>1, <1>2 DEF Closes
<1>7. \A g \in Host : g # h => banScores'[g] = banScores[g]
  BY <1>1 DEF TypeOK
<1> QED BY <1>5, <1>6, <1>7 DEF BanThreshold

\* What the steps that charge a host share.
Charges(c) ==
  /\ state[c] = "active" /\ peers' = peers /\ selfAddrs' = selfAddrs
  /\ \E points \in {BanMalformed, BanInvalidChain} : AddBanScore(c, points)
  /\ \/ ~CanWrite(c) /\ faulted' = faulted
     \/ faulted' = faulted \cup {HostOfConn(c)}

LEMMA StepCases ==
  ASSUME TypeOK, NeverOpened, Next
  PROVE  \E c \in Conn :
           \/ Reserves(c)
           \/ Opens(c) /\ UNCHANGED <<banScores, selfAddrs, faulted>>
           \/ Closes({c}) /\ UNCHANGED <<banScores, faulted>> /\ selfAddrs' \subseteq Addr
           \/ Charges(c)
           \/ UpdatePeer(c)
           \/ RemovePeer(c)
<1> USE ConnTypes DEF TypeOK
<1>1. PICK c \in Conn :
        \/ Accept(c) \/ ConnectLoop(c) \/ DiscoveryStep(c) \/ DialSucceeds(c) \/ DialFails(c)
        \/ HandshakeFails(c) \/ UpdatePeer(c)
        \/ Misbehave(c, BanInvalidChain) \/ Reset(c) \/ AnswerFails(c) \/ Drop(c)
        \/ RemovePeer(c)
  BY DEF Next
<1>2. CASE Accept(c)
  BY <1>2 DEF Accept, Reserves, MayOpen
<1>3. CASE ConnectLoop(c)
  BY <1>3 DEF ConnectLoop, Opens, MayOpen
<1>4. CASE DiscoveryStep(c)
  BY <1>4 DEF DiscoveryStep, Opens, MayOpen
<1>5. CASE DialSucceeds(c)
  BY <1>5 DEF DialSucceeds, Reserves, NeverOpened
<1>6. CASE DialFails(c)
  BY <1>6 DEF DialFails, Opens
<1>7. CASE HandshakeFails(c)
  BY <1>7, PeersAssumption DEF HandshakeFails, Closes, RememberSelfAddr, Live
<1>8. CASE Misbehave(c, BanInvalidChain)
  BY <1>8 DEF Misbehave, Charges
<1>9. CASE Reset(c)
  BY <1>9 DEF Reset, Misbehave, Charges
<1>10. CASE AnswerFails(c)
  BY <1>10 DEF AnswerFails, Charges
<1>11. CASE Drop(c)
  BY <1>11 DEF Drop, Closes, Live
<1> QED BY <1>1, <1>2, <1>3, <1>4, <1>5, <1>6, <1>7, <1>8, <1>9, <1>10, <1>11

-----------------------------------------------------------------------------
(* The table's size. *)

LEMMA MaxPeersNat == MaxPeers \in Nat
BY PeersAssumption

LEMMA NoMoreEntries ==
  ASSUME Bounded, Entries(peers') \subseteq Entries(peers)
  PROVE  Bounded'
<1> DEFINE P == {a \in Entries(peers) : HostOf[a] \notin StaticHosts}
           Q == {a \in Entries(peers') : HostOf[a] \notin StaticHosts}
<1>1. IsFiniteSet(Entries(peers)) /\ Cardinality(P) <= 3 * MaxPeers - 1
  BY DEF Bounded, TableBounded
<1>2. IsFiniteSet(Entries(peers')) /\ IsFiniteSet(P) /\ IsFiniteSet(Q) /\ Q \subseteq P
  BY <1>1, FS_Subset
<1>3. Cardinality(Q) <= Cardinality(P) /\ Cardinality(P) \in Nat /\ Cardinality(Q) \in Nat
  BY <1>2, FS_Subset, FS_CardinalityType
<1>4. Cardinality(Q) <= 3 * MaxPeers - 1
  <2> HIDE DEF P, Q
  <2> QED BY <1>1, <1>3, MaxPeersNat
<1> QED BY <1>2, <1>4 DEF Bounded, TableBounded, StaticHosts, HostOfConn, Entries

\* An entry of a static host is not counted.
LEMMA StaticEntry ==
  ASSUME Bounded, NEW b \in Addr, HostOf[b] \in StaticHosts,
         Entries(peers') \subseteq Entries(peers) \cup {b}
  PROVE  Bounded'
<1> DEFINE P == {a \in Entries(peers) : HostOf[a] \notin StaticHosts}
           Q == {a \in Entries(peers') : HostOf[a] \notin StaticHosts}
<1>1. IsFiniteSet(Entries(peers)) /\ Cardinality(P) <= 3 * MaxPeers - 1
  BY DEF Bounded, TableBounded
<1>2. IsFiniteSet(Entries(peers) \cup {b})
  BY <1>1, FS_AddElement
<1>3. IsFiniteSet(Entries(peers')) /\ IsFiniteSet(P) /\ IsFiniteSet(Q) /\ Q \subseteq P
  BY <1>1, <1>2, FS_Subset
<1>4. Cardinality(Q) <= Cardinality(P) /\ Cardinality(P) \in Nat /\ Cardinality(Q) \in Nat
  BY <1>3, FS_Subset, FS_CardinalityType
<1>5. Cardinality(Q) <= 3 * MaxPeers - 1
  <2> HIDE DEF P, Q
  <2> QED BY <1>1, <1>4, MaxPeersNat
<1> QED BY <1>3, <1>5 DEF Bounded, TableBounded, StaticHosts, HostOfConn, Entries

\* The reservation that takes the last place finds MaxPeers - 1 entries filled in and
\* 2 * MaxPeers - 1 pending ones.
LEMMA LastPlace ==
  ASSUME TypeOK, Bounded, NEW b \in Addr,
         ~(Cardinality(Active(peers)) >= MaxPeers),
         ~(Cardinality(Pending(peers)) >= 2 * MaxPeers),
         peers' = [peers EXCEPT ![b] = "pending"]
  PROVE  Bounded'
<1> DEFINE A == Active(peers) W == Pending(peers)
           Q == {a \in Entries(peers') : HostOf[a] \notin StaticHosts}
<1>1. Entries(peers) = A \cup W /\ A \cap W = {}
  BY PeersAssumption DEF TypeOK, Entries, Active, Pending
<1>2. IsFiniteSet(A) /\ IsFiniteSet(W) /\ IsFiniteSet(Entries(peers))
  BY <1>1, FS_Subset DEF Bounded
<1>3. Cardinality(A) \in Nat /\ Cardinality(W) \in Nat /\ Cardinality({}) = 0
  BY <1>2, FS_CardinalityType, FS_EmptySet
<1>4. Cardinality(Entries(peers)) = Cardinality(A) + Cardinality(W)
  <2>1. Cardinality(A \cup W) = Cardinality(A) + Cardinality(W) - Cardinality(A \cap W)
    BY <1>2, FS_Union
  <2>2. Cardinality(Entries(peers)) = Cardinality(A) + Cardinality(W) - Cardinality({})
    BY <1>1, <2>1
  <2> HIDE DEF A, W
  <2> QED BY <1>3, <2>2
<1>5. /\ IsFiniteSet(Entries(peers) \cup {b})
      /\ \/ Cardinality(Entries(peers) \cup {b}) = Cardinality(Entries(peers))
         \/ Cardinality(Entries(peers) \cup {b}) = Cardinality(Entries(peers)) + 1
  BY <1>2, FS_AddElement
<1>6. Entries(peers') \subseteq Entries(peers) \cup {b}
  BY DEF Entries, TypeOK
<1>7. IsFiniteSet(Entries(peers')) /\ IsFiniteSet(Q) /\ Q \subseteq Entries(peers) \cup {b}
  BY <1>5, <1>6, FS_Subset
<1>8. Cardinality(Q) <= Cardinality(Entries(peers) \cup {b}) /\ Cardinality(Q) \in Nat
  BY <1>5, <1>7, FS_Subset, FS_CardinalityType
<1>9. Cardinality(Q) <= 3 * MaxPeers - 1
  <2> HIDE DEF A, W, Q
  <2>1. ~(Cardinality(A) >= MaxPeers) /\ ~(Cardinality(W) >= 2 * MaxPeers)
    BY DEF A, W
  <2>2. Cardinality(A) <= MaxPeers - 1 /\ Cardinality(W) <= 2 * MaxPeers - 1
    BY <1>3, <2>1, MaxPeersNat
  <2>3. Cardinality(Entries(peers)) \in Nat /\ Cardinality(Entries(peers)) <= 3 * MaxPeers - 2
    BY <1>3, <1>4, <2>2, MaxPeersNat
  <2> QED BY <1>5, <1>8, <2>3, MaxPeersNat
<1> QED BY <1>7, <1>9 DEF Bounded, TableBounded, StaticHosts, HostOfConn, Entries

LEMMA BoundedReserves ==
  ASSUME TypeOK, Bounded, NEW c \in Conn, ReservePeer(c)
  PROVE  Bounded'
<1> USE ConnTypes
<1>1. CASE TakesPlace(c) /\ HostOfConn(c) \notin StaticHosts
  BY <1>1, ReserveChecked, LastPlace
<1>2. CASE ~(TakesPlace(c) /\ HostOfConn(c) \notin StaticHosts)
  <2>1. \A a \in Addr : a # AddrOf[c] /\ peers[a] = "absent" => peers'[a] = "absent"
    BY AfterSameAddrIs, AfterSameHostIs DEF ReservePeer, TakesPlace, IsRefused
  <2>2. ~TakesPlace(c) /\ peers[AddrOf[c]] = "absent" => peers'[AddrOf[c]] = "absent"
    BY AfterSameAddrIs, AfterSameHostIs DEF ReservePeer, IsRefused
  <2>3. CASE TakesPlace(c)
    <3>1. HostOf[AddrOf[c]] \in StaticHosts
      BY <1>2, <2>3 DEF HostOfConn
    <3>2. Entries(peers') \subseteq Entries(peers) \cup {AddrOf[c]}
      BY <2>1 DEF Entries
    <3> QED BY <3>1, <3>2, StaticEntry
  <2>4. CASE ~TakesPlace(c)
    BY <2>1, <2>2, <2>4, NoMoreEntries DEF Entries
  <2> QED BY <2>3, <2>4
<1> QED BY <1>1, <1>2

LEMMA BoundedUpdate ==
  ASSUME TypeOK, Ownership, Bounded, NEW c \in Conn, UpdatePeer(c)
  PROVE  Bounded'
<1> USE ConnTypes DEF UpdatePeer
<1>1. CASE HostOfConn(c) \in StaticHosts
  <2>1. Entries(peers') \subseteq Entries(peers) \cup {AddrOf[c]}
    BY DEF Entries, TypeOK
  <2> QED BY <1>1, <2>1, StaticEntry DEF HostOfConn
<1>2. CASE HostOfConn(c) \notin StaticHosts
  <2>1. peers[AddrOf[c]] = "pending"
    BY <1>2, PlainIsFixed DEF Ownership, FixedKept
  <2>2. Entries(peers') \subseteq Entries(peers)
    BY <2>1 DEF Entries, TypeOK
  <2> QED BY <2>2, NoMoreEntries
<1> QED BY <1>1, <1>2

-----------------------------------------------------------------------------
(* The invariant. *)

LEMMA PInvInit == Init => PInv
<1> SUFFICES ASSUME Init PROVE PInv
  OBVIOUS
<1>1. TypeOK
  <2>1. banScores \in [Host -> 0..BanThreshold]
    BY DEF Init, BanThreshold
  <2>2. \A a \in Addr : peers[a] = "absent" /\ peers[a] \notin Conn
    BY PeersAssumption DEF Init
  <2>3. /\ state \in [Conn -> {"idle", "dialling", "handshake", "active", "closed"}]
        /\ peers \in [Addr -> Conn \cup {"absent", "pending"}]
        /\ selfAddrs \subseteq Addr /\ faulted \subseteq Host
    BY DEF Init
  <2> QED BY <2>1, <2>2, <2>3 DEF TypeOK
<1>2. Ownership
  BY ConnTypes DEF Init, Ownership, EntryLive, NeverOpened, FixedKept, OnePerFixed, SoleKept, Live
<1>3. OnePerHost /\ BanCloses
  BY DEF Init, OnePerHost, BanCloses, Live
<1>4. HonestNotBanned
  BY DEF Init, HonestNotBanned
<1>5. Entries(peers) = {} /\ {a \in Entries(peers) : HostOf[a] \notin StaticHosts} = {}
  BY DEF Init, Entries
<1>6. IsFiniteSet({}) /\ Cardinality({}) = 0 /\ 0 <= 3 * MaxPeers - 1
  <2>1. MaxPeers \in Nat /\ MaxPeers # 0
    BY PeersAssumption
  <2>2. 0 <= 3 * MaxPeers - 1
    BY <2>1
  <2> QED BY <2>2, FS_EmptySet
<1>7. Bounded
  BY <1>5, <1>6 DEF Bounded, TableBounded
<1> QED BY <1>1, <1>2, <1>3, <1>4, <1>7 DEF PInv

LEMMA OwnEntryHolds ==
  ASSUME PInv
  PROVE  OwnEntry
BY DEF PInv, Ownership, OwnEntry, Replaceable, NeverOpened, FixedKept, SoleKept

\* The host's connections other than c are not live, so the ban need not find them.
LEMMA PInvCharges ==
  ASSUME PInv, NEW c \in Conn, Charges(c)
  PROVE  PInv'
<1> USE ConnTypes
<1>1. TypeOK /\ Ownership /\ EntryLive /\ state[c] = "active" /\ peers' = peers
  BY DEF PInv, Ownership, Charges
<1>2. /\ \E S \in SUBSET Conn : Closes(S) /\ c \in S
      /\ \A h \in Host : h # HostOfConn(c) => banScores'[h] = banScores[h]
      /\ banScores' \in [Host -> 0..BanThreshold]
  BY <1>1, AddBanScoreCloses DEF Charges
<1>3. PICK S \in SUBSET Conn : Closes(S) /\ c \in S
  BY <1>2
<1>4. TypeOK'
  BY <1>1, <1>2, <1>3 DEF TypeOK, Closes, Charges, HostOfConn
<1>5. Ownership'
  BY <1>1, <1>3, OwnershipCloses
<1>6. \A d \in Conn : (Live(d)' <=> Live(d)) /\ (state'[d] \in {"handshake", "active"} => state'[d] = state[d] /\ d # c)
  BY <1>1, <1>3 DEF Closes, Live, TypeOK
<1>7. OnePerHost'
  BY <1>6 DEF PInv, OnePerHost, HostOfConn, StaticHosts
<1>8. BanCloses'
  <2> SUFFICES ASSUME NEW d \in Conn, Banned(HostOfConn(d))', HostOfConn(d) \notin StaticHosts \cup Loopback,
                      state'[d] \in {"handshake", "active"}
               PROVE  FALSE
    BY DEF BanCloses, HostOfConn, StaticHosts
  <2>1. d # c /\ state[d] \in {"handshake", "active"} /\ Live(d) /\ Live(c)
    BY <1>1, <1>6 DEF Live
  <2>2. CASE HostOfConn(d) = HostOfConn(c)
    BY <2>1, <2>2 DEF PInv, OnePerHost
  <2>3. CASE HostOfConn(d) # HostOfConn(c)
    <3>1. Banned(HostOfConn(d))
      BY <1>2, <2>3 DEF Banned, HostOfConn
    <3> QED BY <2>1, <3>1 DEF PInv, BanCloses
  <2> QED BY <2>2, <2>3
<1>9. HonestNotBanned'
  <2> SUFFICES ASSUME NEW h \in Host, banScores'[h] > 0, h \notin faulted'
               PROVE  \E d \in Conn : HostOfConn(d) = h /\ Replaceable(d)
    BY DEF HonestNotBanned, HostOfConn, Replaceable, MayOpen, Rivals, Fixed, StaticHosts
  <2>1. h \notin faulted
    BY DEF Charges
  <2>2. CASE h # HostOfConn(c)
    BY <1>2, <2>1, <2>2 DEF PInv, HonestNotBanned
  <2>3. CASE h = HostOfConn(c)
    <3>1. ~CanWrite(c)
      BY <2>3 DEF Charges
    <3>2. peers[AddrOf[c]] # c
      BY <1>1, <3>1 DEF CanWrite
    <3>3. Replaceable(c)
      BY <1>1, <3>2, OwnEntryHolds DEF OwnEntry
    <3> QED BY <2>3, <3>3
  <2> QED BY <2>2, <2>3
<1>10. Bounded'
  BY <1>1, NoMoreEntries DEF PInv
<1> QED BY <1>4, <1>5, <1>7, <1>8, <1>9, <1>10 DEF PInv

\* A reservation of a host that is neither static nor a loopback one finds no entry of
\* it, hence no live connection.
LEMMA PInvReserves ==
  ASSUME PInv, NEW c \in Conn, Reserves(c)
  PROVE  PInv'
<1> USE ConnTypes
<1> DEFINE s == IF TakesPlace(c) THEN "handshake" ELSE "idle"
<1>1. TypeOK /\ Ownership /\ ReservePeer(c) /\ state[c] \in {"idle", "dialling"}
  BY DEF PInv, Reserves
<1>2. /\ state' = [state EXCEPT ![c] = s] /\ s \in {"handshake", "idle"}
      /\ s = "handshake" <=> TakesPlace(c)
      /\ UNCHANGED <<banScores, selfAddrs, faulted>>
  BY <1>1, ReserveState
<1> HIDE DEF s
<1>3. TypeOK'
  BY <1>1, <1>2, ReserveKeeps DEF TypeOK
<1>4. Ownership'
  BY <1>1, OwnershipReserves
<1>5. ASSUME TakesPlace(c), HostOfConn(c) \notin StaticHosts \cup Loopback,
             NEW d \in Conn, HostOfConn(d) = HostOfConn(c)
      PROVE  ~Live(d)
  <2>1. peers[AddrOf[d]] = "absent"
    BY <1>1, <1>5, ReserveChecked DEF HostOfConn
  <2> QED BY <1>1, <1>5, <2>1, PlainIsFixed DEF Ownership, FixedKept, Live
<1>6. \A d \in Conn : Live(d)' => Live(d) \/ (d = c /\ TakesPlace(c))
  BY <1>1, <1>2 DEF Live, TypeOK
<1>7. OnePerHost'
  <2> SUFFICES ASSUME NEW d \in Conn, NEW e \in Conn, d # e, Live(d)', Live(e)',
                      HostOfConn(d) = HostOfConn(e), HostOfConn(d) \notin StaticHosts \cup Loopback
               PROVE  FALSE
    BY DEF OnePerHost, HostOfConn, StaticHosts
  <2> QED BY <1>5, <1>6 DEF PInv, OnePerHost
<1>8. BanCloses'
  <2> SUFFICES ASSUME NEW d \in Conn, Banned(HostOfConn(d)), HostOfConn(d) \notin StaticHosts \cup Loopback,
                      state'[d] \in {"handshake", "active"}
               PROVE  FALSE
    BY <1>2 DEF BanCloses, HostOfConn, StaticHosts, Banned
  <2>1. CASE d = c
    BY <1>1, <1>2, <2>1, ReserveChecked DEF TypeOK
  <2>2. CASE d # c
    BY <1>1, <1>2, <2>2 DEF PInv, BanCloses, TypeOK
  <2> QED BY <2>1, <2>2
<1>9. HonestNotBanned'
  BY <1>2 DEF PInv, HonestNotBanned, HostOfConn, Replaceable, MayOpen, Rivals, Fixed, StaticHosts
<1>10. Bounded'
  BY <1>1, BoundedReserves DEF PInv
<1> QED BY <1>3, <1>4, <1>7, <1>8, <1>9, <1>10 DEF PInv

\* The other steps make no connection live that was not, and charge nobody.
LEMMA PInvOther ==
  ASSUME PInv, NEW c \in Conn, TypeOK', Ownership', Bounded',
         UNCHANGED <<banScores, faulted>>,
         \A d \in Conn : Live(d)' => Live(d),
         \A d \in Conn : state'[d] \in {"handshake", "active"} => state[d] \in {"handshake", "active"}
  PROVE  PInv'
<1>1. OnePerHost'
  BY DEF PInv, OnePerHost, HostOfConn, StaticHosts
<1>2. BanCloses'
  BY DEF PInv, BanCloses, HostOfConn, StaticHosts, Banned
<1>3. HonestNotBanned'
  BY DEF PInv, HonestNotBanned, HostOfConn, Replaceable, MayOpen, Rivals, Fixed, StaticHosts
<1> QED BY <1>1, <1>2, <1>3 DEF PInv

LEMMA PInvStep == PInv /\ [Next]_vars => PInv'
<1> SUFFICES ASSUME PInv, [Next]_vars PROVE PInv'
  OBVIOUS
<1> USE ConnTypes
<1>0. TypeOK /\ Ownership /\ NeverOpened /\ Bounded
  BY DEF PInv, Ownership
<1>1. CASE UNCHANGED vars
  BY <1>1 DEF vars, PInv, TypeOK, Ownership, EntryLive, NeverOpened, FixedKept, OnePerFixed,
              SoleKept, OnePerHost, BanCloses, HonestNotBanned, Bounded, TableBounded, Live,
              Banned, Replaceable, MayOpen, Rivals, Fixed, StaticHosts, HostOfConn, Entries
<1>2. CASE Next
  <2>1. PICK c \in Conn :
           \/ Reserves(c)
           \/ Opens(c) /\ UNCHANGED <<banScores, selfAddrs, faulted>>
           \/ Closes({c}) /\ UNCHANGED <<banScores, faulted>> /\ selfAddrs' \subseteq Addr
           \/ Charges(c)
           \/ UpdatePeer(c)
           \/ RemovePeer(c)
    BY <1>0, <1>2, StepCases
  <2>2. CASE Reserves(c)
    BY <2>2, PInvReserves
  <2>3. CASE Opens(c) /\ UNCHANGED <<banScores, selfAddrs, faulted>>
    <3>1. TypeOK'
      BY <1>0, <2>3 DEF TypeOK, Opens
    <3>2. Ownership' /\ Bounded'
      BY <1>0, <2>3, OwnershipOpens, NoMoreEntries DEF Opens
    <3>3. \A d \in Conn : (Live(d)' => Live(d))
             /\ (state'[d] \in {"handshake", "active"} => state[d] \in {"handshake", "active"})
      BY <1>0, <2>3 DEF Live, Opens, TypeOK
    <3> QED BY <2>3, <3>1, <3>2, <3>3, PInvOther
  <2>4. CASE Closes({c}) /\ UNCHANGED <<banScores, faulted>> /\ selfAddrs' \subseteq Addr
    <3>1. TypeOK'
      BY <1>0, <2>4 DEF TypeOK, Closes
    <3>2. Ownership' /\ Bounded'
      <4>1. {c} \in SUBSET Conn /\ Entries(peers') \subseteq Entries(peers)
        BY <2>4 DEF Closes
      <4> QED BY <1>0, <2>4, <4>1, OwnershipCloses, NoMoreEntries
    <3>3. \A d \in Conn : (Live(d)' => Live(d))
             /\ (state'[d] \in {"handshake", "active"} => state[d] \in {"handshake", "active"})
      BY <1>0, <2>4 DEF Live, Closes, TypeOK
    <3> QED BY <2>4, <3>1, <3>2, <3>3, PInvOther
  <2>5. CASE Charges(c)
    BY <2>5, PInvCharges
  <2>6. CASE UpdatePeer(c)
    <3>1. TypeOK'
      BY <1>0, <2>6 DEF TypeOK, UpdatePeer
    <3>2. Ownership' /\ Bounded'
      BY <1>0, <2>6, OwnershipUpdate, BoundedUpdate
    <3>3. \A d \in Conn : (Live(d)' => Live(d))
             /\ (state'[d] \in {"handshake", "active"} => state[d] \in {"handshake", "active"})
      BY <1>0, <2>6 DEF Live, UpdatePeer, TypeOK
    <3>4. UNCHANGED <<banScores, faulted>>
      BY <2>6 DEF UpdatePeer
    <3> QED BY <3>1, <3>2, <3>3, <3>4, PInvOther
  <2>7. CASE RemovePeer(c)
    <3>1. TypeOK'
      BY <1>0, <2>7 DEF TypeOK, RemovePeer
    <3>2. Entries(peers') \subseteq Entries(peers)
      BY <1>0, <2>7 DEF Entries, RemovePeer, TypeOK
    <3>3. Ownership' /\ Bounded'
      BY <1>0, <2>7, <3>2, OwnershipRemove, NoMoreEntries
    <3>4. \A d \in Conn : (Live(d)' => Live(d))
             /\ (state'[d] \in {"handshake", "active"} => state[d] \in {"handshake", "active"})
      BY <1>0, <2>7 DEF Live, RemovePeer, TypeOK
    <3>5. UNCHANGED <<banScores, faulted>>
      BY <2>7 DEF RemovePeer
    <3> QED BY <3>1, <3>3, <3>4, <3>5, PInvOther
  <2> QED BY <2>1, <2>2, <2>3, <2>4, <2>5, <2>6, <2>7
<1> QED BY <1>1, <1>2

(***************************************************************************)
(* What the other theorems rest on: the goroutine that reserved an entry   *)
(* finds it until it removes it, static hosts aside.                       *)
(***************************************************************************)
THEOREM TableInvariant == Spec => []PInv
BY PInvInit, PInvStep, PTL DEF Spec

(***************************************************************************)
(* writePeerMessage finds the connection that asked: of any number of      *)
(* hosts and connections, one that serves messages owns its entry unless a *)
(* static dial and another connection of its address can replace it.       *)
(***************************************************************************)
THEOREM AnswersReachAsker == Spec => []OwnEntry
BY TableInvariant, OwnEntryHolds, PTL

(***************************************************************************)
(* reservePeer's two limits, checked one after the other under n.mu, bound *)
(* the table for every MaxPeers, although updatePeer checks nothing.       *)
(***************************************************************************)
THEOREM TableStaysBounded == Spec => []TableBounded
<1>1. PInv => TableBounded
  BY DEF PInv, Bounded
<1> QED BY <1>1, TableInvariant, PTL

(***************************************************************************)
(* hasPeerForHostLocked sees pending entries, so however dials and         *)
(* arrivals race, a host that is neither static nor a loopback one never   *)
(* has two connections.                                                    *)
(***************************************************************************)
THEOREM OneConnectionPerHost == Spec => []OnePerHost
<1>1. PInv => OnePerHost
  BY DEF PInv
<1> QED BY <1>1, TableInvariant, PTL

(***************************************************************************)
(* addBanScore closes what the table holds; that is all the host has.      *)
(***************************************************************************)
THEOREM BanReachesAll == Spec => []BanCloses
<1>1. PInv => BanCloses
  BY DEF PInv
<1> QED BY <1>1, TableInvariant, PTL

(***************************************************************************)
(* A handler that cannot answer has its peer charged for it; a host none   *)
(* of whose connections is replaceable is never charged for that.          *)
(***************************************************************************)
THEOREM HonestHostsNotBanned == Spec => []HonestNotBanned
<1>1. PInv => HonestNotBanned
  BY DEF PInv
<1> QED BY <1>1, TableInvariant, PTL

=============================================================================
