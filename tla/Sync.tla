------------------------------- MODULE Sync -------------------------------
(***************************************************************************)
(* Two pacd nodes that follow the rules and one connection between them:   *)
(* the version handshake, header-first synchronisation, inventory relay    *)
(* and the periodic syncStep, over FIFO channels.                          *)
(*                                                                         *)
(* Blocks are valid and the clock plays no part: what a node does with a   *)
(* block depends on its place in the tree (ChainNode has the rest).  A     *)
(* node learns the other's height once, from the version message.  The     *)
(* orphan pool does not reach its limit, so that nothing is evicted.  Each *)
(* end reads its own height when it begins the handshake and relays blocks *)
(* only when it has ended it, so a block mined in between is announced by  *)
(* neither.  Penalty points are counted in fifties.                        *)
(***************************************************************************)
EXTENDS BlockTree, SequencesExt

CONSTANTS
    Dialler, Listener,  \* two nodes; the first has a connectLoop for the other
    MinerOf,            \* which node may mine a block
    MaxGap,             \* defaultMaxOrphanHeightGap
    MaxHeaders,         \* MaxHeadersPerMessage and MaxBlocksPerRequest
    MaxInFlight,        \* bound on the messages on their way when syncStep adds one
    MaxLate             \* bound on the deadlines that pass while messages are on their way

VARIABLES
    chain, side, orphans,
    phase,              \* each end of the connection
    ownHeight,          \* in the handshake: the height read at its start
    announced,          \* peers[...].info.BestHeight
    channel,            \* messages on their way to a node
    score,              \* what a node holds against the other
    forked, farBehind,  \* history: the chains diverged; one was more than MaxGap ahead
    late                \* history: deadlines that passed while messages were on their way

nodes == <<chain, side, orphans>>
vars == <<chain, side, orphans, phase, ownHeight, announced, channel, score,
          forked, farBehind, late>>

BanThreshold == 2
BanMalformed == 2
BanInvalidChain == 1

Node == {Dialler, Listener}
Other(n) == IF n = Dialler THEN Listener ELSE Dialler

ASSUME SyncAssumption ==
    /\ Dialler # Listener
    /\ \A b \in Block : Height[b] = Height[Prev[b]] + 1
    /\ MinerOf \in [Block -> Node]
    /\ MaxGap \in Nat /\ MaxHeaders \in Nat \ {0} /\ MaxInFlight \in Nat \ {0}
    /\ MaxLate \in Nat

-----------------------------------------------------------------------------
(* Messages.  The lists are as long as both ends accept. *)

Version(height) == [type |-> "version", height |-> height]
VerAck == [type |-> "verack"]
GetHeaders(start) == [type |-> "getheaders", start |-> start]
Headers(hs) == [type |-> "headers", headers |-> hs]
GetBlocks(bs) == [type |-> "getblocks", hashes |-> bs]
Inv(b) == [type |-> "inv", hash |-> b]
GetData(b) == [type |-> "getdata", hash |-> b]
BlockMsg(b) == [type |-> "block", block |-> b]

Heights == {Height[b] : b \in AnyBlock}
BlockLists == {bs \in Seq(Block) : Len(bs) <= MaxHeaders}

Message ==
         [type : {"version"}, height : Heights] \cup [type : {"verack"}]
    \cup [type : {"getheaders"}, start : Heights] \cup [type : {"headers"}, headers : BlockLists]
    \cup [type : {"getblocks"}, hashes : BlockLists]
    \cup [type : {"inv", "getdata"}, hash : Block] \cup [type : {"block"}, block : Block]

(***************************************************************************)
(* The types of the state; every message in a channel is one its receiver  *)
(* decodes, its list limits included.                                      *)
(***************************************************************************)
TypeOK ==
    /\ chain \in [Node -> Seq(Block)] /\ channel \in [Node -> Seq(Message)]
    /\ side \in [Node -> SUBSET Block] /\ orphans \in [Node -> SUBSET Block]
    /\ phase \in [Node -> {"closed", "reset", "version", "verack", "active"}]
    /\ ownHeight \in [Node -> Heights] /\ announced \in [Node -> Heights]
    /\ score \in [Node -> 0..BanThreshold]
    /\ forked \in BOOLEAN /\ farBehind \in BOOLEAN /\ late \in 0..MaxLate

Init ==
    /\ chain = [n \in Node |-> <<>>]
    /\ side = [n \in Node |-> {}] /\ orphans = [n \in Node |-> {}]
    /\ phase = [n \in Node |-> "closed"]
    /\ ownHeight = [n \in Node |-> 0] /\ announced = [n \in Node |-> 0]
    /\ channel = [n \in Node |-> <<>>]
    /\ score = [n \in Node |-> 0]
    /\ forked = FALSE /\ farBehind = FALSE /\ late = 0

\* Every block of c lies on the one before it.
Linked(c) == \A i \in 1..Len(c) : Prev[c[i]] = Before(c, i)

\* The chain that ends in b.
PathTo == [b \in AnyBlock |-> CHOOSE c \in [1..Height[b] -> Block] : Linked(c) /\ TipOf(c) = b]

\* What the two chains of the next state have to do with each other.
Compare ==
    LET a == chain'[Dialler] b == chain'[Listener] IN
    /\ forked' = (forked \/ ~(IsPrefix(a, b) \/ IsPrefix(b, a)))
    /\ farBehind' = (farBehind \/ Len(a) > Len(b) + MaxGap \/ Len(b) > Len(a) + MaxGap)

-----------------------------------------------------------------------------
(* Sending.  The other end may have hung up: what is written is then lost, *)
(* or the write fails and the handler's error is charged.                  *)

Closed(n) == phase[n] \in {"closed", "reset"}

Received(n) == [channel EXCEPT ![n] = Tail(@)]

Charge(n, points) ==
    score' = [score EXCEPT ![n] = IF @ + points > BanThreshold THEN BanThreshold ELSE @ + points]

\* readLoop returns.  The other end reads what is on its way and then the end, or a
\* reset if the system has to throw unread messages away.
HangUp(n, points) ==
    /\ Charge(n, points)
    /\ phase' = [phase EXCEPT ![n] = IF Len(channel[n]) > 1 THEN "reset" ELSE "closed"]
    /\ channel' = [channel EXCEPT ![n] = <<>>]
    /\ UNCHANGED <<ownHeight, announced>>

Answer(n, msgs, points) ==
    \/ /\ ~Closed(Other(n))
       /\ channel' = [Received(n) EXCEPT ![Other(n)] = @ \o msgs]
       /\ UNCHANGED <<phase, ownHeight, announced, score>>
    \/ /\ Closed(Other(n)) /\ msgs # <<>>
       /\ HangUp(n, points)
    \/ /\ Closed(Other(n))
       /\ channel' = Received(n)
       /\ UNCHANGED <<phase, ownHeight, announced, score>>

-----------------------------------------------------------------------------
(* The handshake. *)

\* Both ends begin when the connection is made, unless one bans the other's host.
\* Either end's deadline has long expired on what is left of an earlier connection.
Connect ==
    /\ \A n \in Node : Closed(n) /\ score[n] < BanThreshold
    /\ phase' = [n \in Node |-> "version"]
    /\ ownHeight' = [n \in Node |-> Len(chain[n])]
    /\ channel' = [n \in Node |-> IF n = Dialler THEN <<>> ELSE <<Version(Len(chain[Dialler]))>>]
    /\ UNCHANGED <<nodes, announced, score, forked, farBehind, late>>

\* Mutant: the height of the first connection stays.
KeepAnnounced(n) ==
    /\ phase[n] = "version" /\ channel[n] # <<>>
    /\ announced' = [announced EXCEPT ![n] = IF @ = 0 THEN Head(channel[n]).height ELSE @]
    /\ channel' = [Received(n) EXCEPT ![Other(n)] =
                     Append(@, IF n = Dialler THEN VerAck ELSE Version(ownHeight[n]))]
    /\ phase' = [phase EXCEPT ![n] = "verack"]
    /\ UNCHANGED <<nodes, ownHeight, score, forked, farBehind, late>>

\* The dialler has sent its version and acknowledges the other's; the listener
\* answers a version with its own.
ReadVersion(n) ==
    /\ phase[n] = "version" /\ channel[n] # <<>>
    /\ announced' = [announced EXCEPT ![n] = Head(channel[n]).height]
    /\ channel' = [Received(n) EXCEPT ![Other(n)] =
                     Append(@, IF n = Dialler THEN VerAck ELSE Version(ownHeight[n]))]
    /\ phase' = [phase EXCEPT ![n] = "verack"]
    /\ UNCHANGED <<nodes, ownHeight, score, forked, farBehind, late>>

Behind(n) == announced[n] > Len(chain[n])

\* The listener's verack, updatePeer, and the first getheaders.  From here on the
\* node relays to this peer.
ExpectVerAck(n) ==
    /\ phase[n] = "verack" /\ channel[n] # <<>>
    /\ channel' = [Received(n) EXCEPT ![Other(n)] =
                     @ \o (IF n = Dialler THEN <<>> ELSE <<VerAck>>)
                       \o (IF Behind(n) THEN <<GetHeaders(Len(chain[n]))>> ELSE <<>>)]
    /\ phase' = [phase EXCEPT ![n] = "active"]
    /\ UNCHANGED <<nodes, ownHeight, announced, score, forked, farBehind, late>>

-----------------------------------------------------------------------------
(* Headers first. *)

SyncStep(n) ==
    /\ phase[n] = "active" /\ ~Closed(Other(n))
    /\ Behind(n) /\ Len(channel[n]) + Len(channel[Other(n)]) < MaxInFlight
    /\ channel' = [channel EXCEPT ![Other(n)] = Append(@, GetHeaders(Len(chain[n])))]
    /\ UNCHANGED <<nodes, phase, ownHeight, announced, score, forked, farBehind, late>>

\* Mutant: one header too many.
HeadersAfterIncl(c, start) ==
    SubSeq(c, start + 1, IF start + MaxHeaders < Len(c) THEN start + 1 + MaxHeaders ELSE Len(c))

HeadersAfter(c, start) ==
    SubSeq(c, start + 1, IF start + MaxHeaders < Len(c) THEN start + MaxHeaders ELSE Len(c))

Reads(n, type) == phase[n] = "active" /\ channel[n] # <<>> /\ Head(channel[n]).type = type

HandleGetHeaders(n) ==
    /\ Reads(n, "getheaders")
    /\ Answer(n, <<Headers(HeadersAfter(chain[n], Head(channel[n]).start))>>, BanMalformed)
    /\ UNCHANGED <<nodes, forked, farBehind, late>>

\* Headers below the expected height, for which the node has blocks by now, are passed
\* over ...
News(c, hs) ==
    LET new[i \in 0..Len(hs)] ==
          IF i = 0 THEN <<>>
          ELSE IF Height[hs[i]] < Len(c) + Len(new[i-1]) + 1 THEN new[i-1]
          ELSE Append(new[i-1], hs[i])
    IN new[Len(hs)]

\* Mutant: every header has to be new.
ExtendsStrictly(c, hs) ==
    \A i \in 1..Len(hs) :
       Height[hs[i]] = Len(c) + i /\ Prev[hs[i]] = IF i = 1 THEN TipOf(c) ELSE hs[i-1]

\* ... and the others extend the tip, one after the other.
ValidateHeaderChain(c, hs) ==
    LET new == News(c, hs) IN
    \A i \in 1..Len(new) :
       Height[new[i]] = Len(c) + i /\ Prev[new[i]] = IF i = 1 THEN TipOf(c) ELSE new[i-1]

HandleHeaders(n) ==
    /\ Reads(n, "headers")
    /\ LET hs == Head(channel[n]).headers
           new == News(chain[n], hs)
       IN IF ~ValidateHeaderChain(chain[n], hs) THEN HangUp(n, BanInvalidChain)
          ELSE Answer(n, IF new = <<>> THEN <<>> ELSE <<GetBlocks(new)>>, BanInvalidChain)
    /\ UNCHANGED <<nodes, forked, farBehind, late>>

BlockMsgs(c, bs) ==
    LET sent[i \in 0..Len(bs)] ==
          IF i = 0 THEN <<>>
          ELSE IF InChain(c, bs[i]) THEN Append(sent[i-1], BlockMsg(bs[i])) ELSE sent[i-1]
    IN sent[Len(bs)]

HandleGetBlocks(n) ==
    /\ Reads(n, "getblocks")
    /\ Answer(n, BlockMsgs(chain[n], Head(channel[n]).hashes), 0)
    /\ UNCHANGED <<nodes, forked, farBehind, late>>

-----------------------------------------------------------------------------
(* Inventory. *)

\* RelayBlock: to a peer whose handshake has ended.
Relayed(n, b) ==
    IF phase[n] = "active" /\ ~Closed(Other(n))
    THEN [channel EXCEPT ![Other(n)] = Append(@, Inv(b))] ELSE channel

\* A block is submitted over RPC or Stratum, and relayed before chainMu is released.
Mine(n, b) ==
    /\ MinerOf[b] = n /\ Prev[b] = TipOf(chain[n])
    /\ chain' = [chain EXCEPT ![n] = Append(@, b)]
    /\ channel' = Relayed(n, b)
    /\ Compare
    /\ UNCHANGED <<side, orphans, phase, ownHeight, announced, score, late>>

\* Side blocks are not counted as known.
HasBlock(n, b) == InChain(chain[n], b) \/ b \in orphans[n]

HandleInv(n) ==
    /\ Reads(n, "inv")
    /\ LET b == Head(channel[n]).hash
       IN Answer(n, IF HasBlock(n, b) THEN <<>> ELSE <<GetData(b)>>, BanMalformed)
    /\ UNCHANGED <<nodes, forked, farBehind, late>>

HandleGetData(n) ==
    /\ Reads(n, "getdata")
    /\ Answer(n, BlockMsgs(chain[n], <<Head(channel[n]).hash>>), 0)
    /\ UNCHANGED <<nodes, forked, farBehind, late>>

-----------------------------------------------------------------------------
(* connectBlock. *)

ExtendsTip(n, b) == Height[b] = Len(chain[n]) + 1 /\ Prev[b] = TipOf(chain[n])

KnowsPrev(n, b) == InChain(chain[n], Prev[b]) \/ Prev[b] \in side[n]

TooFar(n, b) == Height[b] > Len(chain[n]) + MaxGap

\* The chains connectOrphansLocked may end with, above b: of two siblings it takes
\* either and drops the other.
OrphanEnds(n, b) ==
    {t \in orphans[n] \cup {b} :
       /\ \A i \in (Height[b] + 1)..Height[t] : PathTo[t][i] \in orphans[n]
       /\ Height[t] >= Height[b] /\ PathTo[t][Height[b]] = b
       /\ \A o \in orphans[n] : Prev[o] # t}

ConnectBlock(n, b) ==
    \E t \in OrphanEnds(n, b) :
       /\ chain' = [chain EXCEPT ![n] = PathTo[t]]
       /\ orphans' = [orphans EXCEPT ![n] =
                        {o \in @ : Prev[o] # b /\ ~(Height[Prev[o]] > Height[b] /\ InChain(PathTo[t], Prev[o]))}]
       /\ UNCHANGED side

\* The blocks that leave the main chain are forgotten, so that a side block's branch
\* may lead nowhere.
ConnectSideBlock(n, b) ==
    LET branch == {x \in Range(PathTo[b]) : ~InChain(chain[n], x)} IN
    /\ IF Height[b] > Len(chain[n]) /\ branch \subseteq side[n] \cup {b}
       THEN /\ chain' = [chain EXCEPT ![n] = PathTo[b]]
            /\ side' = [side EXCEPT ![n] = @ \ branch]
       ELSE side' = [side EXCEPT ![n] = @ \cup {b}] /\ UNCHANGED chain
    /\ UNCHANGED orphans

HandleBlock(n) ==
    LET b == Head(channel[n]).block
        ignored == UNCHANGED <<chain, side, orphans>>
        sidewards == KnowsPrev(n, b) \/ Height[b] <= Len(chain[n])
    IN
    /\ Reads(n, "block")
    /\ \/ InChain(chain[n], b) /\ ignored
       \/ ~InChain(chain[n], b) /\ ExtendsTip(n, b) /\ ConnectBlock(n, b)
       \/ ~InChain(chain[n], b) /\ ~ExtendsTip(n, b) /\ sidewards
          /\ IF KnowsPrev(n, b) /\ ~TooFar(n, b) THEN ConnectSideBlock(n, b) ELSE ignored
       \/ ~ExtendsTip(n, b) /\ ~sidewards /\ ~TooFar(n, b)
          /\ orphans' = [orphans EXCEPT ![n] = @ \cup {b}] /\ UNCHANGED <<chain, side>>
    /\ channel' = Received(n) /\ Compare
    /\ UNCHANGED <<phase, ownHeight, announced, score, late>>

\* validateOrphanCandidateLocked refuses the block and the sender pays.
RefuseOrphan(n) ==
    /\ Reads(n, "block")
    /\ LET b == Head(channel[n]).block IN
       Height[b] > Len(chain[n]) /\ ~ExtendsTip(n, b) /\ ~KnowsPrev(n, b) /\ TooFar(n, b)
    /\ HangUp(n, BanInvalidChain)
    /\ UNCHANGED <<nodes, forked, farBehind, late>>

-----------------------------------------------------------------------------
(* The end of a connection. *)

\* The other end hung up and everything it sent is read.
ReadEnd(n) ==
    /\ ~Closed(n) /\ Closed(Other(n)) /\ channel[n] = <<>>
    /\ HangUp(n, IF phase[Other(n)] = "reset" /\ phase[n] = "active" THEN BanMalformed ELSE 0)
    /\ UNCHANGED <<nodes, forked, farBehind, late>>

\* defaultIdleTimeout: nobody sends pings, so two minutes without a block end a
\* connection.  By then everything sent is read and answered, and syncStep has
\* run many times.
IdleTimeout(n) ==
    /\ \A m \in Node : phase[m] = "active" /\ channel[m] = <<>> /\ ~Behind(m)
    /\ HangUp(n, 0)
    /\ UNCHANGED <<nodes, forked, farBehind, late>>

\* The same deadline, passing while a message is on its way or half read: a slow link, a
\* stalled reader.  A timeout is not charged, but the unread message makes it a reset.
\* The handshakes have their own, shorter deadline and are over by then.
LateTimeout(n) ==
    /\ phase[n] = "active" /\ phase[Other(n)] \notin {"version", "verack"} /\ late < MaxLate
    /\ phase' = [phase EXCEPT ![n] = IF channel[n] = <<>> THEN "closed" ELSE "reset"]
    /\ channel' = [channel EXCEPT ![n] = <<>>]
    /\ late' = late + 1
    /\ UNCHANGED <<nodes, ownHeight, announced, score, forked, farBehind>>

Handle(n) ==
    \/ ReadVersion(n) \/ ExpectVerAck(n)
    \/ HandleGetHeaders(n) \/ HandleHeaders(n) \/ HandleGetBlocks(n)
    \/ HandleInv(n) \/ HandleGetData(n) \/ HandleBlock(n) \/ RefuseOrphan(n)
    \/ ReadEnd(n)

Next ==
    \/ Connect
    \/ \E n \in Node :
         \/ Handle(n) \/ SyncStep(n) \/ IdleTimeout(n) \/ LateTimeout(n)
         \/ \E b \in Block : Mine(n, b)

\* Every goroutine runs, timers fire and connectLoop dials again.  Mining may stop, and
\* a deadline need not pass while messages are on their way.
Fairness ==
    /\ WF_vars(Connect)
    /\ \A n \in Node : WF_vars(Handle(n)) /\ WF_vars(SyncStep(n)) /\ WF_vars(IdleTimeout(n))

Spec == Init /\ [][Next]_vars /\ Fairness

-----------------------------------------------------------------------------
(* Properties. *)

(***************************************************************************)
(* As long as one chain is a prefix of the other and not more than MaxGap  *)
(* ahead, and no deadline has passed with a message on its way, neither    *)
(* node charges the other for anything, in whatever order requests,        *)
(* answers and announcements arrive.                                       *)
(***************************************************************************)
NoPenaltyOnOneChain == (\E n \in Node : score[n] > 0) => forked \/ farBehind \/ late > 0

(***************************************************************************)
(* When mining stops the nodes end up at the same height, whatever was     *)
(* announced to nobody and however many batches it takes, or one has       *)
(* banned the other.  With the idle timeout and the handshake after it, a  *)
(* missed announcement costs time only, and so does a deadline that passes *)
(* too early, up to MaxLate times.                                         *)
(***************************************************************************)
LevelOrBanned ==
    \/ <>(\E n \in Node : score[n] = BanThreshold)
    \/ <>[](Len(chain[Dialler]) = Len(chain[Listener]))

=============================================================================
