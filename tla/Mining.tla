------------------------------- MODULE Mining -------------------------------
(***************************************************************************)
(* Stratum: sessions, the job cache, broadcasts, and submitted blocks.     *)
(*                                                                         *)
(* A job is made with chainMu held and sent without it, by three kinds of  *)
(* goroutine: a session that authorises or has found a block, and the      *)
(* refresh loop.  The tip may move, and another job may overtake, before a *)
(* job arrives.  Blocks from peers and from RPC move the tip without       *)
(* telling Stratum.                                                        *)
(*                                                                         *)
(* The chain only grows here, so its height names its tip; a               *)
(* reorganisation looks the same to a job.  The code numbers jobs from     *)
(* one; here a job is known by how many were made after it, up to          *)
(* MaxCachedJobs.  Shares below the network target change only a counter   *)
(* and are not steps.  The callback that tells the RPC server of a block   *)
(* is in Services.                                                         *)
(***************************************************************************)
EXTENDS Difficulty, Sequences, FiniteSets

CONSTANTS
    Session,
    RefreshLoop,        \* the refresh goroutine
    NoJob, NoBlock, Accepted,
    MaxCachedJobs,      \* maxCachedJobs
    MaxBlocks,          \* bound on the height
    MaxNow,             \* bound on the clock
    MaxTime             \* bound on the timestamps of blocks from elsewhere

VARIABLES
    now,                \* in half seconds
    chain,              \* [parent, time] of every block above the genesis block
    jobs,               \* the cache, oldest first
    state, last,        \* of a session: connected or authorised, the job it was sent last
    out,                \* of a goroutine: the job it is sending, to whom, and
                        \* whether it has still to pick the sessions
    sub                 \* of a session: the block it has found, or Accepted

vars == <<now, chain, jobs, state, last, out, sub>>

Sender == Session \cup {RefreshLoop}
Job == [age : 0..MaxCachedJobs, tip : 0..MaxBlocks]
Found == [parent : 0..MaxBlocks, time : 0..(MaxTime + 1)]
Nothing == [job |-> NoJob, pick |-> FALSE, todo |-> {}]

ASSUME MiningAssumption ==
    /\ MaxCachedJobs \in Nat \ {0} /\ MaxBlocks \in Nat /\ MaxNow \in Nat /\ MaxTime \in Nat
    /\ RefreshLoop \notin Session /\ NoJob \notin Job /\ {NoBlock, Accepted} \cap Found = {}

TypeOK ==
    /\ now \in 0..MaxNow
    /\ chain \in Seq(Found) /\ Len(chain) <= MaxBlocks
    /\ jobs \in Seq(Job) /\ Len(jobs) <= MaxCachedJobs
    /\ state \in [Session -> {"off", "on", "authorized"}]
    /\ last \in [Session -> Job \cup {NoJob}]
    /\ out \in [Sender -> [job : Job \cup {NoJob}, pick : BOOLEAN, todo : SUBSET Session]]
    /\ sub \in [Session -> Found \cup {NoBlock, Accepted}]

Init ==
    /\ now = 0 /\ chain = <<>> /\ jobs = <<>>
    /\ state = [c \in Session |-> "off"] /\ last = [c \in Session |-> NoJob]
    /\ out = [g \in Sender |-> Nothing]
    /\ sub = [c \in Session |-> NoBlock]

TimeAt(height) == IF height = 0 THEN 0 ELSE chain[height].time
TipTime == TimeAt(Len(chain))
Cached == {jobs[i] : i \in 1..Len(jobs)}
Authorized == {c \in Session : state[c] = "authorized"}

-----------------------------------------------------------------------------
(* Jobs. *)

NewJob == [age |-> 0, tip |-> Len(chain)]
Older(j) == IF j = NoJob THEN j ELSE [j EXCEPT !.age = LesserOf(@ + 1, MaxCachedJobs)]

\* Mutant: at the limit the newest job makes room.
CacheNewest(j) == IF Len(jobs) < MaxCachedJobs THEN Append(jobs, j)
                  ELSE Append(SubSeq(jobs, 1, Len(jobs) - 1), j)

CacheJob(j) == IF Len(jobs) < MaxCachedJobs THEN Append(jobs, j) ELSE Append(Tail(jobs), j)

\* createJob, on behalf of g, which then sends it to one session or picks the sessions.
SendNewJob(g, pick, todo) ==
    LET cache == CacheJob(NewJob)
        k == Len(cache)
    IN /\ jobs' = [i \in 1..k |-> IF i = k THEN cache[i] ELSE Older(cache[i])]
       /\ last' = [c \in Session |-> Older(last[c])]
       /\ out' = [h \in Sender |-> IF h = g THEN [job |-> NewJob, pick |-> pick, todo |-> todo]
                                   ELSE [out[h] EXCEPT !.job = Older(@)]]

\* Mutant: the newest job of the cache is sent again.
ResendJob ==
    /\ out[RefreshLoop] = Nothing
    /\ IF jobs = <<>> THEN SendNewJob(RefreshLoop, TRUE, {})
       ELSE /\ out' = [out EXCEPT ![RefreshLoop] =
                         [job |-> jobs[Len(jobs)], pick |-> TRUE, todo |-> {}]]
            /\ UNCHANGED <<jobs, last>>
    /\ UNCHANGED <<now, chain, state, sub>>

\* refreshLoop waits until the last broadcast is through.
Refresh ==
    /\ out[RefreshLoop] = Nothing
    /\ SendNewJob(RefreshLoop, TRUE, {})
    /\ UNCHANGED <<now, chain, state, sub>>

Sending(o, todo) == IF todo = {} THEN Nothing ELSE [o EXCEPT !.pick = FALSE, !.todo = todo]

\* broadcastJob sends to the sessions that are authorised when it has made the job.
PickSessions(g) ==
    /\ out[g].pick
    /\ out' = [out EXCEPT ![g] = Sending(@, Authorized)]
    /\ UNCHANGED <<now, chain, jobs, state, last, sub>>

SendNotify(g, c) ==
    /\ c \in out[g].todo
    /\ last' = [last EXCEPT ![c] = out[g].job]
    /\ out' = [out EXCEPT ![g] = Sending(@, @.todo \ {c})]
    /\ UNCHANGED <<now, chain, jobs, state, sub>>

-----------------------------------------------------------------------------
(* Sessions. *)

\* The session's goroutine is waiting for a request.
Reading(c) == state[c] # "off" /\ out[c] = Nothing /\ sub[c] = NoBlock

Open(c) ==
    /\ state[c] = "off" /\ out[c] = Nothing
    /\ state' = [state EXCEPT ![c] = "on"]
    /\ UNCHANGED <<now, chain, jobs, last, out, sub>>

Authorize(c) ==
    /\ Reading(c)
    /\ state' = [state EXCEPT ![c] = "authorized"]
    /\ SendNewJob(c, FALSE, {c})
    /\ UNCHANGED <<now, chain, sub>>

\* A job on its way to a session that is gone is lost: the write fails, which is logged.
Close(c) ==
    /\ Reading(c)
    /\ state' = [state EXCEPT ![c] = "off"] /\ last' = [last EXCEPT ![c] = NoJob]
    /\ out' = [g \in Sender |-> IF c \in out[g].todo THEN Sending(out[g], out[g].todo \ {c})
                               ELSE out[g]]
    /\ UNCHANGED <<now, chain, jobs, sub>>

\* A share for any job of the cache that meets the network target.  The miner sets
\* the time.
Submit(c) ==
    /\ Reading(c) /\ state[c] = "authorized" /\ Len(chain) < MaxBlocks
    /\ \E j \in Cached, time \in 0..MaxTime :
         /\ CheckBlockTimestamp(TimeAt(j.tip), time, now)
         /\ sub' = [sub EXCEPT ![c] = [parent |-> j.tip, time |-> time]]
    /\ UNCHANGED <<now, chain, jobs, state, last, out>>

ValidateBlock(b) == b.parent = Len(chain) /\ CheckBlockTimestamp(TipTime, b.time, now)

\* Mutant: the checks of submit are enough.
AcceptUnchecked(c) ==
    /\ sub[c] \in Found /\ Len(chain) < MaxBlocks
    /\ chain' = Append(chain, sub[c])
    /\ sub' = [sub EXCEPT ![c] = Accepted]
    /\ UNCHANGED <<now, jobs, state, last, out>>

\* The block is held against the tip again with chainMu held.
AcceptBlock(c) ==
    /\ sub[c] \in Found
    /\ IF ValidateBlock(sub[c])
       THEN chain' = Append(chain, sub[c]) /\ sub' = [sub EXCEPT ![c] = Accepted]
       ELSE sub' = [sub EXCEPT ![c] = NoBlock] /\ UNCHANGED chain
    /\ UNCHANGED <<now, jobs, state, last, out>>

BroadcastJob(c) ==
    /\ sub[c] = Accepted
    /\ SendNewJob(c, TRUE, {})
    /\ sub' = [sub EXCEPT ![c] = NoBlock]
    /\ UNCHANGED <<now, chain, state>>

-----------------------------------------------------------------------------
(* The rest of the node. *)

\* A block from a peer or from RPC.  One that a peer sends as history is not held
\* against the clock.
OtherBlock ==
    /\ Len(chain) < MaxBlocks
    /\ \E time \in (TipTime + 1)..MaxTime : chain' = Append(chain, [parent |-> Len(chain), time |-> time])
    /\ UNCHANGED <<now, jobs, state, last, out, sub>>

Tick == now < MaxNow /\ now' = now + 1 /\ UNCHANGED <<chain, jobs, state, last, out, sub>>

Next ==
    \/ Refresh \/ OtherBlock \/ Tick
    \/ \E g \in Sender : PickSessions(g) \/ \E c \in Session : SendNotify(g, c)
    \/ \E c \in Session :
         Open(c) \/ Authorize(c) \/ Close(c) \/ Submit(c) \/ AcceptBlock(c) \/ BroadcastJob(c)

\* The ticker fires, and sends end, provided the remote ends read or hang up (Services).
Fairness ==
    /\ WF_vars(Refresh)
    /\ \A g \in Sender : WF_vars(PickSessions(g) \/ \E c \in Session : SendNotify(g, c))

Spec == Init /\ [][Next]_vars /\ Fairness

-----------------------------------------------------------------------------
(* Properties. *)

(***************************************************************************)
(* Of two sessions that solve jobs of one tip, and of a session that races *)
(* a block from elsewhere, one extends the chain: every block has the      *)
(* block below it as its parent, and a later time.                         *)
(***************************************************************************)
ChainLinked ==
    \A i \in 1..Len(chain) : chain[i].parent = i - 1 /\ chain[i].time > TimeAt(i - 1)

(***************************************************************************)
(* The job a session was sent last is answered as stale only if            *)
(* MaxCachedJobs jobs were made after it, by whatever mix of refreshes,    *)
(* blocks and other sessions' authorisations.                              *)
(***************************************************************************)
RecentJobsKept ==
    \A c \in Session : last[c] # NoJob /\ last[c].age < MaxCachedJobs => last[c] \in Cached

(***************************************************************************)
(* Once the tip stays where it is, and it does when MaxBlocks is reached,  *)
(* a session that stays authorised is in the end working on it for good,   *)
(* although only blocks found through Stratum are announced at once and a  *)
(* job may overtake another on its way.                                    *)
(***************************************************************************)
FreshWork ==
    \A c \in Session :
       <>[](state[c] = "authorized") => <>[](last[c] # NoJob /\ last[c].tip = Len(chain))

\* Some timestamp is acceptable on top of the tip now.
SomeTimeFits ==
    \E time \in TipTime..(MaxTime + MaxNow + MaxFuture + 2) : CheckBlockTimestamp(TipTime, time, now)

\* The clock shows the second of the tip's timestamp, and a fraction.
TipSecond == now > 2 * TipTime /\ Unix(now) = TipTime

(***************************************************************************)
(* The time of a new job, and that of a block template whatever time its   *)
(* caller asked for, is acceptable if any is, except within the second of  *)
(* the tip's own timestamp.  When the tip is exactly at the limit of the   *)
(* future none is, for up to a second.                                     *)
(***************************************************************************)
ProposedTimeFits ==
    SomeTimeFits =>
       /\ TipSecond \/ CheckBlockTimestamp(TipTime, Unix(NextBlockTime(TipTime, now)), now)
       /\ \A requested \in 0..(MaxTime + 2) :
             \/ TipSecond /\ requested = 0
             \/ CheckBlockTimestamp(TipTime, Unix(TemplateTime(TipTime, requested, now)), now)

\* Tip timestamps the arithmetic is checked for at every height.
TimeRange == 0..(8 * HalfLife)

\* The target on top of a tip of this time, and its successors in time and height.
AsertAt ==
    [h \in 2..(MaxBlocks + 2) |-> \A t \in TimeRange :
       LET late == t - (h - 1) * TargetSpacing IN
       /\ CalcAsertTarget(t, h) <= CalcAsertTarget(t + 1, h)
       /\ CalcAsertTarget(t, h + 1) <= CalcAsertTarget(t, h)
       /\ late % HalfLife = 0 =>
            CalcAsertTarget(t, h) = IF late >= 0 THEN AnchorTarget * Power(2, late \div HalfLife)
                                    ELSE AnchorTarget \div Power(2, (-late) \div HalfLife)]

(***************************************************************************)
(* At the height after the next, whatever the time of the block below, the *)
(* target grows with the time the chain has taken and shrinks with its     *)
(* height, and doubles or halves exactly with every half-life the chain is *)
(* late or early, the cut-off of Go's division below zero included.        *)
(***************************************************************************)
AsertTracks == AsertAt[Len(chain) + 2]

BitsAt ==
    [h \in 2..(MaxBlocks + 2) |-> \A t \in TimeRange :
       LET target == LesserOf(CalcAsertTarget(t, h), PowLimit)
           decoded == CompactToBig(CalcAsertNextBits(t, h))
       IN target > 0 => /\ TargetUsable(CalcAsertNextBits(t, h))
                        /\ decoded <= target
                        /\ (target - decoded) * (SignBit \div Base) <= target]

(***************************************************************************)
(* The bits a block is required to have decode to a target that            *)
(* CheckProofOfWork accepts: rounding to a mantissa never raises it above  *)
(* the limit, and loses no more than the mantissa's last place.            *)
(***************************************************************************)
BitsUsable == BitsAt[Len(chain) + 2]

Minted(from, to) == MapThenSumSet(Coinbase, from..to)

\* The height from which on nothing is minted.
LastEra == ReductionInterval * Min({k \in 0..(BaseSubsidy + 1) : Reduced[k] = 0})

SupplyAt == [h \in 0..MaxBlocks |-> Minted(1, h) + Minted(h + 1, LastEra)]

(***************************************************************************)
(* What the blocks up to here have minted and what the schedule still      *)
(* holds add up to EstimateTotalSubsidy.                                   *)
(***************************************************************************)
SupplyAddsUp == SupplyAt[Len(chain)] = EstimateTotalSubsidy

=============================================================================
