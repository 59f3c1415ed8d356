---------------------------- MODULE MiningProofs ----------------------------
(***************************************************************************)
(* Proofs about Stratum and the consensus arithmetic, for any number of    *)
(* sessions, cached jobs and blocks, any clock, and any parameters of the  *)
(* difficulty and the subsidy.                                             *)
(*                                                                         *)
(* The arithmetic's recursions (powers, the subsidy of an era, the fold    *)
(* over heights) are first shown to have a solution, by induction in the   *)
(* form of the least counterexample; then they are reasoned about by their *)
(* equations.                                                              *)
(***************************************************************************)
EXTENDS Mining, SequenceTheorems, NaturalsInduction, WellFoundedInduction,
        FiniteSetTheorems, TLAPS

\* No job and no submitted block is ahead of the chain.
Behind ==
  /\ \A i \in 1..Len(jobs) : jobs[i].tip <= Len(chain)
  /\ \A c \in Session : sub[c] \in Found => sub[c].parent < MaxBlocks

\* The cache has the latest jobs without a gap.
Ages == \A i \in 1..Len(jobs) : jobs[i].age = Len(jobs) - i

\* A job that was sent, or is being sent, is in the cache unless it is too old.
Recent(j) == j # NoJob /\ j.age < MaxCachedJobs => j \in Cached

InCache ==
  /\ \A c \in Session : Recent(last[c])
  /\ \A g \in Sender : Recent(out[g].job)

\* The inductive invariant.
MInv == TypeOK /\ Behind /\ Ages /\ InCache /\ ChainLinked

-----------------------------------------------------------------------------
(* Jobs. *)

LEMMA Numbers ==
  /\ MaxCachedJobs \in Nat \ {0} /\ MaxBlocks \in Nat /\ MaxNow \in Nat /\ MaxTime \in Nat
  /\ MaxFuture \in Nat /\ TargetSpacing \in Nat \ {0}
  /\ NoJob \notin Job /\ NoBlock \notin Found /\ Accepted \notin Found
BY MiningAssumption, DifficultyAssumption

LEMMA JobIs ==
  ASSUME NEW j
  PROVE  j \in Job <=> /\ j = [age |-> j.age, tip |-> j.tip]
                       /\ j.age \in 0..MaxCachedJobs /\ j.tip \in 0..MaxBlocks
BY DEF Job

LEMMA OlderIs ==
  ASSUME NEW j \in Job
  PROVE  /\ Older(j) \in Job /\ Older(j).tip = j.tip
         /\ j.age < MaxCachedJobs => Older(j).age = j.age + 1
         /\ ~(j.age < MaxCachedJobs) => Older(j).age = MaxCachedJobs
<1>1. j \in [age : 0..MaxCachedJobs, tip : 0..MaxBlocks] /\ j # NoJob /\ MaxCachedJobs \in Nat
  BY Numbers DEF Job
<1>2. Older(j) = [j EXCEPT !.age = LesserOf(j.age + 1, MaxCachedJobs)]
  BY <1>1 DEF Older
<1>3. /\ LesserOf(j.age + 1, MaxCachedJobs) \in 0..MaxCachedJobs
      /\ j.age < MaxCachedJobs => LesserOf(j.age + 1, MaxCachedJobs) = j.age + 1
      /\ ~(j.age < MaxCachedJobs) => LesserOf(j.age + 1, MaxCachedJobs) = MaxCachedJobs
  BY <1>1 DEF LesserOf
<1> HIDE DEF LesserOf
<1> QED BY <1>1, <1>2, <1>3 DEF Job

LEMMA OlderMaybe ==
  ASSUME NEW j \in Job \cup {NoJob}
  PROVE  Older(j) \in Job \cup {NoJob} /\ (Older(j) = NoJob <=> j = NoJob)
<1>1. CASE j = NoJob
  BY <1>1 DEF Older
<1>2. CASE j \in Job
  BY <1>2, OlderIs, Numbers
<1> QED BY <1>1, <1>2

\* How many jobs createJob drops from the cache.
Dropped == IF Len(jobs) < MaxCachedJobs THEN 0 ELSE 1

LEMMA CacheIs ==
  ASSUME TypeOK, NEW j \in Job
  PROVE  /\ CacheJob(j) \in Seq(Job)
         /\ Len(CacheJob(j)) = Len(jobs) + 1 - Dropped
         /\ Len(CacheJob(j)) \in 1..MaxCachedJobs
         /\ CacheJob(j)[Len(CacheJob(j))] = j
         /\ \A i \in 1..(Len(CacheJob(j)) - 1) : CacheJob(j)[i] = jobs[i + Dropped]
<1>0. jobs \in Seq(Job) /\ Len(jobs) \in Nat /\ Len(jobs) <= MaxCachedJobs /\ MaxCachedJobs \in Nat \ {0}
  BY Numbers DEF TypeOK
<1>1. CASE Len(jobs) < MaxCachedJobs
  <2>1. CacheJob(j) = Append(jobs, j) /\ Dropped = 0
    BY <1>1 DEF CacheJob, Dropped
  <2> QED BY <1>0, <1>1, <2>1
<1>2. CASE ~(Len(jobs) < MaxCachedJobs)
  <2>1. CacheJob(j) = Append(Tail(jobs), j) /\ Dropped = 1 /\ jobs # <<>>
    BY <1>0, <1>2 DEF CacheJob, Dropped
  <2>2. /\ Tail(jobs) \in Seq(Job) /\ Len(Tail(jobs)) = Len(jobs) - 1
        /\ \A i \in 1..Len(Tail(jobs)) : Tail(jobs)[i] = jobs[i + 1]
    BY <1>0, <2>1
  <2> DEFINE t == Tail(jobs)
  <2> HIDE DEF t
  <2>3. /\ t \in Seq(Job) /\ Len(t) = Len(jobs) - 1 /\ CacheJob(j) = Append(t, j)
        /\ \A i \in 1..Len(t) : t[i] = jobs[i + 1]
    BY <2>1, <2>2 DEF t
  <2>4. Len(t) \in Nat /\ Len(jobs) = MaxCachedJobs
    BY <1>0, <1>2, <2>3
  <2> QED BY <1>0, <2>1, <2>3, <2>4
<1> QED BY <1>1, <1>2

\* What createJob does to the cache: every job gets a step older, the oldest of a full
\* cache goes, and the new job is the last.
LEMMA JobsAfter ==
  ASSUME TypeOK, NEW g \in Sender, NEW pick, NEW todo, SendNewJob(g, pick, todo)
  PROVE  /\ NewJob \in Job
         /\ jobs' \in Seq(Job) /\ Len(jobs') \in 1..MaxCachedJobs
         /\ Len(jobs') = Len(jobs) + 1 - Dropped
         /\ jobs'[Len(jobs')] = NewJob
         /\ \A i \in 1..(Len(jobs') - 1) :
              i + Dropped \in 1..Len(jobs) /\ jobs'[i] = Older(jobs[i + Dropped])
<1> DEFINE cache == CacheJob(NewJob)
           k == Len(cache)
           older == [i \in 1..k |-> IF i = k THEN cache[i] ELSE Older(cache[i])]
<1>0. /\ MaxCachedJobs \in Nat \ {0} /\ MaxBlocks \in Nat
      /\ chain \in Seq(Found) /\ Len(chain) <= MaxBlocks /\ Len(chain) \in Nat
      /\ jobs \in Seq(Job) /\ Len(jobs) \in Nat
  BY Numbers DEF TypeOK
<1>1. NewJob \in Job
  BY <1>0 DEF NewJob, Job
<1>2. jobs' = older
  BY DEF SendNewJob
<1>3. /\ cache \in Seq(Job) /\ k \in 1..MaxCachedJobs /\ k = Len(jobs) + 1 - Dropped
      /\ cache[k] = NewJob
      /\ \A i \in 1..(k - 1) : cache[i] = jobs[i + Dropped]
  BY <1>1, CacheIs
<1> HIDE DEF cache
<1>4. k \in Nat /\ 1 <= k
  BY <1>0, <1>3
<1>5. \A i \in 1..k : cache[i] \in Job
  BY <1>3
<1>6. \A i \in 1..k : (IF i = k THEN cache[i] ELSE Older(cache[i])) \in Job
  BY <1>5, OlderIs
<1> HIDE DEF k
<1>7. older \in Seq(Job) /\ Len(older) = k
  BY <1>4, <1>6
<1>8. older[k] = NewJob
  BY <1>3, <1>4
<1>9. ASSUME NEW i \in 1..(k - 1)
      PROVE  i + Dropped \in 1..Len(jobs) /\ older[i] = Older(jobs[i + Dropped])
  <2>1. i \in 1..k /\ i # k
    BY <1>4
  <2>2. older[i] = Older(cache[i]) /\ cache[i] = jobs[i + Dropped]
    BY <1>3, <2>1
  <2>3. Dropped \in {0, 1}
    BY DEF Dropped
  <2>4. i + Dropped \in 1..Len(jobs)
    BY <1>0, <1>3, <1>4, <2>1, <2>3
  <2> QED BY <2>2, <2>4
<1> QED BY <1>1, <1>2, <1>3, <1>7, <1>8, <1>9

LEMMA SendTypes ==
  ASSUME TypeOK, NEW g \in Sender, NEW pick \in BOOLEAN, NEW todo \in SUBSET Session,
         SendNewJob(g, pick, todo)
  PROVE  /\ jobs' \in Seq(Job) /\ Len(jobs') <= MaxCachedJobs
         /\ last' \in [Session -> Job \cup {NoJob}]
         /\ out' \in [Sender -> [job : Job \cup {NoJob}, pick : BOOLEAN, todo : SUBSET Session]]
<1>1. jobs' \in Seq(Job) /\ Len(jobs') \in 1..MaxCachedJobs /\ NewJob \in Job
  BY JobsAfter
<1>2. Len(jobs') <= MaxCachedJobs
  BY <1>1, Numbers
<1>3. last' \in [Session -> Job \cup {NoJob}]
  BY OlderMaybe DEF SendNewJob, TypeOK
<1>4. ASSUME NEW h \in Sender
      PROVE  (IF h = g THEN [job |-> NewJob, pick |-> pick, todo |-> todo]
              ELSE [out[h] EXCEPT !.job = Older(@)])
             \in [job : Job \cup {NoJob}, pick : BOOLEAN, todo : SUBSET Session]
  <2>1. out[h] \in [job : Job \cup {NoJob}, pick : BOOLEAN, todo : SUBSET Session]
    BY DEF TypeOK
  <2>2. Older(out[h].job) \in Job \cup {NoJob}
    BY <2>1, OlderMaybe
  <2> QED BY <1>1, <2>1, <2>2
<1>5. out' \in [Sender -> [job : Job \cup {NoJob}, pick : BOOLEAN, todo : SUBSET Session]]
  BY <1>4 DEF SendNewJob
<1> QED BY <1>1, <1>2, <1>3, <1>5

LEMMA SendAges ==
  ASSUME TypeOK, Ages, NEW g \in Sender, NEW pick, NEW todo, SendNewJob(g, pick, todo)
  PROVE  Ages'
<1>0. MaxCachedJobs \in Nat \ {0} /\ jobs \in Seq(Job) /\ Len(jobs) \in Nat /\ Len(jobs) <= MaxCachedJobs
  BY Numbers DEF TypeOK
<1> DEFINE k == Len(jobs')
<1>1. /\ k \in 1..MaxCachedJobs /\ k = Len(jobs) + 1 - Dropped /\ jobs'[k] = NewJob
      /\ \A i \in 1..(k - 1) :
           i + Dropped \in 1..Len(jobs) /\ jobs'[i] = Older(jobs[i + Dropped])
  BY JobsAfter
<1>2. Dropped \in {0, 1}
  BY DEF Dropped
<1> HIDE DEF k
<1>3. ASSUME NEW i \in 1..k
      PROVE  jobs'[i].age = k - i
  <2>1. CASE i = k
    <3>1. jobs'[i].age = 0
      BY <1>1, <2>1 DEF NewJob
    <3> QED BY <1>1, <2>1, <3>1
  <2>2. CASE i # k
    <3>1. i \in 1..(k - 1)
      BY <1>0, <1>1, <2>2
    <3>2. i + Dropped \in 1..Len(jobs) /\ jobs'[i] = Older(jobs[i + Dropped])
      BY <1>1, <3>1
    <3>3. jobs[i + Dropped].age = Len(jobs) - (i + Dropped) /\ jobs[i + Dropped] \in Job
      BY <1>0, <3>2 DEF Ages
    <3>4. Len(jobs) - (i + Dropped) < MaxCachedJobs
      BY <1>0, <1>2, <3>1
    <3>5. jobs'[i].age = Len(jobs) - (i + Dropped) + 1
      BY <3>2, <3>3, <3>4, OlderIs
    <3> QED BY <1>0, <1>1, <1>2, <3>1, <3>5
  <2> QED BY <2>1, <2>2
<1> QED BY <1>3 DEF Ages, k

\* A job that createJob makes older stays in the cache until it is too old.
LEMMA SendRecent ==
  ASSUME TypeOK, Ages, NEW g \in Sender, NEW pick, NEW todo, SendNewJob(g, pick, todo),
         NEW j \in Job \cup {NoJob}, Recent(j)
  PROVE  Older(j) # NoJob /\ Older(j).age < MaxCachedJobs => Older(j) \in Cached'
<1> SUFFICES ASSUME Older(j) # NoJob, Older(j).age < MaxCachedJobs PROVE Older(j) \in Cached'
  OBVIOUS
<1>0. MaxCachedJobs \in Nat \ {0} /\ jobs \in Seq(Job) /\ Len(jobs) \in Nat /\ Len(jobs) <= MaxCachedJobs
  BY Numbers DEF TypeOK
<1>1. j \in Job
  BY OlderMaybe
<1>2. j.age \in 0..MaxCachedJobs /\ j.age < MaxCachedJobs
  <2>1. j.age \in 0..MaxCachedJobs
    BY <1>1, JobIs
  <2> QED BY <1>0, <1>1, <2>1, OlderIs
<1>3. j.age + 1 < MaxCachedJobs /\ j # NoJob
  BY <1>1, <1>2, OlderIs, Numbers
<1>4. PICK i \in 1..Len(jobs) : j = jobs[i]
  BY <1>2, <1>3 DEF Recent, Cached
<1>5. j.age = Len(jobs) - i
  BY <1>4 DEF Ages
<1>6. /\ Len(jobs') = Len(jobs) + 1 - Dropped
      /\ \A n \in 1..(Len(jobs') - 1) : jobs'[n] = Older(jobs[n + Dropped])
  BY JobsAfter
<1> DEFINE d == Dropped
           k == Len(jobs')
<1>7. (d = 0 \/ (d = 1 /\ Len(jobs) = MaxCachedJobs)) /\ k = Len(jobs) + 1 - d
  BY <1>0, <1>6 DEF Dropped
<1>8. \A n \in 1..(k - 1) : jobs'[n] = Older(jobs[n + d])
  BY <1>6
<1> HIDE DEF d, k
<1>9. i - d \in 1..(k - 1) /\ (i - d) + d = i /\ i - d \in 1..k
  BY <1>0, <1>3, <1>5, <1>7
<1>10. jobs'[i - d] = Older(j)
  BY <1>4, <1>8, <1>9
<1> QED BY <1>9, <1>10 DEF Cached, k

LEMMA SendInCache ==
  ASSUME TypeOK, Ages, InCache, NEW g \in Sender, NEW pick, NEW todo, SendNewJob(g, pick, todo)
  PROVE  InCache'
<1>1. ASSUME NEW c \in Session PROVE Recent(last[c])'
  <2>1. last'[c] = Older(last[c]) /\ last[c] \in Job \cup {NoJob} /\ Recent(last[c])
    BY DEF SendNewJob, TypeOK, InCache
  <2>2. Older(last[c]) # NoJob /\ Older(last[c]).age < MaxCachedJobs => Older(last[c]) \in Cached'
    BY <2>1, SendRecent
  <2> QED BY <2>1, <2>2 DEF Recent
<1>2. ASSUME NEW h \in Sender PROVE Recent(out[h].job)'
  <2>1. CASE h = g
    <3>1. out'[h] = [job |-> NewJob, pick |-> pick, todo |-> todo]
      BY <2>1 DEF SendNewJob
    <3>2. jobs'[Len(jobs')] = NewJob /\ Len(jobs') \in 1..MaxCachedJobs
      BY JobsAfter
    <3>3. Len(jobs') \in 1..Len(jobs')
      BY <3>2, Numbers
    <3>4. NewJob \in Cached'
      BY <3>2, <3>3 DEF Cached
    <3> QED BY <3>1, <3>4 DEF Recent
  <2>2. CASE h # g
    <3>1. out[h] \in [job : Job \cup {NoJob}, pick : BOOLEAN, todo : SUBSET Session]
      BY DEF TypeOK
    <3>2. out'[h] = [out[h] EXCEPT !.job = Older(@)]
      BY <2>2 DEF SendNewJob
    <3>3. out'[h].job = Older(out[h].job)
      BY <3>1, <3>2
    <3>4. Recent(out[h].job) /\ out[h].job \in Job \cup {NoJob}
      BY <3>1 DEF InCache
    <3>5. Older(out[h].job) # NoJob /\ Older(out[h].job).age < MaxCachedJobs
            => Older(out[h].job) \in Cached'
      BY <3>4, SendRecent
    <3> QED BY <3>3, <3>5 DEF Recent
  <2> QED BY <2>1, <2>2
<1> QED BY <1>1, <1>2 DEF InCache

LEMMA SendTips ==
  ASSUME TypeOK, Behind, NEW g \in Sender, NEW pick, NEW todo, SendNewJob(g, pick, todo),
         chain' = chain
  PROVE  \A i \in 1..Len(jobs') : jobs'[i].tip <= Len(chain')
<1>0. /\ jobs \in Seq(Job) /\ Len(jobs) \in Nat /\ Len(chain) \in Nat
  BY DEF TypeOK
<1>1. /\ Len(jobs') \in 1..MaxCachedJobs /\ jobs'[Len(jobs')] = NewJob
      /\ \A i \in 1..(Len(jobs') - 1) :
           i + Dropped \in 1..Len(jobs) /\ jobs'[i] = Older(jobs[i + Dropped])
  BY JobsAfter
<1> SUFFICES ASSUME NEW i \in 1..Len(jobs') PROVE jobs'[i].tip <= Len(chain)
  OBVIOUS
<1>2. CASE i = Len(jobs')
  BY <1>0, <1>1, <1>2 DEF NewJob
<1>3. CASE i # Len(jobs')
  <2>1. i \in 1..(Len(jobs') - 1)
    BY <1>1, <1>3
  <2>2. i + Dropped \in 1..Len(jobs) /\ jobs'[i] = Older(jobs[i + Dropped])
    BY <1>1, <2>1
  <2>3. jobs[i + Dropped] \in Job /\ jobs[i + Dropped].tip <= Len(chain)
    BY <1>0, <2>2 DEF Behind
  <2> QED BY <2>2, <2>3, OlderIs
<1> QED BY <1>2, <1>3

-----------------------------------------------------------------------------
(* Types, and the steps that make no job. *)

LEMMA SendingIs ==
  ASSUME NEW o \in [job : Job \cup {NoJob}, pick : BOOLEAN, todo : SUBSET Session],
         NEW todo \in SUBSET Session
  PROVE  /\ Sending(o, todo) \in [job : Job \cup {NoJob}, pick : BOOLEAN, todo : SUBSET Session]
         /\ Sending(o, todo).job \in {o.job, NoJob}
BY DEF Sending, Nothing

LEMMA FoundIs ==
  ASSUME NEW parent \in 0..MaxBlocks, NEW time \in 0..(MaxTime + 1)
  PROVE  /\ [parent |-> parent, time |-> time] \in Found
         /\ [parent |-> parent, time |-> time].parent = parent
         /\ [parent |-> parent, time |-> time].time = time
BY DEF Found

LEMMA TipTimeIs ==
  ASSUME TypeOK
  PROVE  TipTime \in 0..(MaxTime + 1) /\ Len(chain) \in 0..MaxBlocks
<1>0. chain \in Seq(Found) /\ Len(chain) \in 0..MaxBlocks /\ MaxTime \in Nat
  BY Numbers DEF TypeOK
<1>1. CASE Len(chain) = 0
  BY <1>0, <1>1 DEF TipTime, TimeAt
<1>2. CASE Len(chain) # 0
  <2>1. Len(chain) \in 1..Len(chain)
    BY <1>0, <1>2
  <2>2. chain[Len(chain)] \in Found
    BY <1>0, <2>1
  <2>3. chain[Len(chain)].time \in 0..(MaxTime + 1)
    BY <2>2 DEF Found
  <2> QED BY <1>0, <1>2, <2>3 DEF TipTime, TimeAt
<1> QED BY <1>1, <1>2

\* A block on the tip keeps the chain linked and the jobs behind it.
LEMMA Extended ==
  ASSUME TypeOK, ChainLinked, NEW b \in Found, b.parent = Len(chain), b.time > TipTime,
         chain' = Append(chain, b), Len(chain) < MaxBlocks
  PROVE  /\ chain' \in Seq(Found) /\ Len(chain') <= MaxBlocks /\ Len(chain') = Len(chain) + 1
         /\ ChainLinked'
<1>a. PICK n : n = Len(chain)
  OBVIOUS
<1>0. chain \in Seq(Found) /\ n \in Nat /\ MaxBlocks \in Nat
  BY <1>a, Numbers DEF TypeOK
<1>1. chain' \in Seq(Found) /\ Len(chain') = n + 1 /\ chain'[n + 1] = b
  BY <1>a, <1>0
<1>2. \A i \in 1..n : chain'[i] = chain[i]
  BY <1>a, <1>0
<1>3. ASSUME NEW i \in 0..n
      PROVE  TimeAt(i)' = TimeAt(i)
  <2>1. CASE i = 0
    BY <2>1 DEF TimeAt
  <2>2. CASE i # 0
    <3>0. i \in 1..n
      BY <1>0, <2>2
    <3>1. chain'[i] = chain[i]
      BY <1>2, <3>0
    <3> QED BY <2>2, <3>1 DEF TimeAt
  <2> QED BY <2>1, <2>2
<1>4. ASSUME NEW i \in 1..(n + 1)
      PROVE  chain'[i].parent = i - 1 /\ chain'[i].time > TimeAt(i - 1)'
  <2>1. CASE i = n + 1
    <3>1. i - 1 = n /\ TimeAt(n)' = TimeAt(n)
      BY <1>0, <1>3, <2>1
    <3>2. b.parent = n /\ b.time > TimeAt(n)
      BY <1>a DEF TipTime
    <3> QED BY <1>1, <2>1, <3>1, <3>2
  <2>2. CASE i # n + 1
    <3>1. i \in 1..n /\ i - 1 \in 0..n
      BY <1>0, <2>2
    <3>2. chain[i].parent = i - 1 /\ chain[i].time > TimeAt(i - 1)
      BY <1>a, <3>1 DEF ChainLinked
    <3>3. TimeAt(i - 1)' = TimeAt(i - 1)
      BY <1>3, <3>1
    <3> QED BY <1>2, <3>1, <3>2, <3>3
  <2> QED BY <2>1, <2>2
<1>5. ChainLinked'
  BY <1>1, <1>4 DEF ChainLinked
<1> QED BY <1>a, <1>0, <1>1, <1>5

OutType == out \in [Sender -> [job : Job \cup {NoJob}, pick : BOOLEAN, todo : SUBSET Session]]

\* A session or the refresh loop sends, or a session that hangs up is no longer sent to.
LEMMA OutStep ==
  ASSUME TypeOK, InCache, UNCHANGED jobs,
         \/ \E g \in Sender : PickSessions(g) \/ \E c \in Session : SendNotify(g, c)
         \/ \E c \in Session : Close(c)
  PROVE  OutType' /\ last' \in [Session -> Job \cup {NoJob}] /\ InCache'
<1> DEFINE OutOf == [job : Job \cup {NoJob}, pick : BOOLEAN, todo : SUBSET Session]
<1>0. out \in [Sender -> OutOf] /\ last \in [Session -> Job \cup {NoJob}]
  BY DEF TypeOK
<1>1. Cached' = Cached /\ \A j : Recent(j)' <=> Recent(j)
  BY DEF Cached, Recent
<1>2. Recent(NoJob) /\ \A g \in Sender : Recent(out[g].job) /\ out[g].job \in Job \cup {NoJob}
  BY <1>0 DEF Recent, InCache
<1>3. \A c \in Session : Recent(last[c])
  BY DEF InCache
<1>4. ASSUME NEW g \in Sender, PickSessions(g)
      PROVE  OutType' /\ last' \in [Session -> Job \cup {NoJob}] /\ InCache'
  <2>1. last' = last /\ out' = [out EXCEPT ![g] = Sending(out[g], Authorized)]
    BY <1>4 DEF PickSessions
  <2>2. Authorized \in SUBSET Session
    BY DEF Authorized
  <2>3. Sending(out[g], Authorized) \in OutOf /\ Sending(out[g], Authorized).job \in {out[g].job, NoJob}
    BY <1>0, <2>2, SendingIs
  <2>4. OutType' /\ \A h \in Sender : out'[h].job \in {out[h].job, NoJob}
    BY <1>0, <2>1, <2>3 DEF OutType
  <2> QED BY <1>0, <1>1, <1>2, <1>3, <2>1, <2>4 DEF InCache, Recent
<1>5. ASSUME NEW g \in Sender, NEW c \in Session, SendNotify(g, c)
      PROVE  OutType' /\ last' \in [Session -> Job \cup {NoJob}] /\ InCache'
  <2>1. /\ last' = [last EXCEPT ![c] = out[g].job]
        /\ out' = [out EXCEPT ![g] = Sending(out[g], out[g].todo \ {c})]
    BY <1>5 DEF SendNotify
  <2>2. out[g].todo \ {c} \in SUBSET Session /\ out[g] \in OutOf
    BY <1>0
  <2>3. /\ Sending(out[g], out[g].todo \ {c}) \in OutOf
        /\ Sending(out[g], out[g].todo \ {c}).job \in {out[g].job, NoJob}
    BY <2>2, SendingIs
  <2>4. OutType' /\ \A h \in Sender : out'[h].job \in {out[h].job, NoJob}
    BY <1>0, <2>1, <2>3 DEF OutType
  <2>5. /\ last' \in [Session -> Job \cup {NoJob}]
        /\ \A d \in Session : last'[d] \in {last[d], out[g].job}
    BY <1>0, <1>2, <2>1
  <2> QED BY <1>1, <1>2, <1>3, <2>4, <2>5 DEF InCache, Recent
<1>6. ASSUME NEW c \in Session, Close(c)
      PROVE  OutType' /\ last' \in [Session -> Job \cup {NoJob}] /\ InCache'
  <2>1. last' = [last EXCEPT ![c] = NoJob]
    BY <1>6 DEF Close
  <2>2. ASSUME NEW h \in Sender
        PROVE  out'[h] \in OutOf /\ out'[h].job \in {out[h].job, NoJob}
    <3>1. out'[h] = IF c \in out[h].todo THEN Sending(out[h], out[h].todo \ {c}) ELSE out[h]
      BY <1>6 DEF Close
    <3>2. out[h].todo \ {c} \in SUBSET Session /\ out[h] \in OutOf
      BY <1>0
    <3>3. /\ Sending(out[h], out[h].todo \ {c}) \in OutOf
          /\ Sending(out[h], out[h].todo \ {c}).job \in {out[h].job, NoJob}
      BY <3>2, SendingIs
    <3> QED BY <3>1, <3>2, <3>3
  <2>3. out' = [h \in Sender |-> out'[h]]
    BY <1>6 DEF Close
  <2>4. OutType'
    BY <2>2, <2>3 DEF OutType
  <2>5. /\ last' \in [Session -> Job \cup {NoJob}]
        /\ \A d \in Session : last'[d] \in {last[d], NoJob}
    BY <1>0, <2>1
  <2> QED BY <1>1, <1>2, <1>3, <2>2, <2>4, <2>5 DEF InCache, Recent
<1> QED BY <1>4, <1>5, <1>6

LEMMA InvInit ==
  ASSUME Init
  PROVE  MInv
<1>1. jobs = <<>> /\ chain = <<>> /\ Len(jobs) = 0 /\ Len(chain) = 0
  BY DEF Init
<1>2. TypeOK
  <2>1. 0 \in 0..MaxNow /\ 0 <= MaxBlocks /\ 0 <= MaxCachedJobs
    BY Numbers
  <2>2. out \in [Sender -> [job : Job \cup {NoJob}, pick : BOOLEAN, todo : SUBSET Session]]
    BY DEF Init, Nothing
  <2> QED BY <1>1, <2>1, <2>2 DEF Init, TypeOK
<1>3. Ages /\ ChainLinked
  BY <1>1 DEF Ages, ChainLinked
<1>4. Behind
  BY <1>1, Numbers DEF Behind, Init
<1>5. InCache
  BY DEF InCache, Recent, Init, Nothing
<1> QED BY <1>2, <1>3, <1>4, <1>5 DEF MInv

\* createJob, whoever calls it.
LEMMA SendStep ==
  ASSUME MInv, NEW g \in Sender, NEW pick \in BOOLEAN, NEW todo \in SUBSET Session,
         SendNewJob(g, pick, todo), UNCHANGED <<now, chain>>,
         state' \in [Session -> {"off", "on", "authorized"}],
         \A c \in Session : sub'[c] \in {sub[c], NoBlock},
         sub' \in [Session -> Found \cup {NoBlock, Accepted}]
  PROVE  MInv'
<1>0. TypeOK /\ Behind /\ Ages /\ InCache /\ ChainLinked
  BY DEF MInv
<1>1. TypeOK'
  BY <1>0, SendTypes DEF TypeOK
<1>2. Behind'
  <2>1. \A i \in 1..Len(jobs') : jobs'[i].tip <= Len(chain')
    BY <1>0, SendTips
  <2>2. \A c \in Session : sub'[c] \in Found => sub'[c].parent < MaxBlocks
    BY <1>0, Numbers DEF Behind
  <2> QED BY <2>1, <2>2 DEF Behind
<1>3. Ages' /\ InCache'
  BY <1>0, SendAges, SendInCache
<1>4. ChainLinked'
  BY <1>0 DEF ChainLinked, TimeAt
<1> QED BY <1>1, <1>2, <1>3, <1>4 DEF MInv

\* A step that leaves the jobs alone.
LEMMA QuietStep ==
  ASSUME MInv, UNCHANGED <<jobs, last, out>>, now' \in 0..MaxNow,
         chain' \in Seq(Found), Len(chain') <= MaxBlocks, Len(chain) <= Len(chain'), ChainLinked',
         state' \in [Session -> {"off", "on", "authorized"}],
         sub' \in [Session -> Found \cup {NoBlock, Accepted}],
         \A c \in Session : sub'[c] \in Found => sub'[c].parent < MaxBlocks
  PROVE  MInv'
<1>0. TypeOK /\ Behind /\ Ages /\ InCache /\ Len(chain) \in Nat
  BY DEF MInv, TypeOK
<1>1. TypeOK'
  BY <1>0 DEF TypeOK
<1>2. Behind'
  <2>1. \A i \in 1..Len(jobs) : jobs[i].tip <= Len(chain')
    <3> SUFFICES ASSUME NEW i \in 1..Len(jobs) PROVE jobs[i].tip <= Len(chain')
      OBVIOUS
    <3>1. jobs[i] \in Job /\ jobs[i].tip <= Len(chain) /\ Len(chain') \in Nat
      BY <1>0 DEF Behind, TypeOK
    <3>2. jobs[i].tip \in 0..MaxBlocks
      BY <3>1, JobIs
    <3> QED BY <1>0, <3>1, <3>2
  <2> QED BY <2>1 DEF Behind
<1>3. Ages' /\ InCache'
  BY <1>0 DEF Ages, InCache, Recent, Cached
<1> QED BY <1>1, <1>2, <1>3 DEF MInv

LEMMA InvStep ==
  ASSUME MInv, [Next]_vars
  PROVE  MInv'
<1>0. TypeOK /\ Behind /\ Ages /\ InCache /\ ChainLinked
  BY DEF MInv
<1>1. /\ now \in 0..MaxNow /\ chain \in Seq(Found) /\ Len(chain) \in Nat /\ Len(chain) <= MaxBlocks
      /\ state \in [Session -> {"off", "on", "authorized"}]
      /\ sub \in [Session -> Found \cup {NoBlock, Accepted}]
      /\ \A c \in Session : sub[c] \in Found => sub[c].parent < MaxBlocks
  BY <1>0 DEF TypeOK, Behind
<1>2. Len(chain) <= Len(chain) /\ Session \subseteq Sender /\ RefreshLoop \in Sender
  BY <1>1 DEF Sender
<1>3. chain' = chain => ChainLinked'
  BY <1>0 DEF ChainLinked, TimeAt
<1>4. CASE Refresh
  <2>1. SendNewJob(RefreshLoop, TRUE, {}) /\ UNCHANGED <<now, chain, state, sub>>
    BY <1>4 DEF Refresh
  <2> QED BY <1>1, <1>2, <2>1, SendStep
<1>5. ASSUME NEW c \in Session, Authorize(c)
      PROVE  MInv'
  <2>1. SendNewJob(c, FALSE, {c}) /\ UNCHANGED <<now, chain, sub>>
        /\ state' \in [Session -> {"off", "on", "authorized"}]
    BY <1>1, <1>5 DEF Authorize
  <2> QED BY <1>1, <1>2, <2>1, SendStep
<1>6. ASSUME NEW c \in Session, BroadcastJob(c)
      PROVE  MInv'
  <2>1. SendNewJob(c, TRUE, {}) /\ UNCHANGED <<now, chain, state>>
    BY <1>6 DEF BroadcastJob
  <2>2. /\ sub' \in [Session -> Found \cup {NoBlock, Accepted}]
        /\ \A d \in Session : sub'[d] \in {sub[d], NoBlock}
    BY <1>1, <1>6 DEF BroadcastJob
  <2> QED BY <1>1, <1>2, <2>1, <2>2, SendStep
<1>7. ASSUME \/ \E g \in Sender : PickSessions(g) \/ \E c \in Session : SendNotify(g, c)
             \/ \E c \in Session : Close(c)
      PROVE  MInv'
  <2>1. UNCHANGED <<now, chain, jobs, sub>> /\ state' \in [Session -> {"off", "on", "authorized"}]
    BY <1>1, <1>7 DEF PickSessions, SendNotify, Close
  <2>2. OutType' /\ last' \in [Session -> Job \cup {NoJob}] /\ InCache'
    BY <1>0, <1>7, <2>1, OutStep
  <2>3. TypeOK'
    BY <1>0, <2>1, <2>2 DEF TypeOK, OutType
  <2>4. Behind' /\ Ages'
    BY <1>0, <2>1 DEF Behind, Ages
  <2> QED BY <1>3, <2>1, <2>2, <2>3, <2>4 DEF MInv
<1>8. ASSUME NEW c \in Session, Open(c)
      PROVE  MInv'
  <2>1. UNCHANGED <<now, chain, jobs, last, out, sub>>
        /\ state' \in [Session -> {"off", "on", "authorized"}]
    BY <1>1, <1>8 DEF Open
  <2> QED BY <1>1, <1>2, <1>3, <2>1, QuietStep
<1>9. ASSUME NEW c \in Session, Submit(c)
      PROVE  MInv'
  <2>1. PICK j \in Cached, time \in 0..MaxTime :
          sub' = [sub EXCEPT ![c] = [parent |-> j.tip, time |-> time]]
    BY <1>9 DEF Submit
  <2>2. Len(chain) < MaxBlocks /\ UNCHANGED <<now, chain, jobs, state, last, out>>
    BY <1>9 DEF Submit
  <2>3. PICK i \in 1..Len(jobs) : j = jobs[i]
    BY DEF Cached
  <2>4. j \in Job /\ j.tip <= Len(chain)
    BY <1>0, <2>3 DEF Behind, TypeOK
  <2>5. j.tip \in 0..MaxBlocks /\ j.tip < MaxBlocks
    <3>1. j.tip \in 0..MaxBlocks
      BY <2>4, JobIs
    <3> QED BY <1>1, <2>2, <2>4, <3>1, Numbers
  <2>6. time \in 0..(MaxTime + 1)
    BY Numbers
  <2> DEFINE b == [parent |-> j.tip, time |-> time]
  <2>7. b \in Found /\ b.parent < MaxBlocks
    BY <2>5, <2>6, FoundIs
  <2> HIDE DEF b
  <2>8. sub' = [sub EXCEPT ![c] = b]
    BY <2>1 DEF b
  <2>9. /\ sub' \in [Session -> Found \cup {NoBlock, Accepted}]
        /\ \A d \in Session : sub'[d] \in Found => sub'[d].parent < MaxBlocks
    BY <1>1, <2>7, <2>8
  <2> QED BY <1>1, <1>2, <1>3, <2>2, <2>9, QuietStep
<1>10. ASSUME NEW c \in Session, AcceptBlock(c)
       PROVE  MInv'
  <2>1. UNCHANGED <<now, jobs, state, last, out>> /\ sub[c] \in Found
    BY <1>10 DEF AcceptBlock
  <2>2. CASE ValidateBlock(sub[c])
    <3>1. chain' = Append(chain, sub[c]) /\ sub' = [sub EXCEPT ![c] = Accepted]
      BY <1>10, <2>2 DEF AcceptBlock
    <3>2. sub[c].parent = Len(chain) /\ sub[c].time > TipTime /\ Len(chain) < MaxBlocks
      BY <1>1, <2>1, <2>2 DEF ValidateBlock, CheckBlockTimestamp
    <3>3. /\ chain' \in Seq(Found) /\ Len(chain') <= MaxBlocks /\ Len(chain') = Len(chain) + 1
          /\ ChainLinked'
      BY <1>0, <2>1, <3>1, <3>2, Extended
    <3>4. Len(chain) <= Len(chain')
      BY <1>1, <3>3
    <3>5. /\ sub' \in [Session -> Found \cup {NoBlock, Accepted}]
          /\ \A d \in Session : sub'[d] \in Found => sub'[d].parent < MaxBlocks
      BY <1>1, <3>1, Numbers
    <3> QED BY <1>1, <2>1, <3>3, <3>4, <3>5, QuietStep
  <2>3. CASE ~ValidateBlock(sub[c])
    <3>1. chain' = chain /\ sub' = [sub EXCEPT ![c] = NoBlock]
      BY <1>10, <2>3 DEF AcceptBlock
    <3>2. /\ sub' \in [Session -> Found \cup {NoBlock, Accepted}]
          /\ \A d \in Session : sub'[d] \in Found => sub'[d].parent < MaxBlocks
      BY <1>1, <3>1, Numbers
    <3> QED BY <1>1, <1>2, <1>3, <2>1, <3>1, <3>2, QuietStep
  <2> QED BY <2>2, <2>3
<1>11. CASE OtherBlock
  <2>1. PICK time \in (TipTime + 1)..MaxTime :
          chain' = Append(chain, [parent |-> Len(chain), time |-> time])
    BY <1>11 DEF OtherBlock
  <2>2. Len(chain) < MaxBlocks /\ UNCHANGED <<now, jobs, state, last, out, sub>>
    BY <1>11 DEF OtherBlock
  <2>3. TipTime \in 0..(MaxTime + 1) /\ Len(chain) \in 0..MaxBlocks
    BY <1>0, TipTimeIs
  <2>4. time \in 0..(MaxTime + 1) /\ time > TipTime
    BY <2>3, Numbers
  <2> DEFINE b == [parent |-> Len(chain), time |-> time]
  <2>5. b \in Found /\ b.parent = Len(chain) /\ b.time > TipTime
    BY <2>3, <2>4, FoundIs
  <2> HIDE DEF b
  <2>6. chain' = Append(chain, b)
    BY <2>1 DEF b
  <2>7. /\ chain' \in Seq(Found) /\ Len(chain') <= MaxBlocks /\ Len(chain') = Len(chain) + 1
        /\ ChainLinked'
    BY <1>0, <2>2, <2>5, <2>6, Extended
  <2>8. Len(chain) <= Len(chain')
    BY <1>1, <2>7
  <2> QED BY <1>1, <2>2, <2>7, <2>8, QuietStep
<1>12. CASE Tick
  <2>1. UNCHANGED <<chain, jobs, state, last, out, sub>> /\ now' \in 0..MaxNow
    BY <1>1, <1>12, Numbers DEF Tick
  <2> QED BY <1>1, <1>2, <1>3, <2>1, QuietStep
<1>13. CASE UNCHANGED vars
  <2>1. UNCHANGED <<now, chain, jobs, state, last, out, sub>>
    BY <1>13 DEF vars
  <2> QED BY <1>1, <1>2, <1>3, <2>1, QuietStep
<1> QED BY <1>4, <1>5, <1>6, <1>7, <1>8, <1>9, <1>10, <1>11, <1>12, <1>13 DEF Next

-----------------------------------------------------------------------------
(* The time of a new job. *)

LEMMA UnixIs ==
  ASSUME NEW t \in Nat
  PROVE  Unix(t) \in Nat /\ 2 * Unix(t) <= t /\ t <= 2 * Unix(t) + 1
BY DEF Unix

\* A time after the tip's, cut off at the limit, is acceptable if the limit leaves room.
LEMMA CutTimeFits ==
  ASSUME NEW p \in Nat, NEW n \in Nat, NEW t \in Nat, t >= 2 * p + 2,
         MaxAllowedBlockTime(p, n) >= 2 * p + 2, MaxAllowedBlockTime(p, n) \in Nat
  PROVE  CheckBlockTimestamp(p, Unix(LesserOf(t, MaxAllowedBlockTime(p, n))), n)
<1> DEFINE m == MaxAllowedBlockTime(p, n)
           u == Unix(LesserOf(t, m))
<1>1. m \in Nat /\ m >= 2 * p + 2
  OBVIOUS
<1> HIDE DEF m
<1>2. PICK x \in Nat : x = LesserOf(t, m) /\ x >= 2 * p + 2 /\ x <= m
  BY <1>1 DEF LesserOf
<1>3. u \in Nat /\ 2 * u <= x /\ x <= 2 * u + 1
  BY <1>2, UnixIs
<1> HIDE DEF u
<1>4. u > p /\ 2 * u <= m
  BY <1>1, <1>2, <1>3
<1> QED BY <1>4 DEF CheckBlockTimestamp, m, u

\* TypeOK is enough for ProposedTimeFits: it holds for every tip and every clock.
LEMMA TypeFits ==
  ASSUME TypeOK
  PROVE  ProposedTimeFits
<1>0. TipTime \in 0..(MaxTime + 1) /\ MaxTime \in Nat /\ MaxNow \in Nat /\ now \in 0..MaxNow
      /\ MaxFuture \in Nat /\ TargetSpacing \in Nat
  BY TipTimeIs, Numbers DEF TypeOK
<1>1. PICK p \in Nat, n \in Nat : p = TipTime /\ n = now
  BY <1>0
<1> SUFFICES ASSUME SomeTimeFits
             PROVE  /\ TipSecond \/ CheckBlockTimestamp(p, Unix(NextBlockTime(p, n)), n)
                    /\ \A requested \in 0..(MaxTime + 2) :
                         \/ TipSecond /\ requested = 0
                         \/ CheckBlockTimestamp(p, Unix(TemplateTime(p, requested, n)), n)
  BY <1>1 DEF ProposedTimeFits
<1> DEFINE m == MaxAllowedBlockTime(p, n)
<1>2. m \in Nat
  BY <1>0 DEF MaxAllowedBlockTime
<1>3. m >= 2 * p + 2
  <2>1. PICK time \in TipTime..(MaxTime + MaxNow + MaxFuture + 2) : CheckBlockTimestamp(p, time, n)
    BY <1>1 DEF SomeTimeFits
  <2>2. time \in Nat /\ time > p /\ 2 * time <= m
    BY <1>0, <2>1 DEF CheckBlockTimestamp
  <2> HIDE DEF m
  <2> QED BY <1>2, <2>2
<1>4. TipSecond \/ n <= 2 * p \/ n >= 2 * p + 2
  <2>1. n = 2 * p + 1 => Unix(n) = p
    <3>1. Unix(n) \in Nat /\ 2 * Unix(n) <= n /\ n <= 2 * Unix(n) + 1
      BY UnixIs
    <3> QED BY <3>1
  <2> QED BY <1>1, <2>1 DEF TipSecond
<1>5. TipSecond \/ \E t \in Nat : t >= 2 * p + 2 /\ NextBlockTime(p, n) = LesserOf(t, m)
  <2> DEFINE t == IF n > 2 * p THEN n ELSE 2 * (p + 1)
  <2>1. NextBlockTime(p, n) = LesserOf(t, m)
    BY DEF NextBlockTime
  <2>2. TipSecond \/ (t \in Nat /\ t >= 2 * p + 2)
    BY <1>4
  <2> QED BY <2>1, <2>2
<1>6. TipSecond \/ CheckBlockTimestamp(p, Unix(NextBlockTime(p, n)), n)
  BY <1>2, <1>3, <1>5, CutTimeFits
<1>7. ASSUME NEW requested \in 0..(MaxTime + 2), ~(TipSecond /\ requested = 0)
      PROVE  CheckBlockTimestamp(p, Unix(TemplateTime(p, requested, n)), n)
  <2> DEFINE next == IF requested > 0 THEN 2 * requested ELSE NextBlockTime(p, n)
             t == IF next > 2 * p THEN next ELSE 2 * (p + 1)
  <2>1. TemplateTime(p, requested, n) = LesserOf(t, m)
    BY DEF TemplateTime
  <2>2. t \in Nat /\ t >= 2 * p + 2
    <3>1. CASE requested > 0
      <4>1. next = 2 * requested /\ requested \in Nat
        BY <1>0, <3>1
      <4> HIDE DEF next
      <4> QED BY <4>1
    <3>2. CASE ~(requested > 0)
      <4>1. requested = 0 /\ next = NextBlockTime(p, n)
        BY <1>0, <3>2
      <4>2. PICK s \in Nat : s >= 2 * p + 2 /\ next = LesserOf(s, m)
        BY <1>5, <1>7, <4>1
      <4> HIDE DEF next, m
      <4>3. next \in Nat /\ next >= 2 * p + 2
        BY <1>2, <1>3, <4>2 DEF LesserOf
      <4> QED BY <4>3
    <3> QED BY <3>1, <3>2
  <2> HIDE DEF t, next
  <2> QED BY <1>2, <1>3, <2>1, <2>2, CutTimeFits
<1> QED BY <1>6, <1>7

-----------------------------------------------------------------------------
(* Induction and recursion. *)

LEMMA LeastNat ==
  ASSUME NEW T \in SUBSET Nat, T # {}
  PROVE  \E x \in T : \A y \in T : x <= y
<1>1. PICK x \in T : \A y \in T : ~ (<<y, x>> \in OpToRel(<, Nat))
  BY NatLessThanWellFounded, WFMin
<1>2. \A y \in T : ~ (y < x)
  BY <1>1 DEF OpToRel
<1> QED BY <1>2

LEMMA SetInduction ==
  ASSUME NEW S, 0 \in S, \A n \in Nat : n \in S => n + 1 \in S
  PROVE  Nat \subseteq S
<1> SUFFICES ASSUME Nat \ S # {} PROVE FALSE
  OBVIOUS
<1>1. PICK x \in Nat \ S : \A y \in Nat \ S : x <= y
  BY LeastNat
<1>2. x \in Nat /\ x \notin S /\ x # 0
  BY <1>1
<1>3. x - 1 \in Nat /\ ~(x <= x - 1) /\ (x - 1) + 1 = x
  BY <1>2
<1>4. x - 1 \in S
  BY <1>1, <1>3
<1> QED BY <1>2, <1>3, <1>4

\* The first n rounds of a recursion.
Rounds(g, n, W, base, next) ==
  /\ g \in [0..n -> W] /\ g[0] = base /\ \A k \in 1..n : g[k] = next[<<k - 1, g[k - 1]>>]

\* next takes the index and the value to the next value.
StepsIn(W, next) == \A k \in Nat : \A w \in W : next[<<k, w>>] \in W

Solves(f, W, base, next) ==
  f \in [Nat -> W] /\ f[0] = base /\ \A k \in Nat : f[k + 1] = next[<<k, f[k]>>]

LEMMA RoundsExist ==
  ASSUME NEW W, NEW base \in W, NEW next, StepsIn(W, next)
  PROVE  \A n \in Nat : \E g : Rounds(g, n, W, base, next)
<1> DEFINE S == {n \in Nat : \E g : Rounds(g, n, W, base, next)}
<1>1. 0 \in S
  <2> DEFINE g == [k \in 0..0 |-> base]
  <2>1. Rounds(g, 0, W, base, next)
    BY DEF Rounds
  <2> QED BY <2>1
<1>2. ASSUME NEW n \in Nat, n \in S PROVE n + 1 \in S
  <2>1. PICK f : Rounds(f, n, W, base, next)
    BY <1>2
  <2>2. PICK new \in W : new = next[<<n, f[n]>>]
    <3>1. f[n] \in W
      BY <2>1 DEF Rounds
    <3> QED BY <3>1 DEF StepsIn
  <2> DEFINE g == [k \in 0..(n + 1) |-> IF k = n + 1 THEN new ELSE f[k]]
  <2>3. g \in [0..(n + 1) -> W] /\ g[0] = base
    BY <2>1, <2>2 DEF Rounds
  <2>4. ASSUME NEW k \in 1..(n + 1) PROVE g[k] = next[<<k - 1, g[k - 1]>>]
    <3>1. CASE k = n + 1
      <4>1. g[k] = new /\ g[k - 1] = f[n] /\ k - 1 = n
        BY <3>1
      <4> HIDE DEF g
      <4>2. PICK w : w = g[k - 1]
        OBVIOUS
      <4>3. w = f[n]
        BY <4>1, <4>2
      <4>4. g[k] = next[<<n, w>>]
        BY <2>2, <4>1, <4>3
      <4> QED BY <4>1, <4>2, <4>4
    <3>2. CASE k # n + 1
      <4>1. g[k] = f[k] /\ g[k - 1] = f[k - 1] /\ k \in 1..n
        BY <3>2
      <4> QED BY <2>1, <4>1 DEF Rounds
    <3> QED BY <3>1, <3>2
  <2> HIDE DEF g
  <2>5. Rounds(g, n + 1, W, base, next)
    BY <2>3, <2>4 DEF Rounds
  <2> QED BY <2>5
<1> HIDE DEF S
<1>3. Nat \subseteq S
  BY <1>1, <1>2, SetInduction
<1> QED BY <1>3 DEF S

LEMMA RoundsAgree ==
  ASSUME NEW W, NEW base, NEW next, NEW m \in Nat, NEW n \in Nat, m <= n, NEW g, NEW h,
         Rounds(g, m, W, base, next), Rounds(h, n, W, base, next)
  PROVE  g[m] = h[m]
<1> DEFINE S == {k \in Nat : k <= m => g[k] = h[k]}
<1>1. 0 \in S
  BY DEF Rounds
<1>2. ASSUME NEW k \in Nat, k \in S PROVE k + 1 \in S
  <2> SUFFICES ASSUME k + 1 <= m PROVE g[k + 1] = h[k + 1]
    OBVIOUS
  <2>1. PICK j \in 1..m : j = k + 1 /\ j - 1 = k
    OBVIOUS
  <2>2. g[j] = next[<<j - 1, g[j - 1]>>] /\ h[j] = next[<<j - 1, h[j - 1]>>]
    BY DEF Rounds
  <2> QED BY <1>2, <2>1, <2>2
<1> HIDE DEF S
<1>3. Nat \subseteq S
  BY <1>1, <1>2, SetInduction
<1> QED BY <1>3 DEF S

\* A recursion over the numbers has a solution.
LEMMA RecursionExists ==
  ASSUME NEW W, NEW base \in W, NEW next, StepsIn(W, next)
  PROVE  \E f : Solves(f, W, base, next)
<1> DEFINE G(n) == CHOOSE g : Rounds(g, n, W, base, next)
           f == [n \in Nat |-> G(n)[n]]
<1>1. \A n \in Nat : Rounds(G(n), n, W, base, next)
  BY RoundsExist
<1> HIDE DEF G
<1>2. ASSUME NEW n \in Nat PROVE f[n] = G(n)[n] /\ f[n] \in W
  BY <1>1 DEF Rounds
<1>3. f \in [Nat -> W]
  BY <1>2
<1>4. ASSUME NEW k \in Nat PROVE f[k + 1] = next[<<k, f[k]>>]
  <2>1. PICK m \in Nat : m = k + 1 /\ m - 1 = k /\ m \in 1..m
    OBVIOUS
  <2>2. G(m)[m] = next[<<m - 1, G(m)[m - 1]>>]
    BY <1>1, <2>1 DEF Rounds
  <2>3. G(k)[k] = G(m)[k]
    BY <1>1, <2>1, RoundsAgree
  <2>4. f[m] = G(m)[m] /\ f[k] = G(k)[k]
    BY <1>2
  <2> HIDE DEF f
  <2> QED BY <2>1, <2>2, <2>3, <2>4
<1>5. f[0] = base
  <2>1. f[0] = G(0)[0] /\ Rounds(G(0), 0, W, base, next)
    BY <1>1, <1>2
  <2> HIDE DEF f
  <2> QED BY <2>1 DEF Rounds
<1> HIDE DEF f
<1>6. Solves(f, W, base, next)
  BY <1>3, <1>4, <1>5 DEF Solves
<1> QED BY <1>6

-----------------------------------------------------------------------------
(* Powers. *)

LEMMA PowerIs ==
  ASSUME NEW b \in Nat
  PROVE  Power(b, 0) = 1 /\ \A k \in Nat : Power(b, k) \in Nat /\ Power(b, k + 1) = b * Power(b, k)
<1> DEFINE E(p) == p = [i \in Nat |-> IF i = 0 THEN 1 ELSE b * p[i-1]]
           p0 == CHOOSE p : E(p)
           next == [w \in Nat \X Nat |-> b * w[2]]
<1>1. \A k : Power(b, k) = p0[k]
  BY DEF Power
<1>2. next \in [Nat \X Nat -> Nat] /\ \A k, w \in Nat : next[<<k, w>>] = b * w
  OBVIOUS
<1> HIDE DEF next
<1>3. PICK f \in [Nat -> Nat] : f[0] = 1 /\ \A k \in Nat : f[k + 1] = next[<<k, f[k]>>]
  <2>1. PICK W : W = Nat
    OBVIOUS
  <2>2. PICK one : one = 1
    OBVIOUS
  <2>3. one \in W /\ StepsIn(W, next)
    BY <1>2, <2>1, <2>2 DEF StepsIn
  <2>4. PICK f : Solves(f, W, one, next)
    BY <2>3, RecursionExists
  <2> QED BY <2>1, <2>2, <2>4 DEF Solves
<1>4. E(f)
  <2>1. ASSUME NEW i \in Nat PROVE f[i] = IF i = 0 THEN 1 ELSE b * f[i - 1]
    <3>1. CASE i = 0
      BY <1>3, <3>1
    <3>2. CASE i # 0
      <4>1. PICK k \in Nat : k = i - 1 /\ k + 1 = i
        BY <3>2
      <4> QED BY <1>2, <1>3, <3>2, <4>1
    <3> QED BY <3>1, <3>2
  <2> QED BY <1>3, <2>1
<1>5. E(p0)
  BY <1>4
<1> HIDE DEF p0
<1>6. \A i \in Nat : p0[i] = IF i = 0 THEN 1 ELSE b * p0[i - 1]
  BY <1>5
<1> HIDE DEF E
<1>7. p0[0] = 1
  BY <1>6
<1>8. ASSUME NEW k \in Nat PROVE p0[k + 1] = b * p0[k]
  <2>1. PICK i \in Nat : i = k + 1 /\ i # 0 /\ i - 1 = k
    OBVIOUS
  <2>2. p0[i] = b * p0[i - 1]
    BY <1>6, <2>1
  <2> QED BY <2>1, <2>2
<1> DEFINE S == {k \in Nat : p0[k] \in Nat}
<1>9. 0 \in S
  BY <1>7
<1>10. ASSUME NEW k \in Nat, k \in S PROVE k + 1 \in S
  BY <1>8, <1>10
<1>11. Nat \subseteq S
  <2> HIDE DEF S
  <2> QED BY <1>9, <1>10, SetInduction
<1> QED BY <1>1, <1>7, <1>8, <1>11

LEMMA PowerPositive ==
  ASSUME NEW b \in Nat \ {0}
  PROVE  \A k \in Nat : Power(b, k) \in Nat /\ Power(b, k) >= 1
<1> DEFINE S == {k \in Nat : Power(b, k) >= 1}
<1>1. 0 \in S
  BY PowerIs
<1>2. ASSUME NEW k \in Nat, k \in S PROVE k + 1 \in S
  <2>1. PICK x \in Nat : x = Power(b, k) /\ x >= 1
    BY <1>2, PowerIs
  <2>2. b * x >= 1
    BY <2>1
  <2>3. Power(b, k + 1) = b * x
    BY <2>1, PowerIs
  <2> QED BY <2>2, <2>3
<1>3. Nat \subseteq S
  <2> HIDE DEF S
  <2> QED BY <1>1, <1>2, SetInduction
<1> QED BY <1>3, PowerIs

\* Powers outgrow their exponents.
LEMMA PowerGrows ==
  ASSUME NEW b \in Nat \ {0, 1}
  PROVE  \A n \in Nat : n < Power(b, n)
<1> DEFINE S == {n \in Nat : n < Power(b, n)}
<1>1. 0 \in S
  BY PowerIs
<1>2. ASSUME NEW n \in Nat, n \in S PROVE n + 1 \in S
  <2>1. PICK x \in Nat : x = Power(b, n) /\ n < x
    BY <1>2, PowerIs
  <2>2. b * x >= 2 * x
    OBVIOUS
  <2>3. Power(b, n + 1) = b * x
    BY <2>1, PowerIs
  <2> QED BY <2>1, <2>2, <2>3
<1>3. Nat \subseteq S
  <2> HIDE DEF S
  <2> QED BY <1>1, <1>2, SetInduction
<1> QED BY <1>3

-----------------------------------------------------------------------------
(* Compact targets. *)

LEMMA Constants ==
  /\ Base \in Nat \ {0, 1} /\ Base >= 2 /\ Radix \in Nat \ {0} /\ Radix >= 1 /\ PowLimit \in Nat /\ AnchorTarget \in Nat
  /\ AnchorTarget >= 1 /\ AnchorTarget <= PowLimit /\ TargetSpacing \in Nat \ {0} /\ HalfLife \in Nat \ {0}
BY DifficultyAssumption

\* A number and its quotient.
LEMMA DivIs ==
  ASSUME NEW a \in Int, NEW b \in Nat, b >= 1
  PROVE  a \div b \in Int /\ (a \div b) * b <= a /\ a < (a \div b) * b + b
<1>1. a \div b \in Int /\ a % b \in 0..(b - 1) /\ a = b * (a \div b) + (a % b)
  OBVIOUS
<1> QED BY <1>1

LEMMA DivUnique ==
  ASSUME NEW a \in Int, NEW b \in Nat, b >= 1, NEW q \in Int, q * b <= a, a < q * b + b
  PROVE  a \div b = q
<1>1. PICK d \in Int : d = a \div b /\ d * b <= a /\ a < d * b + b
  BY DivIs
<1>2. ASSUME d < q PROVE FALSE
  <2>1. (d + 1) * b <= q * b
    BY <1>2
  <2> QED BY <1>1, <2>1
<1>3. ASSUME q < d PROVE FALSE
  <2>1. (q + 1) * b <= d * b
    BY <1>3
  <2> QED BY <1>1, <2>1
<1> QED BY <1>1, <1>2, <1>3

LEMMA DivMono ==
  ASSUME NEW a \in Int, NEW c \in Int, a <= c, NEW b \in Nat, b >= 1
  PROVE  a \div b <= c \div b
<1>1. PICK d \in Int : d = a \div b /\ d * b <= a /\ a < d * b + b
  BY DivIs
<1>2. PICK q \in Int : q = c \div b /\ q * b <= c /\ c < q * b + b
  BY DivIs
<1>3. ASSUME q < d PROVE FALSE
  <2>1. (q + 1) * b <= d * b
    BY <1>3
  <2> QED BY <1>1, <1>2, <2>1
<1> QED BY <1>1, <1>2, <1>3

LEMMA DivExact ==
  ASSUME NEW q \in Int, NEW b \in Nat, b >= 1
  PROVE  (q * b) \div b = q
BY DivUnique

LEMMA DivNat ==
  ASSUME NEW a \in Nat, NEW b \in Nat, b >= 1
  PROVE  a \div b \in Nat
<1>1. PICK d \in Int : d = a \div b /\ d * b <= a /\ a < d * b + b
  BY DivIs
<1>2. ASSUME d < 0 PROVE FALSE
  <2>1. (d + 1) * b <= 0
    BY <1>2
  <2> QED BY <1>1, <2>1
<1> QED BY <1>1, <1>2

LEMMA DivDiv ==
  ASSUME NEW a \in Int, NEW b \in Nat \ {0}, NEW c \in Nat \ {0}
  PROVE  (a \div b) \div c = a \div (b * c)
OBVIOUS

\* The byte length of a positive number.
LEMMA ByteLenIs ==
  ASSUME NEW n \in Nat, n >= 1
  PROVE  /\ ByteLen(n) \in Nat /\ ByteLen(n) >= 1
         /\ n < Power(Base, ByteLen(n)) /\ Power(Base, ByteLen(n) - 1) <= n
<1> DEFINE T == {k \in Nat : n < Power(Base, k)}
<1>1. n \in T
  BY PowerGrows, Constants
<1>2. PICK k \in T : \A j \in T : k <= j
  BY <1>1, LeastNat
<1>3. k \in 0..n /\ n < Power(Base, k)
  BY <1>1, <1>2
<1>4. Power(Base, 0) = 1
  BY PowerIs, Constants
<1>5. k # 0
  BY <1>3, <1>4
<1>6. k - 1 \in Nat /\ ~(k <= k - 1)
  BY <1>3, <1>5
<1>7. k - 1 \notin T
  BY <1>2, <1>6
<1>8. Power(Base, k - 1) <= n
  BY <1>6, <1>7, PowerIs, Constants
<1>9. \E l \in 0..n : n < Power(Base, l) /\ (l = 0 \/ Power(Base, l-1) <= n)
  BY <1>3, <1>8
<1>10. PICK len : len = ByteLen(n)
  OBVIOUS
<1>11. len \in 0..n /\ n < Power(Base, len) /\ (len = 0 \/ Power(Base, len-1) <= n)
  BY <1>9, <1>10 DEF ByteLen
<1>12. len # 0
  BY <1>4, <1>11
<1> QED BY <1>10, <1>11, <1>12

\* The sign bit and the place above it.
LEMMA SignIs ==
  /\ SignBit \in Nat /\ SignBit >= Base /\ SignBit \div Base \in Nat
  /\ (SignBit \div Base) * Base <= SignBit /\ SignBit \div Base <= Base * Base
<1>1. PICK B \in Nat : B = Base /\ B >= 2
  BY Constants
<1>2. Power(B, 0) = 1 /\ Power(B, 0 + 1) = B * Power(B, 0) /\ Power(B, 1 + 1) = B * Power(B, 1)
      /\ Power(B, 2 + 1) = B * Power(B, 2)
  BY PowerIs
<1>3. Power(B, 3) = B * (B * B)
  BY <1>2
<1>4. PICK sq \in Nat : sq = B * B /\ sq >= 2 * B
  BY <1>1
<1>5. PICK cube \in Nat : cube = B * sq /\ cube >= 2 * sq
  BY <1>1, <1>4
<1>6. PICK s : s = SignBit
  OBVIOUS
<1>7. s = cube \div 2
  BY <1>1, <1>3, <1>4, <1>5, <1>6 DEF SignBit
<1>8. s \in Nat /\ s * 2 <= cube /\ cube < s * 2 + 2
  BY <1>5, <1>7
<1>9. s >= B
  BY <1>1, <1>4, <1>5, <1>8
<1>10. PICK q \in Int : q = s \div B /\ q * B <= s /\ s < q * B + B
  BY <1>1, <1>8, DivIs
<1>11. q \in Nat
  BY <1>1, <1>8, <1>10, DivNat
<1>12. q <= sq
  <2>1. ASSUME sq < q PROVE FALSE
    <3>1. sq * B < q * B
      BY <1>1, <1>11, <2>1
    <3>2. sq * B = cube
      BY <1>4, <1>5
    <3> QED BY <1>5, <1>8, <1>10, <3>1, <3>2
  <2> QED BY <1>4, <1>11, <2>1
<1> QED BY <1>1, <1>4, <1>6, <1>8, <1>9, <1>10, <1>11, <1>12

\* What a target loses when its lowest places are cut off: less than one place, if the
\* number is at least the sign bit in units of that place.
LEMMA CutLoses ==
  ASSUME NEW n \in Nat, NEW unit \in Nat, unit >= 1, NEW places \in Nat, NEW q \in Nat,
         places >= 1, q <= places, places * unit <= n
  PROVE  /\ (n \div unit) * unit \in 1..n
         /\ (n - (n \div unit) * unit) * q <= n
<1>1. PICK d \in Int : d = n \div unit /\ d * unit <= n /\ n < d * unit + unit
  BY DivIs
<1>2. d \in Nat
  BY <1>1, DivNat
<1>3. d >= places
  <2>1. ASSUME d < places PROVE FALSE
    <3>1. (d + 1) * unit <= places * unit
      BY <1>2, <2>1
    <3> QED BY <1>1, <3>1
  <2> QED BY <1>2, <2>1
<1>4. PICK m \in Nat : m = d * unit
  BY <1>2
<1>5. m >= 1 /\ m <= n /\ n - m < unit /\ n - m \in Nat
  <2>1. d * unit >= 1
    BY <1>2, <1>3
  <2> QED BY <1>1, <1>4, <2>1
<1>6. (n - m) * q <= unit * places
  <2>1. (n - m) * q <= unit * q
    BY <1>5
  <2>2. unit * q <= unit * places
    OBVIOUS
  <2>3. (n - m) * q \in Nat /\ unit * q \in Nat /\ unit * places \in Nat
    BY <1>5
  <2> QED BY <2>1, <2>2, <2>3
<1>7. unit * places = places * unit
  OBVIOUS
<1> QED BY <1>1, <1>4, <1>5, <1>6, <1>7

\* Every positive number survives the compact form but for the mantissa's last place.
LEMMA CompactRounds ==
  ASSUME NEW n \in Nat, n >= 1
  PROVE  /\ CompactToBig(BigToCompact(n)) \in 1..n
         /\ (n - CompactToBig(BigToCompact(n))) * (SignBit \div Base) <= n
<1>1. PICK B \in Nat : B = Base /\ B >= 2
  BY Constants
<1>2. PICK len \in Nat : len = ByteLen(n) /\ len >= 1 /\ n < Power(B, len) /\ Power(B, len - 1) <= n
  BY <1>1, ByteLenIs
<1>3. PICK q \in Nat : q = SignBit \div B /\ q * B <= SignBit /\ q <= B * B /\ SignBit \in Nat /\ SignBit >= B
  BY <1>1, SignIs
<1>4. \A k \in Nat : Power(B, k) \in Nat /\ Power(B, k) >= 1 /\ Power(B, k + 1) = B * Power(B, k)
  <2>1. B \in Nat \ {0}
    BY <1>1
  <2>2. \A k \in Nat : Power(B, k) \in Nat /\ Power(B, k) >= 1
    BY <2>1, PowerPositive
  <2> QED BY <2>2, PowerIs
<1>5. Power(B, 0) = 1 /\ Power(B, 1) = B
  <2>1. Power(B, 0) = 1 /\ Power(B, 0 + 1) = B * Power(B, 0)
    BY PowerIs
  <2> QED BY <2>1
<1>6. PICK top : top = IF len <= 3 THEN n * Power(B, 3 - len) ELSE n \div Power(B, len - 3)
  OBVIOUS
<1>7. PICK c : c = BigToCompact(n)
  OBVIOUS
<1>8. c = IF top >= SignBit THEN [exponent |-> len + 1, mantissa |-> top \div B]
          ELSE [exponent |-> len, mantissa |-> top]
  BY <1>1, <1>2, <1>6, <1>7 DEF BigToCompact
<1>9. PICK d : d = CompactToBig(c)
  OBVIOUS
<1>10. d = IF c.exponent <= 3 THEN c.mantissa \div Power(B, 3 - c.exponent)
           ELSE c.mantissa * Power(B, c.exponent - 3)
  BY <1>1, <1>9 DEF CompactToBig
<1> SUFFICES d \in 1..n /\ (n - d) * q <= n
  BY <1>1, <1>3, <1>7, <1>9
<1>11. ASSUME d = n PROVE d \in 1..n /\ (n - d) * q <= n
  BY <1>11
<1>12. CASE len <= 3 /\ ~(top >= SignBit)
  <2>1. c.exponent = len /\ c.mantissa = top
    BY <1>8, <1>12
  <2>2. PICK p \in Nat : p = Power(B, 3 - len) /\ p >= 1
    BY <1>2, <1>4, <1>12
  <2>3. d = (n * p) \div p
    BY <1>6, <1>10, <1>12, <2>1, <2>2
  <2> QED BY <1>11, <2>2, <2>3, DivExact
<1>13. CASE len <= 2 /\ top >= SignBit
  <2>1. c.exponent = len + 1 /\ c.mantissa = top \div B
    BY <1>8, <1>13
  <2>2. PICK p \in Nat : p = Power(B, 3 - (len + 1)) /\ p >= 1 /\ Power(B, 3 - len) = B * p
    <3>1. PICK m \in Nat : m = 3 - (len + 1) /\ m + 1 = 3 - len
      BY <1>2, <1>13
    <3> QED BY <1>4, <3>1
  <2>3. top = n * (B * p)
    BY <1>6, <1>13, <2>2
  <2>4. n * (B * p) = (n * p) * B /\ n * p \in Nat
    BY <1>1, <2>2
  <2>5. top \div B = n * p
    BY <1>1, <2>3, <2>4, DivExact
  <2>6. d = (n * p) \div p
    BY <1>10, <1>13, <2>1, <2>2, <2>5
  <2> QED BY <1>11, <2>2, <2>6, DivExact
<1>14. CASE len = 3 /\ top >= SignBit
  <2>1. c.exponent = 4 /\ c.mantissa = top \div B
    BY <1>8, <1>14
  <2>2. top = n
    BY <1>5, <1>6, <1>14
  <2>3. d = (n \div B) * B
    BY <1>5, <1>10, <2>1, <2>2
  <2>4. PICK places \in Nat : places = SignBit \div B /\ places >= 1 /\ q <= places /\ places * B <= n
    <3>1. SignBit <= n
      BY <1>3, <1>14, <2>2
    <3>2. q >= 1
      <4>1. B \div B <= SignBit \div B
        BY <1>1, <1>3, DivMono
      <4>2. B \div B = 1
        BY <1>1, DivUnique
      <4> QED BY <1>3, <4>1, <4>2
    <3> QED BY <1>3, <3>1, <3>2
  <2> QED BY <1>1, <2>3, <2>4, CutLoses
<1>15. CASE len > 3
  <2>1. PICK p \in Nat : p = Power(B, len - 3) /\ p >= 1
    BY <1>2, <1>4, <1>15
  <2>2. top = n \div p /\ top \in Nat
    BY <1>6, <1>15, <2>1, DivNat
  <2>3. Power(B, len - 2) = B * p
    <3>1. PICK m \in Nat : m = len - 3 /\ m + 1 = len - 2
      BY <1>2, <1>15
    <3> QED BY <1>4, <2>1, <3>1
  <2>4. Power(B, len - 1) = B * (B * p)
    <3>1. PICK m \in Nat : m = len - 2 /\ m + 1 = len - 1
      BY <1>2, <1>15
    <3> QED BY <1>4, <2>3, <3>1
  <2>5. CASE ~(top >= SignBit)
    <3>1. c.exponent = len /\ c.mantissa = top
      BY <1>8, <2>5
    <3>2. d = (n \div p) * p
      BY <1>10, <1>15, <2>1, <2>2, <3>1
    <3>3. PICK places \in Nat : places = B * B
      BY <1>1
    <3>4. places >= 1 /\ q <= places /\ places * p <= n
      <4>1. places * p = B * (B * p)
        BY <1>1, <2>1, <3>3
      <4>2. places >= 1
        BY <1>1, <3>3
      <4> QED BY <1>2, <1>3, <2>4, <3>3, <4>1, <4>2
    <3> QED BY <2>1, <3>2, <3>4, CutLoses
  <2>6. CASE top >= SignBit
    <3>1. c.exponent = len + 1 /\ c.mantissa = top \div B
      BY <1>8, <2>6
    <3>2. PICK unit \in Nat : unit = B * p /\ unit >= 1 /\ unit = p * B
      BY <1>1, <2>1
    <3>3. PICK t \in Nat : t = top \div B
      BY <1>1, <2>2, DivNat
    <3>4. d = t * unit
      <4>1. (len + 1) - 3 = len - 2 /\ ~(len + 1 <= 3)
        BY <1>2, <1>15
      <4> QED BY <1>10, <2>3, <3>1, <3>2, <3>3, <4>1
    <3>5. t = n \div unit
      BY <1>1, <2>1, <2>2, <3>2, <3>3, DivDiv
    <3>6. q >= 1
      <4>1. B \div B <= SignBit \div B
        BY <1>1, <1>3, DivMono
      <4>2. B \div B = 1
        BY <1>1, DivUnique
      <4> QED BY <1>3, <4>1, <4>2
    <3>7. q * unit <= n
      <4>1. q * unit = (q * B) * p
        BY <1>1, <2>1, <3>2
      <4>2. (q * B) * p <= top * p
        BY <1>1, <1>3, <2>1, <2>2, <2>6
      <4>3. top * p <= n
        <5>1. \A x \in Nat : x >= 1 => (n \div x) * x <= n
          BY DivIs
        <5> QED BY <2>1, <2>2, <5>1
      <4>4. q * unit \in Nat /\ top * p \in Nat
        BY <2>1, <2>2, <3>2
      <4> QED BY <4>1, <4>2, <4>3, <4>4
    <3>8. d = (n \div unit) * unit
      BY <3>4, <3>5
    <3>9. (n \div unit) * unit \in 1..n /\ (n - (n \div unit) * unit) * q <= n
      <4>1. PICK places \in Nat : places = q /\ places >= 1 /\ q <= places /\ places * unit <= n
        BY <3>6, <3>7
      <4> QED BY <3>2, <4>1, CutLoses
    <3> QED BY <3>8, <3>9
  <2> QED BY <2>5, <2>6
<1> QED BY <1>2, <1>12, <1>13, <1>14, <1>15

-----------------------------------------------------------------------------
(* ASERT. *)

LEMMA QuoIs ==
  ASSUME NEW a \in Int, NEW b \in Nat, b >= 1
  PROVE  Quo(a, b) \in Int
<1>1. a >= 0 => a \div b \in Int
  OBVIOUS
<1>2. a < 0 => (-a) \div b \in Int
  OBVIOUS
<1> QED BY <1>1, <1>2 DEF Quo

\* Division towards zero keeps the order.
LEMMA QuoMono ==
  ASSUME NEW a \in Int, NEW c \in Int, a <= c, NEW b \in Nat, b >= 1
  PROVE  Quo(a, b) <= Quo(c, b)
<1>1. CASE a >= 0
  BY <1>1, DivMono DEF Quo
<1>2. CASE c < 0
  <2>1. (-c) \div b <= (-a) \div b
    BY <1>2, DivMono
  <2>2. (-c) \div b \in Int /\ (-a) \div b \in Int
    OBVIOUS
  <2>3. Quo(a, b) = -((-a) \div b) /\ Quo(c, b) = -((-c) \div b)
    BY <1>2 DEF Quo
  <2> QED BY <2>1, <2>2, <2>3
<1>3. CASE a < 0 /\ c >= 0
  <2>1. (-a) \div b \in Nat /\ c \div b \in Nat
    BY <1>3, DivNat
  <2>2. Quo(a, b) = -((-a) \div b) /\ Quo(c, b) = c \div b
    BY <1>3 DEF Quo
  <2> QED BY <2>1, <2>2
<1> QED BY <1>1, <1>2, <1>3

\* Where the code corrects the division below zero it is the division that rounds down.
Rest(e, r) == e - Quo(e, r) * r
Frac(e, r) == IF Rest(e, r) < 0 THEN Rest(e, r) + r ELSE Rest(e, r)
Shifts(e, r) == IF Rest(e, r) < 0 THEN Quo(e, r) - 1 ELSE Quo(e, r)

LEMMA SplitIs ==
  ASSUME NEW e \in Int, NEW r \in Nat, r >= 1
  PROVE  /\ Shifts(e, r) \in Int /\ Frac(e, r) \in Nat /\ Frac(e, r) < r
         /\ e = Shifts(e, r) * r + Frac(e, r)
<1>0. PICK whole : whole = Quo(e, r)
  OBVIOUS
<1> DEFINE rest == Rest(e, r)
           frac == Frac(e, r)
           shifts == Shifts(e, r)
<1>1. rest = e - whole * r
  BY <1>0 DEF Rest
<1>2. frac = IF rest < 0 THEN rest + r ELSE rest
  BY DEF Frac
<1>3. shifts = IF rest < 0 THEN whole - 1 ELSE whole
  BY <1>0 DEF Shifts
<1> HIDE DEF rest, frac, shifts
<1> SUFFICES shifts \in Int /\ frac \in Nat /\ frac < r /\ e = shifts * r + frac
  BY DEF frac, shifts
<1>4. CASE e >= 0
  <2>1. PICK q \in Int : q = e \div r /\ q * r <= e /\ e < q * r + r
    BY DivIs
  <2>2. whole = q
    BY <1>0, <1>4, <2>1 DEF Quo
  <2>3. rest \in Int /\ rest >= 0 /\ rest < r /\ e = whole * r + rest
    BY <1>1, <2>1, <2>2
  <2>4. frac = rest /\ shifts = whole
    BY <1>2, <1>3, <2>3
  <2> QED BY <2>1, <2>2, <2>3, <2>4
<1>5. CASE e < 0
  <2>1. PICK q \in Int : q = (-e) \div r /\ q * r <= -e /\ -e < q * r + r
    <3>1. -e \in Int
      OBVIOUS
    <3> QED BY <3>1, DivIs
  <2>2. whole = -q
    BY <1>0, <1>5, <2>1 DEF Quo
  <2>3. PICK m \in Int : m = q * r
    OBVIOUS
  <2>4. whole * r = -m
    BY <2>2, <2>3
  <2>5. rest = e + m /\ rest \in Int /\ rest <= 0 /\ rest > -r
    BY <1>1, <2>1, <2>3, <2>4
  <2>6. CASE rest < 0
    <3>1. frac = rest + r /\ shifts = -q - 1
      BY <1>2, <1>3, <2>2, <2>6
    <3>2. shifts * r = -m - r
      BY <2>3, <3>1
    <3> QED BY <2>5, <2>6, <3>1, <3>2
  <2>7. CASE ~(rest < 0)
    <3>1. frac = rest /\ shifts = whole
      BY <1>2, <1>3, <2>7
    <3> QED BY <2>2, <2>4, <2>5, <2>7, <3>1
  <2> QED BY <2>6, <2>7
<1> QED BY <1>4, <1>5

\* The polynomial is one at the beginning of a half-life, two at its end, and grows between.
LEMMA FactorIs ==
  ASSUME NEW f \in Nat, f <= Radix
  PROVE  /\ AsertFactor(f) \in Nat /\ Radix <= AsertFactor(f) /\ AsertFactor(f) <= 2 * Radix
         /\ f = 0 => AsertFactor(f) = Radix
         /\ \A g \in Nat : f <= g /\ g <= Radix => AsertFactor(f) <= AsertFactor(g)
<1>1. PICK R \in Nat : R = Radix /\ R >= 1
  BY Constants
<1>2. PICK sq \in Nat : sq = R * R /\ sq >= 1
  BY <1>1
<1> DEFINE Poly(x) == 6955 * x * R * R + 2263 * x * x * R + 782 * x * x * x + 5000 * R * R
<1>3. \A x : AsertFactor(x) = R + Poly(x) \div (10000 * R * R)
  BY <1>1 DEF AsertFactor
<1>4. PICK unit \in Nat : unit = 10000 * R * R /\ unit = 10000 * sq /\ unit >= 1
  BY <1>2
<1>5. ASSUME NEW x \in Nat PROVE Poly(x) \in Nat
  OBVIOUS
<1>6. ASSUME NEW x \in Nat, NEW y \in Nat, x <= y PROVE Poly(x) <= Poly(y)
  <2>1. PICK x2 \in Nat : x2 = x * x
    OBVIOUS
  <2>2. PICK y2 \in Nat : y2 = y * y
    OBVIOUS
  <2>3. x2 <= y2
    <3>1. x * x <= y * x /\ y * x <= y * y
      BY <1>6
    <3> QED BY <2>1, <2>2, <3>1
  <2>4. PICK x3 \in Nat : x3 = x2 * x
    OBVIOUS
  <2>5. PICK y3 \in Nat : y3 = y2 * y
    OBVIOUS
  <2>6. x3 <= y3
    <3>1. x2 * x <= y2 * x /\ y2 * x <= y2 * y
      BY <1>6, <2>3
    <3> QED BY <2>4, <2>5, <3>1
  <2>7. x * sq <= y * sq /\ x2 * R <= y2 * R
    BY <1>6, <2>3
  <2>8. /\ Poly(x) = 6955 * (x * sq) + 2263 * (x2 * R) + 782 * x3 + 5000 * sq
        /\ Poly(y) = 6955 * (y * sq) + 2263 * (y2 * R) + 782 * y3 + 5000 * sq
    BY <1>2, <2>1, <2>2, <2>4, <2>5
  <2> HIDE DEF Poly
  <2> QED BY <2>6, <2>7, <2>8
<1>7. Poly(0) \div unit = 0
  <2>1. Poly(0) = 5000 * sq
    BY <1>2
  <2> HIDE DEF Poly
  <2> QED BY <1>2, <1>4, <2>1, DivUnique
<1>8. Poly(R) \div unit = R
  <2>1. PICK cube \in Nat : cube = R * sq
    OBVIOUS
  <2>2. Poly(R) = 10000 * cube + 5000 * sq
    BY <1>2, <2>1
  <2>3. R * unit = 10000 * cube
    BY <1>4, <2>1
  <2> HIDE DEF Poly
  <2> QED BY <1>2, <1>4, <2>2, <2>3, DivUnique
<1> HIDE DEF Poly
<1>9. ASSUME NEW x \in Nat, NEW y \in Nat, x <= y PROVE Poly(x) \div unit <= Poly(y) \div unit
  BY <1>4, <1>5, <1>6, <1>9, DivMono
<1>10. ASSUME NEW x \in Nat PROVE Poly(x) \div unit \in Nat
  BY <1>4, <1>5, DivNat
<1>11. \A x : AsertFactor(x) = R + Poly(x) \div unit
  BY <1>3, <1>4
<1>12. Poly(f) \div unit \in Nat /\ 0 <= Poly(f) \div unit /\ Poly(f) \div unit <= R
  BY <1>1, <1>8, <1>9, <1>10
<1>13. ASSUME NEW g \in Nat, f <= g, g <= Radix PROVE AsertFactor(f) <= AsertFactor(g)
  BY <1>9, <1>10, <1>11, <1>13
<1>14. f = 0 => AsertFactor(f) = Radix
  BY <1>1, <1>7, <1>11
<1>15. AsertFactor(f) \in Nat /\ Radix <= AsertFactor(f) /\ AsertFactor(f) <= 2 * Radix
  BY <1>1, <1>11, <1>12
<1> QED BY <1>13, <1>14, <1>15

\* x times two to the power of s, rounded down.
Scale(x, s) == IF s < 0 THEN x \div Power(2, -s) ELSE x * Power(2, s)

LEMMA TwoPower ==
  \A k \in Nat : Power(2, k) \in Nat /\ Power(2, k) >= 1 /\ Power(2, k + 1) = 2 * Power(2, k)
<1>1. 2 \in Nat \ {0} /\ 2 \in Nat
  OBVIOUS
<1> QED BY <1>1, PowerIs, PowerPositive

LEMMA ScaleMono ==
  ASSUME NEW x \in Nat, NEW y \in Nat, x <= y, NEW s \in Int
  PROVE  Scale(x, s) \in Nat /\ Scale(x, s) <= Scale(y, s)
<1>1. CASE s < 0
  <2>1. -s \in Nat
    BY <1>1
  <2>2. PICK p \in Nat : p = Power(2, -s) /\ p >= 1
    BY <2>1, TwoPower
  <2>3. x \div p \in Nat /\ x \div p <= y \div p
    BY <2>2, DivMono, DivNat
  <2> QED BY <1>1, <2>2, <2>3 DEF Scale
<1>2. CASE ~(s < 0)
  <2>1. PICK p \in Nat : p = Power(2, s) /\ p >= 1
    BY <1>2, TwoPower
  <2>2. x * p \in Nat /\ x * p <= y * p
    OBVIOUS
  <2> QED BY <1>2, <2>1, <2>2 DEF Scale
<1> QED BY <1>1, <1>2

LEMMA ScaleNat == \A x \in Nat, s \in Int : Scale(x, s) \in Nat
<1> SUFFICES ASSUME NEW x \in Nat, NEW s \in Int PROVE Scale(x, s) \in Nat
  OBVIOUS
<1>1. x <= x
  OBVIOUS
<1> QED BY <1>1, ScaleMono

LEMMA ScaleDouble ==
  ASSUME NEW x \in Nat, NEW s \in Int
  PROVE  Scale(2 * x, s) = Scale(x, s + 1)
<1>1. CASE s >= 0
  <2>1. PICK p \in Nat : p = Power(2, s) /\ Power(2, s + 1) = 2 * p
    BY <1>1, TwoPower
  <2>2. Scale(2 * x, s) = (2 * x) * p /\ Scale(x, s + 1) = x * (2 * p)
    BY <1>1, <2>1 DEF Scale
  <2>3. (2 * x) * p = x * (2 * p)
    OBVIOUS
  <2> QED BY <2>2, <2>3
<1>2. CASE s + 1 = 0
  <2>1. Power(2, 0) = 1 /\ Power(2, 1) = 2
    <3>1. 2 \in Nat
      OBVIOUS
    <3>2. Power(2, 0) = 1 /\ Power(2, 0 + 1) = 2 * Power(2, 0)
      BY <3>1, PowerIs
    <3> QED BY <3>2
  <2>2. Scale(2 * x, s) = (2 * x) \div 2 /\ Scale(x, s + 1) = x * 1
    <3>1. s < 0 /\ -s = 1 /\ s + 1 = 0
      BY <1>2
    <3> QED BY <2>1, <3>1 DEF Scale
  <2> QED BY <2>2
<1>3. CASE s + 1 < 0
  <2>1. PICK k \in Nat : k = -(s + 1) /\ k + 1 = -s
    BY <1>3
  <2>2. PICK p \in Nat : p = Power(2, k) /\ p >= 1 /\ Power(2, k + 1) = 2 * p
    BY TwoPower
  <2>3. Scale(2 * x, s) = (2 * x) \div (2 * p) /\ Scale(x, s + 1) = x \div p
    BY <1>3, <2>1, <2>2 DEF Scale
  <2>4. (2 * x) \div (2 * p) = ((2 * x) \div 2) \div p
    BY <2>2, DivDiv
  <2>5. (2 * x) \div 2 = x
    OBVIOUS
  <2> QED BY <2>3, <2>4, <2>5
<1> QED BY <1>1, <1>2, <1>3

LEMMA ScaleGrows ==
  ASSUME NEW x \in Nat, NEW s \in Int, NEW u \in Int, s <= u
  PROVE  Scale(x, s) <= Scale(x, u)
<1> DEFINE S == {d \in Nat : Scale(x, s) <= Scale(x, s + d)}
<1>1. 0 \in S
  <2>1. Scale(x, s) \in Nat
    BY ScaleMono
  <2> QED BY <2>1
<1>2. ASSUME NEW d \in Nat, d \in S PROVE d + 1 \in S
  <2>1. PICK v \in Int : v = s + d /\ v + 1 = s + (d + 1)
    OBVIOUS
  <2>2. PICK z \in Nat : z = 2 * x /\ x <= z
    OBVIOUS
  <2>3. Scale(x, v) <= Scale(z, v) /\ Scale(x, v) \in Nat /\ Scale(z, v) \in Nat /\ Scale(x, s) \in Nat
    BY <2>2, ScaleMono, ScaleNat
  <2>4. Scale(z, v) = Scale(x, v + 1)
    BY <2>2, ScaleDouble
  <2>5. Scale(x, s) <= Scale(x, v)
    BY <1>2, <2>1
  <2>6. Scale(x, s) <= Scale(x, v + 1)
    BY <2>3, <2>4, <2>5
  <2> QED BY <2>1, <2>6
<1>3. Nat \subseteq S
  <2> HIDE DEF S
  <2> QED BY <1>1, <1>2, SetInduction
<1>4. u - s \in Nat /\ s + (u - s) = u
  OBVIOUS
<1> QED BY <1>3, <1>4

\* The target of an exponent.
Reached(s, frac) == Scale((AnchorTarget * AsertFactor(frac)) \div Radix, s)

LEMMA NextIs ==
  ASSUME NEW f \in Nat, f < Radix
  PROVE  /\ (AnchorTarget * AsertFactor(f)) \div Radix \in Nat
         /\ AnchorTarget <= (AnchorTarget * AsertFactor(f)) \div Radix
         /\ (AnchorTarget * AsertFactor(f)) \div Radix <= 2 * AnchorTarget
         /\ f = 0 => (AnchorTarget * AsertFactor(f)) \div Radix = AnchorTarget
         /\ \A g \in Nat : f <= g /\ g < Radix =>
              (AnchorTarget * AsertFactor(f)) \div Radix <= (AnchorTarget * AsertFactor(g)) \div Radix
<1>1. PICK R \in Nat : R = Radix /\ R >= 1
  BY Constants
<1>2. PICK A \in Nat : A = AnchorTarget /\ A >= 1
  BY Constants
<1>3. f <= Radix
  BY <1>1
<1>4. PICK x \in Nat : x = AsertFactor(f) /\ R <= x /\ x <= 2 * R
  BY <1>1, <1>3, FactorIs
<1>5. A * x \in Nat /\ A * R <= A * x /\ A * x <= (2 * A) * R
  <2>1. A * R <= A * x
    BY <1>4
  <2>2. A * x <= A * (2 * R)
    BY <1>4
  <2>3. A * (2 * R) = (2 * A) * R
    OBVIOUS
  <2> QED BY <2>1, <2>2, <2>3
<1>6. (A * R) \div R = A /\ ((2 * A) * R) \div R = 2 * A
  BY <1>1, DivExact
<1>7. (A * R) \div R <= (A * x) \div R /\ (A * x) \div R <= ((2 * A) * R) \div R /\ (A * x) \div R \in Nat
  BY <1>1, <1>5, DivMono, DivNat
<1>8. f = 0 => x = R
  BY <1>1, <1>3, <1>4, FactorIs
<1>9. ASSUME NEW g \in Nat, f <= g, g < Radix PROVE (A * x) \div R <= (A * AsertFactor(g)) \div R
  <2>1. g <= Radix
    BY <1>1, <1>9
  <2>2. PICK y \in Nat : y = AsertFactor(g) /\ x <= y
    BY <1>3, <1>4, <1>9, <2>1, FactorIs
  <2>3. A * x <= A * y /\ A * x \in Nat /\ A * y \in Nat
    BY <2>2
  <2> QED BY <1>1, <2>2, <2>3, DivMono
<1> QED BY <1>1, <1>2, <1>4, <1>6, <1>7, <1>8, <1>9

\* A later exponent has a target that is not smaller.
LEMMA ReachedMono ==
  ASSUME NEW s \in Int, NEW u \in Int, NEW f \in Nat, NEW g \in Nat, f < Radix, g < Radix,
         s * Radix + f <= u * Radix + g
  PROVE  Reached(s, f) <= Reached(u, g)
<1>1. PICK R \in Nat : R = Radix /\ R >= 1
  BY Constants
<1>2. s <= u
  <2>1. ASSUME u < s PROVE FALSE
    <3>1. (u + 1) * R <= s * R
      BY <1>1, <2>1
    <3> QED BY <1>1, <3>1
  <2> QED BY <2>1
<1>3. PICK x \in Nat : x = (AnchorTarget * AsertFactor(f)) \div Radix
  BY NextIs
<1>4. PICK y \in Nat : y = (AnchorTarget * AsertFactor(g)) \div Radix
  BY NextIs
<1>5. CASE s = u
  <2>1. f <= g
    BY <1>1, <1>5
  <2>2. x <= y
    BY <1>3, <1>4, <2>1, NextIs
  <2> QED BY <1>3, <1>4, <1>5, <2>2, ScaleMono DEF Reached
<1>6. CASE s < u
  <2>1. PICK A \in Nat : A = AnchorTarget
    BY Constants
  <2>2. PICK z \in Nat : z = 2 * A
    OBVIOUS
  <2>3. x <= z
    BY <1>3, <2>1, <2>2, NextIs
  <2>4. A <= y
    BY <1>4, <2>1, NextIs
  <2>5. Scale(x, s) <= Scale(z, s) /\ Scale(x, s) \in Nat /\ Scale(z, s) \in Nat
    BY <2>3, ScaleMono, ScaleNat
  <2>6. Scale(z, s) = Scale(A, s + 1)
    BY <2>2, ScaleDouble
  <2>7. s + 1 \in Int /\ s + 1 <= u
    BY <1>6
  <2>8. Scale(A, s + 1) <= Scale(A, u)
    BY <2>7, ScaleGrows
  <2>9. Scale(A, u) <= Scale(y, u) /\ Scale(A, u) \in Nat /\ Scale(y, u) \in Nat
    BY <2>4, ScaleMono, ScaleNat
  <2> QED BY <1>3, <1>4, <2>5, <2>6, <2>8, <2>9 DEF Reached
<1> QED BY <1>2, <1>5, <1>6

\* The exponent of a block time, in units of a half-life over Radix.
Exponent(late) == Quo(late * Radix, HalfLife)

Lands(late, target) ==
  \E s \in Int, f \in Nat : f < Radix /\ Exponent(late) = s * Radix + f /\ target = Reached(s, f)

LEMMA TargetIs ==
  ASSUME NEW t \in Int, NEW h \in Int, NEW late, late = t - (h - 1) * TargetSpacing
  PROVE  late \in Int /\ Lands(late, CalcAsertTarget(t, h)) /\ CalcAsertTarget(t, h) \in Nat
<1>1. PICK R \in Nat : R = Radix /\ R >= 1
  BY Constants
<1>2. PICK H \in Nat : H = HalfLife /\ H >= 1
  BY Constants
<1>3. late \in Int /\ late * R \in Int
  BY <1>1, Constants
<1>4. PICK e \in Int : e = Exponent(late)
  BY <1>1, <1>2, <1>3, QuoIs DEF Exponent
<1>5. PICK frac : frac = Frac(e, R)
  OBVIOUS
<1>6. PICK shifts : shifts = Shifts(e, R)
  OBVIOUS
<1>7. shifts \in Int /\ frac \in Nat /\ frac < R /\ e = shifts * R + frac
  BY <1>1, <1>5, <1>6, SplitIs
<1>8. PICK next : next = (AnchorTarget * AsertFactor(frac)) \div R
  OBVIOUS
<1>9. CalcAsertTarget(t, h) = Scale(next, shifts)
  BY <1>1, <1>4, <1>5, <1>6, <1>8 DEF CalcAsertTarget, Scale, Exponent, Frac, Shifts, Rest
<1>10. CalcAsertTarget(t, h) = Reached(shifts, frac)
  BY <1>1, <1>8, <1>9 DEF Reached
<1>11. next \in Nat
  BY <1>1, <1>7, <1>8, NextIs
<1>12. CalcAsertTarget(t, h) \in Nat
  BY <1>7, <1>9, <1>11, ScaleMono
<1>13. Lands(late, CalcAsertTarget(t, h))
  BY <1>1, <1>4, <1>7, <1>10 DEF Lands
<1> QED BY <1>3, <1>12, <1>13

\* The later the chain, the easier the next block.
LEMMA TargetMono ==
  ASSUME NEW t \in Int, NEW h \in Int, NEW t2 \in Int, NEW h2 \in Int,
         t - (h - 1) * TargetSpacing <= t2 - (h2 - 1) * TargetSpacing
  PROVE  CalcAsertTarget(t, h) <= CalcAsertTarget(t2, h2)
<1>1. PICK a : a = t - (h - 1) * TargetSpacing
  OBVIOUS
<1>2. PICK b : b = t2 - (h2 - 1) * TargetSpacing
  OBVIOUS
<1>3. a \in Int /\ b \in Int /\ a <= b
  BY <1>1, <1>2, TargetIs
<1>4. PICK s \in Int, f \in Nat : /\ f < Radix /\ Exponent(a) = s * Radix + f
                                  /\ CalcAsertTarget(t, h) = Reached(s, f)
  <2>1. Lands(a, CalcAsertTarget(t, h))
    BY <1>1, TargetIs
  <2> QED BY <2>1 DEF Lands
<1>5. PICK u \in Int, g \in Nat : /\ g < Radix /\ Exponent(b) = u * Radix + g
                                  /\ CalcAsertTarget(t2, h2) = Reached(u, g)
  <2>1. Lands(b, CalcAsertTarget(t2, h2))
    BY <1>2, TargetIs
  <2> QED BY <2>1 DEF Lands
<1>6. Exponent(a) <= Exponent(b)
  <2>1. PICK R \in Nat : R = Radix /\ R >= 1
    BY Constants
  <2>2. PICK H \in Nat : H = HalfLife /\ H >= 1
    BY Constants
  <2>3. a * R \in Int /\ b * R \in Int /\ a * R <= b * R
    BY <1>3
  <2> QED BY <2>1, <2>2, <2>3, QuoMono DEF Exponent
<1> QED BY <1>4, <1>5, <1>6, ReachedMono

\* A whole number of half-lives doubles or halves.
LEMMA TargetExact ==
  ASSUME NEW t \in Int, NEW h \in Int, NEW late, late = t - (h - 1) * TargetSpacing,
         late % HalfLife = 0
  PROVE  CalcAsertTarget(t, h) = IF late >= 0 THEN AnchorTarget * Power(2, late \div HalfLife)
                                 ELSE AnchorTarget \div Power(2, (-late) \div HalfLife)
<1>1. PICK R \in Nat : R = Radix /\ R >= 1
  BY Constants
<1>2. PICK H \in Nat : H = HalfLife /\ H >= 1
  BY Constants
<1>3. late \in Int
  BY TargetIs
<1>4. PICK q \in Int : q = late \div H /\ late = q * H
  <2>1. late \div H \in Int /\ late = H * (late \div H) + (late % H)
    <3>1. \A a \in Int : a \div H \in Int /\ a = H * (a \div H) + (a % H)
      BY <1>2
    <3> QED BY <1>3, <3>1
  <2>2. late % H = 0
    BY <1>2
  <2> QED BY <2>1, <2>2
<1>5. late >= 0 <=> q >= 0
  <2>1. q >= 0 => q * H >= 0
    BY <1>2
  <2>2. q < 0 => q * H < 0
    BY <1>2
  <2> QED BY <1>4, <2>1, <2>2
<1>6. (-late) \div H = -q
  <2>1. -late = (-q) * H
    BY <1>4
  <2> QED BY <1>2, <2>1, DivExact
<1>7. Exponent(late) = q * R
  <2>1. late * R = (q * R) * H /\ q * R \in Int
    BY <1>4
  <2>2. CASE late * R >= 0
    BY <1>1, <1>2, <2>1, <2>2, DivExact DEF Exponent, Quo
  <2>3. CASE ~(late * R >= 0)
    <3>1. -(late * R) = (-(q * R)) * H
      BY <2>1
    <3>2. (-(late * R)) \div H = -(q * R)
      BY <1>2, <2>1, <3>1, DivExact
    <3>3. Exponent(late) = -((-(late * R)) \div H)
      BY <1>1, <1>2, <2>3 DEF Exponent, Quo
    <3> QED BY <2>1, <3>2, <3>3
  <2> QED BY <2>2, <2>3
<1>8. PICK s \in Int, f \in Nat : /\ f < R /\ Exponent(late) = s * R + f
                                  /\ CalcAsertTarget(t, h) = Reached(s, f)
  <2>1. Lands(late, CalcAsertTarget(t, h))
    BY TargetIs
  <2> QED BY <1>1, <2>1 DEF Lands
<1>9. s = q /\ f = 0
  <2>1. q * R = s * R + f
    BY <1>7, <1>8
  <2>2. ASSUME s < q PROVE FALSE
    <3>1. (s + 1) * R <= q * R
      BY <2>2
    <3> QED BY <1>8, <2>1, <3>1
  <2>3. ASSUME q < s PROVE FALSE
    <3>1. (q + 1) * R <= s * R
      BY <2>3
    <3> QED BY <1>1, <1>8, <2>1, <3>1
  <2>4. s = q
    BY <2>2, <2>3
  <2> QED BY <2>1, <2>4
<1>10. (AnchorTarget * AsertFactor(f)) \div Radix = AnchorTarget
  BY <1>1, <1>8, <1>9, NextIs
<1>11. CalcAsertTarget(t, h) = Scale(AnchorTarget, q)
  BY <1>8, <1>9, <1>10 DEF Reached
<1> QED BY <1>2, <1>4, <1>5, <1>6, <1>11 DEF Scale

-----------------------------------------------------------------------------
(* What a node asks of the next blocks. *)

LEMMA HeightIs ==
  ASSUME TypeOK
  PROVE  Len(chain) \in 0..MaxBlocks /\ Len(chain) + 2 \in 2..(MaxBlocks + 2)
<1>1. Len(chain) \in Nat /\ Len(chain) <= MaxBlocks /\ MaxBlocks \in Nat
  BY Numbers, LenProperties DEF TypeOK
<1> QED BY <1>1

LEMMA AsertFits ==
  ASSUME NEW h \in 2..(MaxBlocks + 2)
  PROVE  AsertAt[h]
<1>1. h \in Int /\ h + 1 \in Int /\ TargetSpacing \in Nat /\ TargetSpacing >= 1
  BY Numbers
<1>2. ASSUME NEW t \in TimeRange
      PROVE  LET late == t - (h - 1) * TargetSpacing IN
             /\ CalcAsertTarget(t, h) <= CalcAsertTarget(t + 1, h)
             /\ CalcAsertTarget(t, h + 1) <= CalcAsertTarget(t, h)
             /\ late % HalfLife = 0 =>
                  CalcAsertTarget(t, h) = IF late >= 0 THEN AnchorTarget * Power(2, late \div HalfLife)
                                          ELSE AnchorTarget \div Power(2, (-late) \div HalfLife)
  <2>1. t \in Int /\ t + 1 \in Int
    BY Constants DEF TimeRange
  <2>2. PICK p \in Int : p = (h - 1) * TargetSpacing
    BY <1>1
  <2>3. ((h + 1) - 1) * TargetSpacing = p + TargetSpacing
    BY <1>1, <2>2
  <2>4. CalcAsertTarget(t, h) <= CalcAsertTarget(t + 1, h)
    <3>1. t - (h - 1) * TargetSpacing <= (t + 1) - (h - 1) * TargetSpacing
      BY <2>1, <2>2
    <3> QED BY <1>1, <2>1, <3>1, TargetMono
  <2>5. CalcAsertTarget(t, h + 1) <= CalcAsertTarget(t, h)
    <3>1. t - ((h + 1) - 1) * TargetSpacing <= t - (h - 1) * TargetSpacing
      BY <1>1, <2>1, <2>2, <2>3
    <3> QED BY <1>1, <2>1, <3>1, TargetMono
  <2>6. PICK late : late = t - (h - 1) * TargetSpacing
    OBVIOUS
  <2>7. late % HalfLife = 0 =>
           CalcAsertTarget(t, h) = IF late >= 0 THEN AnchorTarget * Power(2, late \div HalfLife)
                                   ELSE AnchorTarget \div Power(2, (-late) \div HalfLife)
    BY <1>1, <2>1, <2>6, TargetExact
  <2> QED BY <2>4, <2>5, <2>6, <2>7
<1> QED BY <1>2 DEF AsertAt

LEMMA BitsFit ==
  ASSUME NEW h \in 2..(MaxBlocks + 2)
  PROVE  BitsAt[h]
<1>1. h \in Int /\ ~(h <= 1)
  BY Numbers
<1>2. ASSUME NEW t \in TimeRange
      PROVE  LET target == LesserOf(CalcAsertTarget(t, h), PowLimit)
                 decoded == CompactToBig(CalcAsertNextBits(t, h))
             IN target > 0 => /\ TargetUsable(CalcAsertNextBits(t, h))
                              /\ decoded <= target
                              /\ (target - decoded) * (SignBit \div Base) <= target
  <2>1. t \in Int
    BY Constants DEF TimeRange
  <2>2. PICK a \in Nat : a = CalcAsertTarget(t, h)
    BY <1>1, <2>1, TargetIs
  <2>3. PICK p \in Nat : p = PowLimit
    BY Constants
  <2>4. PICK target \in Nat : target = LesserOf(a, p) /\ target <= p /\ target = IF a > p THEN p ELSE a
    BY DEF LesserOf
  <2>5. PICK bits : bits = CalcAsertNextBits(t, h)
    OBVIOUS
  <2>6. PICK decoded : decoded = CompactToBig(bits)
    OBVIOUS
  <2>7. ASSUME target > 0
        PROVE  /\ TargetUsable(bits) /\ decoded <= target
               /\ (target - decoded) * (SignBit \div Base) <= target
    <3>1. ~(a <= 0)
      BY <2>4, <2>7
    <3>2. bits = BigToCompact(target)
      BY <1>1, <2>2, <2>3, <2>4, <2>5, <3>1 DEF CalcAsertNextBits
    <3>3. decoded \in 1..target /\ (target - decoded) * (SignBit \div Base) <= target
      BY <2>6, <2>7, <3>2, CompactRounds
    <3>4. decoded \in 1..p
      BY <2>4, <3>3
    <3> QED BY <2>3, <2>6, <3>3, <3>4 DEF TargetUsable
  <2> QED BY <2>2, <2>3, <2>4, <2>5, <2>6, <2>7
<1> QED BY <1>2 DEF BitsAt

-----------------------------------------------------------------------------
(* Subsidy. *)

LEMMA FoldIs ==
  ASSUME NEW S
  PROVE  MapThenSumSet(Coinbase, S) =
           (CHOOSE it : it = [s \in SUBSET S |->
              IF s = {} THEN 0 ELSE Coinbase(CHOOSE x \in s : TRUE) + it[s \ {CHOOSE x \in s : TRUE}]])[S]
BY DEF MapThenSumSet, MapThenFoldSet

\* Reduced is a recursion with a solution, and its values are numbers.
LEMMA ReducedIs ==
  /\ Reduced \in [Nat -> Nat] /\ Reduced[0] = BaseSubsidy
  /\ \A k \in Nat : Reduced[k + 1] = (Reduced[k] * MulSubsidy) \div DivSubsidy
<1>1. PICK B \in Nat : B = BaseSubsidy
  BY DifficultyAssumption
<1>2. PICK M \in Nat : M = MulSubsidy
  BY DifficultyAssumption
<1>3. PICK D \in Nat : D = DivSubsidy /\ D >= 1
  BY DifficultyAssumption
<1> DEFINE E(p) == p = [i \in Nat |-> IF i = 0 THEN B ELSE (p[i-1] * M) \div D]
           p0 == CHOOSE p : E(p)
           next == [w \in Nat \X Nat |-> (w[2] * M) \div D]
<1>4. Reduced = p0
  BY <1>1, <1>2, <1>3 DEF Reduced
<1>5. \A k, w \in Nat : next[<<k, w>>] = (w * M) \div D
  OBVIOUS
<1>6. ASSUME NEW w \in Nat PROVE (w * M) \div D \in Nat
  <2>1. w * M \in Nat
    OBVIOUS
  <2> QED BY <1>3, <2>1, DivNat
<1> HIDE DEF next
<1>7. PICK f \in [Nat -> Nat] : f[0] = B /\ \A k \in Nat : f[k + 1] = next[<<k, f[k]>>]
  <2>1. PICK W : W = Nat
    OBVIOUS
  <2>2. B \in W /\ StepsIn(W, next)
    BY <1>5, <1>6, <2>1 DEF StepsIn
  <2>3. PICK f : Solves(f, W, B, next)
    BY <2>2, RecursionExists
  <2> QED BY <2>1, <2>3 DEF Solves
<1>8. E(f)
  <2>1. ASSUME NEW i \in Nat PROVE f[i] = IF i = 0 THEN B ELSE (f[i - 1] * M) \div D
    <3>1. CASE i = 0
      BY <1>7, <3>1
    <3>2. CASE i # 0
      <4>1. PICK k \in Nat : k = i - 1 /\ k + 1 = i
        BY <3>2
      <4>2. f[k + 1] = (f[k] * M) \div D
        BY <1>5, <1>7
      <4> QED BY <3>2, <4>1, <4>2
    <3> QED BY <3>1, <3>2
  <2> QED BY <1>7, <2>1
<1>9. E(p0)
  BY <1>8
<1> HIDE DEF p0
<1>10. p0 = [i \in Nat |-> p0[i]] /\ \A i \in Nat : p0[i] = IF i = 0 THEN B ELSE (p0[i - 1] * M) \div D
  BY <1>9
<1> HIDE DEF E
<1>11. p0[0] = B
  BY <1>10
<1>12. ASSUME NEW k \in Nat PROVE p0[k + 1] = (p0[k] * M) \div D
  <2>1. PICK i \in Nat : i = k + 1 /\ i # 0 /\ i - 1 = k
    OBVIOUS
  <2>2. p0[i] = (p0[i - 1] * M) \div D
    BY <1>10, <2>1
  <2> QED BY <2>1, <2>2
<1> DEFINE S == {k \in Nat : p0[k] \in Nat}
<1>13. 0 \in S
  BY <1>11
<1>14. ASSUME NEW k \in Nat, k \in S PROVE k + 1 \in S
  <2>1. p0[k] \in Nat
    BY <1>14
  <2>2. p0[k + 1] \in Nat
    BY <1>6, <1>12, <2>1
  <2> QED BY <2>2
<1>15. Nat \subseteq S
  <2> HIDE DEF S
  <2> QED BY <1>13, <1>14, SetInduction
<1>16. p0 \in [Nat -> Nat]
  BY <1>10, <1>15
<1> QED BY <1>1, <1>2, <1>3, <1>4, <1>11, <1>12, <1>16

\* The subsidy falls with every era until it is zero, and then stays there.
LEMMA ReducedFalls ==
  ASSUME NEW k \in Nat
  PROVE  /\ Reduced[k] > 0 => Reduced[k + 1] < Reduced[k]
         /\ Reduced[k] = 0 => Reduced[k + 1] = 0
<1>1. PICK M \in Nat : M = MulSubsidy
  BY DifficultyAssumption
<1>2. PICK D \in Nat : D = DivSubsidy /\ D >= 1 /\ M < D
  BY <1>1, DifficultyAssumption
<1>3. PICK r \in Nat : r = Reduced[k]
  BY ReducedIs
<1>4. Reduced[k + 1] = (r * M) \div D
  BY <1>1, <1>2, <1>3, ReducedIs
<1>5. PICK q \in Int : q = (r * M) \div D /\ q * D <= r * M
  <2>1. r * M \in Int
    OBVIOUS
  <2> QED BY <1>2, <2>1, DivIs
<1>6. r > 0 => q < r
  <2> SUFFICES ASSUME r > 0, r <= q PROVE FALSE
    OBVIOUS
  <2>1. r * D <= q * D
    BY <1>2
  <2>2. r * M < r * D
    BY <1>2
  <2>3. PICK a \in Int : a = q * D
    OBVIOUS
  <2>4. PICK b \in Int : b = r * M
    OBVIOUS
  <2>5. PICK c \in Int : c = r * D
    OBVIOUS
  <2> QED BY <1>5, <2>1, <2>2, <2>3, <2>4, <2>5
<1>7. r = 0 => (r * M) \div D = 0
  <2> SUFFICES ASSUME r = 0 PROVE (r * M) \div D = 0
    OBVIOUS
  <2>1. r * M = 0 /\ 0 * D <= 0 /\ 0 < 0 * D + D
    BY <1>2
  <2> QED BY <1>2, <2>1, DivUnique
<1> QED BY <1>3, <1>4, <1>5, <1>6, <1>7

\* The first era without a subsidy.
EndEra == Min({k \in 0..(BaseSubsidy + 1) : Reduced[k] = 0})

LEMMA EndEraIs ==
  EndEra \in Nat /\ \A k \in Nat : Reduced[k] \in Nat /\ (Reduced[k] = 0 <=> k >= EndEra)
<1>1. PICK B \in Nat : B = BaseSubsidy /\ Reduced[0] = B
  BY ReducedIs, DifficultyAssumption
<1> DEFINE S == {k \in Nat : Reduced[k] = 0 \/ Reduced[k] + k <= B}
<1>2. 0 \in S
  BY <1>1
<1>3. ASSUME NEW k \in Nat, k \in S PROVE k + 1 \in S
  <2>1. PICK r \in Nat : r = Reduced[k]
    BY ReducedIs
  <2>2. PICK s \in Nat : s = Reduced[k + 1]
    BY ReducedIs
  <2>3. (r > 0 => s < r) /\ (r = 0 => s = 0) /\ (r = 0 \/ r + k <= B)
    BY <1>3, <2>1, <2>2, ReducedFalls
  <2>4. s = 0 \/ s + (k + 1) <= B
    BY <2>3
  <2> QED BY <2>2, <2>4
<1>4. Nat \subseteq S
  <2> HIDE DEF S
  <2> QED BY <1>2, <1>3, SetInduction
<1>5. Reduced[B] = 0
  <2>1. Reduced[B] = 0 \/ Reduced[B] + B <= B
    BY <1>4
  <2>2. PICK r \in Nat : r = Reduced[B]
    BY ReducedIs
  <2> QED BY <2>1, <2>2
<1> DEFINE Z == {k \in 0..(BaseSubsidy + 1) : Reduced[k] = 0}
<1>6. PICK x \in Z : \A y \in Z : x <= y
  <2>1. Z \in SUBSET Nat
    BY <1>1
  <2>2. Z # {}
    BY <1>1, <1>5
  <2> HIDE DEF Z
  <2> QED BY <2>1, <2>2, LeastNat
<1>7. EndEra \in Z /\ \A y \in Z : EndEra <= y
  BY <1>6 DEF EndEra, Min
<1>8. PICK K \in Nat : K = EndEra /\ K <= B + 1 /\ Reduced[K] = 0
  BY <1>1, <1>7
<1>9. ASSUME NEW k \in Nat, k < K PROVE Reduced[k] # 0
  BY <1>1, <1>7, <1>8, <1>9
<1> DEFINE T == {d \in Nat : Reduced[K + d] = 0}
<1>10. 0 \in T
  BY <1>8
<1>11. ASSUME NEW d \in Nat, d \in T PROVE d + 1 \in T
  <2>1. PICK k \in Nat : k = K + d /\ k + 1 = K + (d + 1)
    OBVIOUS
  <2>2. Reduced[k] = 0
    BY <1>11, <2>1
  <2>3. Reduced[k + 1] = 0
    BY <2>2, ReducedFalls
  <2> QED BY <2>1, <2>3
<1>12. Nat \subseteq T
  <2> HIDE DEF T
  <2> QED BY <1>10, <1>11, SetInduction
<1>13. ASSUME NEW k \in Nat, k >= K PROVE Reduced[k] = 0
  <2>1. PICK d \in Nat : K + d = k
    <3>1. k - K \in Nat /\ K + (k - K) = k
      BY <1>13
    <3> QED BY <3>1
  <2> QED BY <1>12, <2>1
<1> QED BY <1>8, <1>9, <1>13, ReducedIs

\* The two shares of a block are its whole subsidy.
LEMMA CoinbaseIs ==
  ASSUME NEW x \in Nat
  PROVE  /\ Coinbase(x) \in Nat
         /\ Coinbase(x) = IF x = 0 THEN 0 ELSE Reduced[x \div ReductionInterval]
<1>1. PICK I \in Nat : I = ReductionInterval /\ I >= 1
  BY DifficultyAssumption
<1>2. PICK p \in Nat : p = MinerRewardPercent
  BY DifficultyAssumption
<1>3. x \div I \in Nat
  BY <1>1, DivNat
<1>4. PICK c \in Nat : c = CalcBlockSubsidy(x) /\ c = IF x = 0 THEN 0 ELSE Reduced[x \div I]
  <2>1. Reduced[x \div I] \in Nat
    BY <1>3, ReducedIs
  <2>2. CalcBlockSubsidy(x) = IF x = 0 THEN 0 ELSE Reduced[x \div I]
    BY <1>1 DEF CalcBlockSubsidy
  <2> QED BY <2>1, <2>2
<1>5. PICK m \in Nat : m = (c * p) \div 100
  <2>1. c * p \in Nat
    OBVIOUS
  <2> QED BY <2>1
<1>6. Coinbase(x) = m + (c - m)
  BY <1>2, <1>4, <1>5 DEF Coinbase, MinerShare, ProjectShare
<1> QED BY <1>1, <1>4, <1>6

\* What the blocks of s below a height mint.
Adds(s) == [w \in Nat \X Nat |-> w[2] + (IF w[1] \in s THEN Coinbase(w[1]) ELSE 0)]
Partial(s) == CHOOSE f : Solves(f, Nat, 0, Adds(s))

LEMMA PartialIs ==
  ASSUME NEW s
  PROVE  /\ Partial(s)[0] = 0
         /\ \A k \in Nat : /\ Partial(s)[k] \in Nat
                           /\ k \in s => Partial(s)[k + 1] = Partial(s)[k] + Coinbase(k)
                           /\ k \notin s => Partial(s)[k + 1] = Partial(s)[k]
<1>1. PICK next : next = Adds(s)
  OBVIOUS
<1>2. ASSUME NEW k \in Nat, NEW w \in Nat
      PROVE  next[<<k, w>>] = w + (IF k \in s THEN Coinbase(k) ELSE 0) /\ next[<<k, w>>] \in Nat
  <2>1. next[<<k, w>>] = w + (IF k \in s THEN Coinbase(k) ELSE 0)
    BY <1>1 DEF Adds
  <2>2. Coinbase(k) \in Nat
    BY CoinbaseIs
  <2> QED BY <2>1, <2>2
<1>3. PICK zero : zero = 0
  OBVIOUS
<1>4. PICK W : W = Nat
  OBVIOUS
<1>5. zero \in W /\ StepsIn(W, next)
  BY <1>2, <1>3, <1>4 DEF StepsIn
<1>6. \E f : Solves(f, W, zero, next)
  BY <1>5, RecursionExists
<1>7. PICK p : p = Partial(s) /\ Solves(p, W, zero, next)
  BY <1>1, <1>3, <1>4, <1>6 DEF Partial
<1>8. p \in [Nat -> Nat] /\ p[0] = 0 /\ \A k \in Nat : p[k + 1] = next[<<k, p[k]>>]
  BY <1>3, <1>4, <1>7 DEF Solves
<1>9. ASSUME NEW k \in Nat
      PROVE  p[k] \in Nat /\ p[k + 1] = p[k] + (IF k \in s THEN Coinbase(k) ELSE 0)
  BY <1>2, <1>8
<1>10. ASSUME NEW k \in Nat PROVE /\ p[k] \in Nat
                                  /\ k \in s => p[k + 1] = p[k] + Coinbase(k)
                                  /\ k \notin s => p[k + 1] = p[k]
  BY <1>9
<1> QED BY <1>7, <1>8, <1>10

LEMMA PartialEmpty == \A k \in Nat : Partial({})[k] = 0
<1>1. PICK s : s = {}
  OBVIOUS
<1> DEFINE S == {k \in Nat : Partial(s)[k] = 0}
<1>2. 0 \in S
  BY PartialIs
<1>3. ASSUME NEW k \in Nat, k \in S PROVE k + 1 \in S
  <2>1. Partial(s)[k] = 0 /\ k \notin s
    BY <1>1, <1>3
  <2> QED BY <2>1, PartialIs
<1>4. Nat \subseteq S
  <2> HIDE DEF S
  <2> QED BY <1>2, <1>3, SetInduction
<1> QED BY <1>1, <1>4

\* One block more.
LEMMA PartialRemove ==
  ASSUME NEW s, NEW x \in Nat, x \in s
  PROVE  \A k \in Nat : x < k => Partial(s)[k] = Coinbase(x) + Partial(s \ {x})[k]
<1>1. PICK t : t = s \ {x}
  OBVIOUS
<1>2. PICK c \in Nat : c = Coinbase(x)
  BY CoinbaseIs
<1> DEFINE S == {k \in Nat : Partial(s)[k] = Partial(t)[k] + (IF x < k THEN c ELSE 0)}
<1>3. 0 \in S
  BY PartialIs
<1>4. ASSUME NEW k \in Nat, k \in S PROVE k + 1 \in S
  <2>1. PICK a \in Nat : a = Partial(s)[k]
    BY PartialIs
  <2>2. PICK b \in Nat : b = Partial(t)[k]
    BY PartialIs
  <2>3. a = b + (IF x < k THEN c ELSE 0)
    BY <1>4, <2>1, <2>2
  <2>4. PICK d \in Nat : d = Coinbase(k)
    BY CoinbaseIs
  <2>5. k # x => (k \in t <=> k \in s)
    BY <1>1
  <2>6. /\ k \in s => Partial(s)[k + 1] = a + d
        /\ k \notin s => Partial(s)[k + 1] = a
        /\ k \in t => Partial(t)[k + 1] = b + d
        /\ k \notin t => Partial(t)[k + 1] = b
    BY <2>1, <2>2, <2>4, PartialIs
  <2>7. CASE k = x
    <3>1. Partial(s)[k + 1] = a + c /\ Partial(t)[k + 1] = b /\ a = b
      BY <1>1, <1>2, <2>3, <2>4, <2>6, <2>7
    <3>2. x < k + 1
      BY <2>7
    <3> QED BY <3>1, <3>2
  <2>8. CASE k # x
    <3>1. (x < k + 1) <=> (x < k)
      BY <2>8
    <3>2. CASE k \in s
      <4>1. Partial(s)[k + 1] = a + d /\ Partial(t)[k + 1] = b + d
        BY <2>5, <2>6, <2>8, <3>2
      <4> QED BY <2>3, <3>1, <4>1
    <3>3. CASE k \notin s
      <4>1. Partial(s)[k + 1] = a /\ Partial(t)[k + 1] = b
        BY <2>5, <2>6, <2>8, <3>3
      <4> QED BY <2>3, <3>1, <4>1
    <3> QED BY <3>2, <3>3
  <2> QED BY <2>7, <2>8
<1>5. Nat \subseteq S
  <2> HIDE DEF S
  <2> QED BY <1>3, <1>4, SetInduction
<1>6. ASSUME NEW k \in Nat, x < k PROVE Partial(s)[k] = c + Partial(t)[k]
  <2>1. Partial(s)[k] = Partial(t)[k] + c
    BY <1>5, <1>6
  <2>2. PICK b \in Nat : b = Partial(t)[k]
    BY PartialIs
  <2> QED BY <2>1, <2>2
<1> QED BY <1>1, <1>2, <1>6

\* The fold over a set of heights is the sum in the order of the heights.
LEMMA FoldSums ==
  ASSUME NEW N \in Nat, NEW S \in SUBSET (0..(N - 1))
  PROVE  MapThenSumSet(Coinbase, S) = Partial(S)[N]
<1> DEFINE Pick(s) == CHOOSE x \in s : TRUE
           Body(s, it) == IF s = {} THEN 0 ELSE Coinbase(Pick(s)) + it[s \ {Pick(s)}]
           E(it) == it = [s \in SUBSET S |-> Body(s, it)]
           sum == CHOOSE it : E(it)
           g == [s \in SUBSET S |-> Partial(s)[N]]
<1>1. MapThenSumSet(Coinbase, S) = sum[S]
  BY FoldIs
<1>2. ASSUME NEW s \in SUBSET S, s # {}
      PROVE  /\ Pick(s) \in s /\ s \ {Pick(s)} \in SUBSET S
             /\ Partial(s)[N] = Coinbase(Pick(s)) + Partial(s \ {Pick(s)})[N]
  <2>1. Pick(s) \in s
    BY <1>2
  <2> HIDE DEF Pick
  <2>2. Pick(s) \in Nat /\ Pick(s) < N
    <3>1. PICK x \in 0..(N - 1) : x = Pick(s)
      BY <2>1
    <3> QED BY <3>1
  <2> QED BY <2>1, <2>2, PartialRemove
<1> HIDE DEF Pick
<1>3. E(g)
  <2>1. ASSUME NEW s \in SUBSET S PROVE Partial(s)[N] = Body(s, g)
    <3>1. CASE s = {}
      BY <3>1, PartialEmpty
    <3>2. CASE s # {}
      <4>1. g[s \ {Pick(s)}] = Partial(s \ {Pick(s)})[N]
        BY <1>2, <3>2
      <4> HIDE DEF g
      <4> QED BY <1>2, <3>2, <4>1
    <3> QED BY <3>1, <3>2
  <2> HIDE DEF Body
  <2> QED BY <2>1
<1>4. E(sum)
  <2> HIDE DEF g, E
  <2> QED BY <1>3
<1> HIDE DEF sum
<1>5. ASSUME NEW s \in SUBSET S PROVE sum[s] = Body(s, sum)
  <2> HIDE DEF Body
  <2> QED BY <1>4
<1> HIDE DEF E, g
<1>6. IsFiniteSet(S)
  <2>1. IsFiniteSet(0..(N - 1))
    BY FS_Interval
  <2> QED BY <2>1, FS_Subset
<1>7. ASSUME NEW s \in SUBSET S PROVE IsFiniteSet(s) /\ Cardinality(s) \in Nat
  BY <1>6, FS_Subset, FS_CardinalityType
<1> DEFINE T == {n \in Nat : \A s \in SUBSET S : Cardinality(s) = n => sum[s] = Partial(s)[N]}
<1>8. 0 \in T
  <2>1. ASSUME NEW s \in SUBSET S, Cardinality(s) = 0 PROVE sum[s] = Partial(s)[N]
    <3>1. s = {}
      BY <1>7, <2>1, FS_EmptySet
    <3> QED BY <1>5, <3>1, PartialEmpty
  <2> QED BY <2>1
<1>9. ASSUME NEW n \in Nat, n \in T PROVE n + 1 \in T
  <2>1. ASSUME NEW s \in SUBSET S, Cardinality(s) = n + 1 PROVE sum[s] = Partial(s)[N]
    <3>1. s # {}
      BY <2>1, FS_EmptySet
    <3>2. PICK t \in SUBSET S : t = s \ {Pick(s)} /\ Partial(s)[N] = Coinbase(Pick(s)) + Partial(t)[N] /\ Pick(s) \in s
      BY <1>2, <3>1
    <3>3. Cardinality(t) = Cardinality(s) - 1
      BY <1>7, <3>2, FS_RemoveElement
    <3>4. Cardinality(t) = n
      BY <2>1, <3>3
    <3>5. sum[t] = Partial(t)[N]
      BY <1>9, <3>4
    <3> QED BY <1>5, <3>1, <3>2, <3>5
  <2> QED BY <2>1
<1>10. Nat \subseteq T
  <2> HIDE DEF T
  <2> QED BY <1>8, <1>9, SetInduction
<1>11. sum[S] = Partial(S)[N]
  <2>1. S \in SUBSET S
    OBVIOUS
  <2>2. Cardinality(S) \in T
    BY <1>7, <1>10, <2>1
  <2> QED BY <2>1, <2>2
<1> QED BY <1>1, <1>11

-----------------------------------------------------------------------------
(* What all blocks mint. *)

\* The whole schedule, block by block.
Cum == Partial(Nat)

LEMMA CumIs ==
  Cum[0] = 0 /\ \A k \in Nat : Cum[k] \in Nat /\ Cum[k + 1] = Cum[k] + Coinbase(k)
<1>1. PICK s : s = Nat
  OBVIOUS
<1>2. \A k \in Nat : k \in s
  BY <1>1
<1>3. Cum = Partial(s)
  BY <1>1 DEF Cum
<1> QED BY <1>2, <1>3, PartialIs

\* And era by era.
EraLength(j) == IF j = 0 THEN ReductionInterval - 1 ELSE ReductionInterval
EraAdds == [w \in Nat \X Nat |-> w[2] + Reduced[w[1]] * EraLength(w[1])]
EraSum == CHOOSE f : Solves(f, Nat, 0, EraAdds)

LEMMA EraLengthIs == \A j \in Nat : EraLength(j) \in Nat
BY DifficultyAssumption DEF EraLength

LEMMA EraSumIs ==
  /\ EraSum[0] = 0
  /\ \A j \in Nat : EraSum[j] \in Nat /\ EraSum[j + 1] = EraSum[j] + Reduced[j] * EraLength(j)
<1>1. PICK next : next = EraAdds
  OBVIOUS
<1>2. ASSUME NEW k \in Nat, NEW w \in Nat
      PROVE  next[<<k, w>>] = w + Reduced[k] * EraLength(k) /\ next[<<k, w>>] \in Nat
  <2>1. next[<<k, w>>] = w + Reduced[k] * EraLength(k)
    BY <1>1 DEF EraAdds
  <2>2. PICK r \in Nat : r = Reduced[k]
    BY ReducedIs
  <2>3. PICK l \in Nat : l = EraLength(k)
    BY EraLengthIs
  <2>4. r * l \in Nat
    OBVIOUS
  <2> QED BY <2>1, <2>2, <2>3, <2>4
<1>3. PICK zero : zero = 0
  OBVIOUS
<1>4. PICK W : W = Nat
  OBVIOUS
<1>5. zero \in W /\ StepsIn(W, next)
  BY <1>2, <1>3, <1>4 DEF StepsIn
<1>6. \E f : Solves(f, W, zero, next)
  BY <1>5, RecursionExists
<1>7. PICK p : p = EraSum /\ Solves(p, W, zero, next)
  BY <1>1, <1>3, <1>4, <1>6 DEF EraSum
<1>8. p \in [Nat -> Nat] /\ p[0] = 0 /\ \A k \in Nat : p[k + 1] = next[<<k, p[k]>>]
  BY <1>3, <1>4, <1>7 DEF Solves
<1>9. ASSUME NEW k \in Nat PROVE p[k] \in Nat /\ p[k + 1] = p[k] + Reduced[k] * EraLength(k)
  BY <1>2, <1>8
<1> QED BY <1>7, <1>8, <1>9

\* The estimate adds up the eras from the last one back.
LEMMA EstimateIs == EstimateTotalSubsidy = EraSum[EndEra]
<1>1. PICK K \in Nat : K = EndEra
  BY EndEraIs
<1>2. ASSUME NEW k \in Nat PROVE Reduced[k] \in Nat /\ (Reduced[k] = 0 <=> k >= K)
  BY <1>1, EndEraIs
<1>3. PICK total \in Nat : total = EraSum[K]
  BY EraSumIs
<1> DEFINE Body(k, e) == IF Reduced[k] = 0 THEN 0
                         ELSE Reduced[k] * (IF k = 0 THEN ReductionInterval - 1 ELSE ReductionInterval) + e[k+1]
           E(e) == e = [k \in Nat |-> Body(k, e)]
           est == CHOOSE e : E(e)
           g == [k \in Nat |-> IF k >= K THEN 0 ELSE total - EraSum[k]]
<1>4. EstimateFrom = est
  BY DEF EstimateFrom
<1>5. \A k \in Nat : \A e : Body(k, e) = IF Reduced[k] = 0 THEN 0 ELSE Reduced[k] * EraLength(k) + e[k+1]
  BY DEF EraLength
<1>6. E(g)
  <2>1. ASSUME NEW k \in Nat PROVE g[k] = Body(k, g)
    <3>1. CASE k >= K
      <4>1. g[k] = 0 /\ Reduced[k] = 0
        BY <1>2, <3>1
      <4> HIDE DEF g
      <4> QED BY <4>1
    <3>2. CASE k < K
      <4>1. PICK a \in Nat : a = EraSum[k]
        BY EraSumIs
      <4>2. PICK m \in Nat : m = k + 1
        OBVIOUS
      <4>3. PICK b \in Nat : b = EraSum[m]
        BY EraSumIs
      <4>4. PICK r \in Nat : r = Reduced[k] /\ r # 0
        BY <1>2, <3>2
      <4>5. PICK l \in Nat : l = EraLength(k)
        BY EraLengthIs
      <4>6. PICK x \in Nat : x = r * l
        OBVIOUS
      <4>7. b = a + x
        BY <4>1, <4>2, <4>3, <4>4, <4>5, <4>6, EraSumIs
      <4>8. m >= K => m = K
        BY <3>2, <4>2
      <4>9. g[k] = total - a
        BY <3>2, <4>1
      <4>10. g[m] = total - b
        <5>1. CASE m >= K
          <6>1. g[m] = 0 /\ b = total
            BY <1>3, <4>3, <4>8, <5>1
          <6> QED BY <6>1
        <5>2. CASE ~(m >= K)
          BY <4>3, <5>2
        <5> QED BY <5>1, <5>2
      <4> HIDE DEF g, Body
      <4>11. Body(k, g) = x + g[m]
        BY <1>5, <4>2, <4>4, <4>5, <4>6
      <4> QED BY <4>7, <4>9, <4>10, <4>11
    <3> QED BY <3>1, <3>2
  <2>2. g = [k \in Nat |-> g[k]]
    OBVIOUS
  <2> HIDE DEF g, Body
  <2> QED BY <2>1, <2>2
<1>7. E(est)
  <2> HIDE DEF g, E
  <2> QED BY <1>6
<1> HIDE DEF est
<1>8. ASSUME NEW k \in Nat PROVE est[k] = Body(k, est)
  <2> HIDE DEF Body
  <2> QED BY <1>7
<1> HIDE DEF E, g, Body
<1> DEFINE S == {d \in Nat : d <= K => est[K - d] = total - EraSum[K - d]}
<1>9. 0 \in S
  <2>1. Reduced[K] = 0
    BY <1>2
  <2>2. est[K] = 0
    BY <1>5, <1>8, <2>1
  <2>3. K - 0 = K
    OBVIOUS
  <2>4. est[K - 0] = total - EraSum[K - 0]
    BY <1>3, <2>2, <2>3
  <2> QED BY <2>4
<1>10. ASSUME NEW d \in Nat, d \in S PROVE d + 1 \in S
  <2> SUFFICES ASSUME d + 1 <= K PROVE est[K - (d + 1)] = total - EraSum[K - (d + 1)]
    OBVIOUS
  <2>1. PICK k \in Nat : k = K - (d + 1) /\ k + 1 = K - d /\ k < K
    <3>1. K - (d + 1) \in Nat /\ (K - (d + 1)) + 1 = K - d /\ K - (d + 1) < K
      OBVIOUS
    <3> QED BY <3>1
  <2>2. PICK m \in Nat : m = k + 1 /\ m = K - d
    BY <2>1
  <2>3. est[m] = total - EraSum[m]
    BY <1>10, <2>2
  <2>4. PICK a \in Nat : a = EraSum[k]
    BY EraSumIs
  <2>5. PICK b \in Nat : b = EraSum[m]
    BY EraSumIs
  <2>6. PICK r \in Nat : r = Reduced[k] /\ r # 0
    BY <1>2, <2>1
  <2>7. PICK l \in Nat : l = EraLength(k)
    BY EraLengthIs
  <2>8. PICK x \in Nat : x = r * l
    OBVIOUS
  <2>9. b = a + x
    BY <2>2, <2>4, <2>5, <2>6, <2>7, <2>8, EraSumIs
  <2>10. est[k] = x + est[m]
    BY <1>5, <1>8, <2>2, <2>6, <2>7, <2>8
  <2>11. PICK z \in Int : z = est[m] /\ z = total - b
    BY <2>3, <2>5
  <2>12. est[k] = x + z
    BY <2>10, <2>11
  <2>13. est[k] = total - a
    BY <2>9, <2>11, <2>12
  <2> QED BY <2>1, <2>4, <2>13
<1>11. Nat \subseteq S
  <2> HIDE DEF S
  <2> QED BY <1>9, <1>10, SetInduction
<1>12. est[K - K] = total - EraSum[K - K]
  BY <1>11
<1>13. K - K = 0
  OBVIOUS
<1>14. est[0] = total - 0
  BY <1>12, <1>13, EraSumIs
<1> QED BY <1>1, <1>3, <1>4, <1>14 DEF EstimateTotalSubsidy

\* Within an era every block but the genesis block mints the same.
LEMMA EraBlocks ==
  ASSUME NEW j \in Nat, Cum[j * ReductionInterval] = EraSum[j]
  PROVE  Cum[(j + 1) * ReductionInterval] = EraSum[j + 1]
<1>1. PICK I \in Nat : I = ReductionInterval /\ I >= 1
  BY DifficultyAssumption
<1>2. PICK r \in Nat : r = Reduced[j]
  BY ReducedIs
<1>3. PICK base \in Nat : base = j * I
  BY <1>1
<1>4. PICK e \in Nat : e = EraSum[j] /\ e = Cum[base]
  BY <1>1, <1>3, EraSumIs
<1> DEFINE Blocks(m) == IF j = 0 THEN (IF m = 0 THEN 0 ELSE m - 1) ELSE m
           S == {m \in Nat : m <= I => Cum[base + m] = e + r * Blocks(m)}
<1>5. 0 \in S
  <2>1. base + 0 = base /\ r * 0 = 0 /\ Blocks(0) = 0
    OBVIOUS
  <2> HIDE DEF Blocks
  <2>2. Cum[base + 0] = e + r * Blocks(0)
    BY <1>4, <2>1
  <2> QED BY <2>2
<1>6. ASSUME NEW m \in Nat, m \in S PROVE m + 1 \in S
  <2> SUFFICES ASSUME m + 1 <= I PROVE Cum[base + (m + 1)] = e + r * Blocks(m + 1)
    OBVIOUS
  <2>1. PICK x \in Nat : x = base + m /\ x + 1 = base + (m + 1)
    OBVIOUS
  <2>2. PICK b \in Nat : b = Blocks(m)
    OBVIOUS
  <2>3. PICK y \in Nat : y = r * b
    OBVIOUS
  <2>4. Cum[x] = e + y
    BY <1>6, <2>1, <2>2, <2>3
  <2>5. PICK c \in Nat : c = Coinbase(x) /\ c = IF x = 0 THEN 0 ELSE r
    <3>1. x \div I = j
      BY <1>1, <1>3, <2>1, DivUnique
    <3> QED BY <1>1, <1>2, <3>1, CoinbaseIs
  <2>6. Cum[x + 1] = (e + y) + c
    BY <2>4, <2>5, CumIs
  <2>7. x = 0 <=> (j = 0 /\ m = 0)
    <3>1. j # 0 => base >= 1
      <4> SUFFICES ASSUME j >= 1 PROVE base >= 1
        OBVIOUS
      <4>1. 1 * I <= j * I
        OBVIOUS
      <4> QED BY <1>1, <1>3, <4>1
    <3>2. j = 0 => base = 0
      BY <1>1, <1>3
    <3> QED BY <2>1, <3>1, <3>2
  <2>8. CASE x = 0
    <3>1. b = 0 /\ Blocks(m + 1) = 0 /\ c = 0
      BY <2>2, <2>5, <2>7, <2>8
    <3>2. r * Blocks(m + 1) = y
      BY <2>3, <3>1
    <3> HIDE DEF Blocks
    <3> QED BY <2>1, <2>6, <3>1, <3>2
  <2>9. CASE x # 0
    <3>1. Blocks(m + 1) = b + 1 /\ c = r
      BY <2>2, <2>5, <2>7, <2>9
    <3>2. r * (b + 1) = y + r
      BY <2>3
    <3> HIDE DEF Blocks
    <3> QED BY <2>1, <2>6, <3>1, <3>2
  <2> QED BY <2>8, <2>9
<1>7. Nat \subseteq S
  <2> HIDE DEF S
  <2> QED BY <1>5, <1>6, SetInduction
<1>8. Cum[base + I] = e + r * Blocks(I)
  BY <1>7
<1>9. Blocks(I) = EraLength(j)
  BY <1>1 DEF EraLength
<1> HIDE DEF Blocks
<1>10. base + I = (j + 1) * ReductionInterval
  BY <1>1, <1>3
<1>11. EraSum[j + 1] = e + r * EraLength(j)
  BY <1>2, <1>4, EraSumIs
<1> QED BY <1>8, <1>9, <1>10, <1>11

LEMMA CumEras == \A j \in Nat : Cum[j * ReductionInterval] = EraSum[j]
<1> DEFINE S == {j \in Nat : Cum[j * ReductionInterval] = EraSum[j]}
<1>1. 0 \in S
  <2>1. 0 * ReductionInterval = 0
    BY DifficultyAssumption
  <2>2. Cum[0 * ReductionInterval] = EraSum[0]
    BY <2>1, CumIs, EraSumIs
  <2> QED BY <2>2
<1>2. ASSUME NEW j \in Nat, j \in S PROVE j + 1 \in S
  BY <1>2, EraBlocks
<1>3. Nat \subseteq S
  <2> HIDE DEF S
  <2> QED BY <1>1, <1>2, SetInduction
<1> QED BY <1>3

\* No block mints anything after the last era.
LEMMA NothingLater ==
  ASSUME NEW L \in Nat, L = ReductionInterval * EndEra, NEW x \in Nat, x >= L
  PROVE  Coinbase(x) = 0
<1>1. PICK I \in Nat : I = ReductionInterval /\ I >= 1
  BY DifficultyAssumption
<1>2. PICK K \in Nat : K = EndEra
  BY EndEraIs
<1>3. PICK q \in Nat : q = x \div I
  BY <1>1, DivNat
<1>4. q >= K
  <2>1. L = K * I
    BY <1>1, <1>2
  <2>2. (K * I) \div I = K
    BY <1>1, DivExact
  <2>3. L \div I <= x \div I
    BY <1>1, DivMono
  <2> QED BY <1>3, <2>1, <2>2, <2>3
<1>5. Reduced[q] = 0
  BY <1>2, <1>4, EndEraIs
<1> QED BY <1>1, <1>3, <1>5, CoinbaseIs

LEMMA CumEnds ==
  ASSUME NEW L \in Nat, L = ReductionInterval * EndEra
  PROVE  \A d \in Nat : Cum[L + d] = EraSum[EndEra]
<1> DEFINE S == {d \in Nat : Cum[L + d] = EraSum[EndEra]}
<1>1. 0 \in S
  <2>1. PICK I \in Nat : I = ReductionInterval
    BY DifficultyAssumption
  <2>2. PICK K \in Nat : K = EndEra
    BY EndEraIs
  <2>3. L + 0 = K * I
    BY <2>1, <2>2
  <2>4. Cum[L + 0] = EraSum[EndEra]
    BY <2>1, <2>2, <2>3, CumEras
  <2> QED BY <2>4
<1>2. ASSUME NEW d \in Nat, d \in S PROVE d + 1 \in S
  <2>1. PICK x \in Nat : x = L + d /\ x + 1 = L + (d + 1) /\ x >= L
    OBVIOUS
  <2>2. Coinbase(x) = 0
    BY <2>1, NothingLater
  <2>3. PICK c \in Nat : c = Cum[x]
    BY CumIs
  <2>4. Cum[x + 1] = c
    BY <2>2, <2>3, CumIs
  <2>5. Cum[x] = EraSum[EndEra]
    BY <1>2, <2>1
  <2>6. Cum[L + (d + 1)] = EraSum[EndEra]
    BY <2>1, <2>3, <2>4, <2>5
  <2> QED BY <2>6
<1>3. Nat \subseteq S
  <2> HIDE DEF S
  <2> QED BY <1>1, <1>2, SetInduction
<1> QED BY <1>3

\* The blocks up to h and the blocks after it are all blocks.
LEMMA Split ==
  ASSUME NEW L \in Nat, L = ReductionInterval * EndEra, NEW h \in Nat
  PROVE  \A k \in Nat : Partial(1..h)[k] + Partial((h + 1)..L)[k] = Cum[k]
<1>1. PICK s : s = 1..h
  OBVIOUS
<1>2. PICK t : t = (h + 1)..L
  OBVIOUS
<1> DEFINE S == {k \in Nat : Partial(s)[k] + Partial(t)[k] = Cum[k]}
<1>3. 0 \in S
  <2>1. Partial(s)[0] = 0 /\ Partial(t)[0] = 0 /\ Cum[0] = 0
    BY PartialIs, CumIs
  <2> QED BY <2>1
<1>4. ASSUME NEW k \in Nat, k \in S PROVE k + 1 \in S
  <2>1. PICK a \in Nat : a = Partial(s)[k]
    BY PartialIs
  <2>2. PICK b \in Nat : b = Partial(t)[k]
    BY PartialIs
  <2>3. Cum[k] = a + b
    BY <1>4, <2>1, <2>2
  <2>4. PICK c \in Nat : c = Coinbase(k)
    BY CoinbaseIs
  <2>5. Cum[k + 1] = (a + b) + c
    BY <2>3, <2>4, CumIs
  <2>6. /\ k \in s => Partial(s)[k + 1] = a + c
        /\ k \notin s => Partial(s)[k + 1] = a
        /\ k \in t => Partial(t)[k + 1] = b + c
        /\ k \notin t => Partial(t)[k + 1] = b
    BY <2>1, <2>2, <2>4, PartialIs
  <2>7. ~(k \in s /\ k \in t)
    BY <1>1, <1>2
  <2>8. k \notin s /\ k \notin t => c = 0
    <3> SUFFICES ASSUME k \notin s, k \notin t PROVE c = 0
      OBVIOUS
    <3>1. k = 0 \/ k >= L
      BY <1>1, <1>2
    <3> QED BY <2>4, <3>1, NothingLater, CoinbaseIs
  <2>9. Partial(s)[k + 1] + Partial(t)[k + 1] = Cum[k + 1]
    <3>1. CASE k \in s
      <4>1. Partial(s)[k + 1] = a + c /\ Partial(t)[k + 1] = b
        BY <2>6, <2>7, <3>1
      <4> QED BY <2>5, <4>1
    <3>2. CASE k \in t
      <4>1. Partial(s)[k + 1] = a /\ Partial(t)[k + 1] = b + c
        BY <2>6, <2>7, <3>2
      <4> QED BY <2>5, <4>1
    <3>3. CASE k \notin s /\ k \notin t
      <4>1. Partial(s)[k + 1] = a /\ Partial(t)[k + 1] = b /\ c = 0
        BY <2>6, <2>8, <3>3
      <4> QED BY <2>5, <4>1
    <3> QED BY <3>1, <3>2, <3>3
  <2> QED BY <2>9
<1>5. Nat \subseteq S
  <2> HIDE DEF S
  <2> QED BY <1>3, <1>4, SetInduction
<1> QED BY <1>1, <1>2, <1>5

LEMMA SupplyFits ==
  ASSUME NEW h \in 0..MaxBlocks
  PROVE  SupplyAt[h] = EstimateTotalSubsidy
<1>1. h \in Nat
  BY Numbers
<1>2. PICK L \in Nat : L = LastEra /\ L = ReductionInterval * EndEra
  <2>1. PICK I \in Nat : I = ReductionInterval
    BY DifficultyAssumption
  <2>2. PICK K \in Nat : K = EndEra
    BY EndEraIs
  <2>3. I * K \in Nat
    OBVIOUS
  <2>4. LastEra = ReductionInterval * EndEra
    BY DEF LastEra, EndEra
  <2> QED BY <2>1, <2>2, <2>3, <2>4
<1>3. PICK d \in Nat : d = h + 1
  BY <1>1
<1>4. PICK N \in Nat : N = L + d
  OBVIOUS
<1>5. 1..h \in SUBSET (0..(N - 1)) /\ (h + 1)..L \in SUBSET (0..(N - 1))
  BY <1>1, <1>3, <1>4
<1>6. Minted(1, h) = Partial(1..h)[N] /\ Minted(h + 1, L) = Partial((h + 1)..L)[N]
  BY <1>5, FoldSums DEF Minted
<1>7. Partial(1..h)[N] + Partial((h + 1)..L)[N] = Cum[N]
  BY <1>1, <1>2, Split
<1>8. Cum[N] = EraSum[EndEra]
  BY <1>2, <1>4, CumEnds
<1>9. SupplyAt[h] = Minted(1, h) + Minted(h + 1, L)
  BY <1>2 DEF SupplyAt
<1> QED BY <1>6, <1>7, <1>8, <1>9, EstimateIs

-----------------------------------------------------------------------------
(* The theorems. *)

\* The invariant behind the theorems below: the cache of createJob has the latest jobs
\* without a gap, jobs on their way or with a session are in it unless too old, and no
\* job or submitted block is ahead of the chain.
THEOREM StratumInvariant == Spec => []MInv
<1>1. Init => MInv
  BY InvInit
<1>2. MInv /\ [Next]_vars => MInv'
  BY InvStep
<1> QED BY <1>1, <1>2, PTL DEF Spec

\* However many sessions solve jobs of one tip, handleSubmit and acceptBlock put each
\* block on the block below it, with a later time.
THEOREM OneBlockPerTip == Spec => []ChainLinked
<1>1. MInv => ChainLinked
  BY DEF MInv
<1> QED BY <1>1, StratumInvariant, PTL

\* For every size of the job cache and any number of sessions: handleSubmit finds a
\* session's last job unless maxCachedJobs jobs were made after it.
THEOREM SentJobsKept == Spec => []RecentJobsKept
<1>1. MInv => RecentJobsKept
  BY DEF MInv, InCache, Recent, RecentJobsKept
<1> QED BY <1>1, StratumInvariant, PTL

\* For every tip and every clock, NextBlockTime and the time of a block template pass
\* CheckBlockTimestamp if any time does and the clock is not within the tip's second.
THEOREM NewTimesFit == Spec => []ProposedTimeFits
<1>1. MInv => ProposedTimeFits
  BY TypeFits DEF MInv
<1> QED BY <1>1, StratumInvariant, PTL

\* For every spacing, half-life, radix and anchor, at every height and time the runs
\* look at: CalcAsertTarget never falls when a block is later, never rises when the chain
\* is longer, and doubles or halves exactly with every half-life.
THEOREM TargetTracksTime == Spec => []AsertTracks
<1>1. MInv => AsertTracks
  BY HeightIs, AsertFits DEF MInv, AsertTracks
<1> QED BY <1>1, StratumInvariant, PTL

\* For every base and limit: the bits of CalcAsertNextBits decode to a target within the
\* proof-of-work limit, at most one unit of the mantissa's last place below the exact one.
THEOREM NextBitsUsable == Spec => []BitsUsable
<1>1. MInv => BitsUsable
  BY HeightIs, BitsFit DEF MInv, BitsUsable
<1> QED BY <1>1, StratumInvariant, PTL

\* For every base subsidy, reduction, interval and share of the miner: whatever the chain's
\* length, what CalcBlockSubsidy has paid out and what it still will add up to what
\* EstimateTotalSubsidy says, if the sum fits an int64.
THEOREM SupplyIsEstimate == Spec => []SupplyAddsUp
<1>1. MInv => SupplyAddsUp
  BY HeightIs, SupplyFits DEF MInv, SupplyAddsUp
<1> QED BY <1>1, StratumInvariant, PTL

=============================================================================
