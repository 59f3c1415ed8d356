--------------------------- MODULE AddrBookProofs ---------------------------
(***************************************************************************)
(* Proofs about the address book and its file, for any addresses,          *)
(* configuration and number of goroutines, changes and faults.             *)
(***************************************************************************)
EXTENDS AddrBook, TLAPS

\* The goroutine in lone has peers.json.tmp to itself, and without mixed nobody else
\* writes.
Alone ==
  /\ ~up => pc = Stopped
  /\ \A g \in lone \cap Writing : Writing = {g}
  /\ ~mixed => Writing \subseteq lone
  /\ \A g \in lone :
       /\ pc[g] = "opened" => fd[g] = "tmp" /\ tmp = Empty
       /\ pc[g] = "written" => tmp = Book(copy[g])
  /\ FileDecodes

Covers(stored) ==
  /\ \A a \in DOMAIN book : a \in DOMAIN stored /\ stored[a] = book[a]
  /\ DOMAIN stored \ DOMAIN book \subseteq selfAddrs

\* Unless a change is yet to be copied, what is on its way to the file, or else the file,
\* has all of the book.
Current ==
  up /\ (\A g \in Goroutine : pc[g] # "changed") =>
    /\ \A g \in lone \cap Writing : Covers(copy[g])
    /\ ~mixed /\ ~lost /\ Writing = {} => Covers(Read(file))

Keeps(b, a) == a \in DOMAIN b /\ AddrSourceRank(b[a].source) >= saved[a]

\* The book has only become better since it was copied, and the file has what was saved.
Kept ==
  /\ \A a \in selfAddrs \cup Listening : saved[a] = -1
  /\ up => Listening \subseteq selfAddrs
  /\ ~up /\ mixed => \A a \in Addr : saved[a] = -1
  /\ \A g \in lone \cap Writing : \A a \in Addr :
       /\ saved[a] >= 0 => a \in DOMAIN copy[g]
       /\ a \in DOMAIN copy[g] \ selfAddrs =>
            a \in DOMAIN book /\ AddrSourceRank(book[a].source) >= AddrSourceRank(copy[g][a].source)
  /\ ~mixed => \A a \in Addr : saved[a] >= 0 => Keeps(Read(file), a)
  /\ SavedKept

\* The inductive invariant.
AInv == TypeOK /\ Alone /\ Current /\ Kept

-----------------------------------------------------------------------------
(* Books. *)

IsBook(b) ==
  /\ DOMAIN b \subseteq Addr
  /\ b = [a \in DOMAIN b |-> b[a]]
  /\ \A a \in DOMAIN b : b[a] \in Entry

LEMMA BookIs ==
  ASSUME NEW b
  PROVE  b \in Books <=> IsBook(b)
<1>1. ASSUME b \in Books PROVE IsBook(b)
  <2>1. PICK s \in SUBSET Addr : b \in [s -> Entry]
    BY <1>1 DEF Books
  <2> QED BY <2>1 DEF IsBook
<1>2. ASSUME IsBook(b) PROVE b \in Books
  <2>1. DOMAIN b \in SUBSET Addr /\ b \in [DOMAIN b -> Entry]
    BY <1>2 DEF IsBook
  <2>2. [DOMAIN b -> Entry] \in {[s -> Entry] : s \in SUBSET Addr}
    BY <2>1
  <2> QED BY <2>1, <2>2 DEF Books
<1> QED BY <1>1, <1>2

LEMMA EmptyIsBook == EmptyBook \in Books /\ DOMAIN EmptyBook = {}
<1>1. IsBook(EmptyBook) /\ DOMAIN EmptyBook = {}
  BY DEF IsBook, EmptyBook
<1> QED BY <1>1, BookIs

LEMMA RankRange ==
  ASSUME NEW s
  PROVE  AddrSourceRank(s) \in 0..4 /\ AddrSourceRank(s) >= AddrSourceRank(s)
BY DEF AddrSourceRank

\* No address of b is forgotten and no source gets worse.
NoWorse(c, b) ==
  \A x \in DOMAIN b : x \in DOMAIN c /\ AddrSourceRank(c[x].source) >= AddrSourceRank(b[x].source)

LEMMA PutIs ==
  ASSUME NEW b \in Books, NEW a \in Addr, NEW e \in Entry
  PROVE  /\ Put(b, a, e) \in Books
         /\ DOMAIN Put(b, a, e) = DOMAIN b \cup {a}
         /\ Put(b, a, e)[a] = e
         /\ \A x \in DOMAIN b : x # a => Put(b, a, e)[x] = b[x]
<1>1. IsBook(b)
  BY BookIs
<1>2. IsBook(Put(b, a, e))
  BY <1>1 DEF IsBook, Put
<1> QED BY <1>2, BookIs DEF Put

LEMMA LearnedIs ==
  ASSUME NEW b \in Books, NEW a \in Addr, NEW source \in Source
  PROVE  /\ Learned(b, a, source) \in Books
         /\ DOMAIN Learned(b, a, source) = DOMAIN b \cup {a}
         /\ NoWorse(Learned(b, a, source), b)
<1>0. IsBook(b) /\ 0 \in 0..MaxFailures
  <2>1. MaxFailures \in Nat
    BY AddrBookAssumption
  <2> QED BY <2>1, BookIs
<1>1. CASE a \notin DOMAIN b
  <2> DEFINE e == [source |-> source, failures |-> 0]
             c == Learned(b, a, source)
  <2>1. e \in Entry
    BY <1>0 DEF Entry
  <2>2. c = Put(b, a, e)
    BY <1>1 DEF Learned
  <2> HIDE DEF e, c
  <2>3. c \in Books /\ DOMAIN c = DOMAIN b \cup {a} /\ \A x \in DOMAIN b : x # a => c[x] = b[x]
    BY <2>1, <2>2, PutIs
  <2>4. NoWorse(c, b)
    BY <1>1, <2>3, RankRange DEF NoWorse
  <2> QED BY <2>3, <2>4 DEF c
<1>2. CASE a \in DOMAIN b /\ AddrSourceRank(source) > AddrSourceRank(b[a].source)
  <2> DEFINE e == [b[a] EXCEPT !.source = source]
             c == [b EXCEPT ![a] = e]
  <2>1. Learned(b, a, source) = c
    BY <1>2 DEF Learned
  <2>2. b[a] \in Entry /\ e \in Entry /\ e.source = source
    BY <1>0, <1>2 DEF IsBook, Entry
  <2>3. DOMAIN c = DOMAIN b /\ c[a] = e /\ \A x \in DOMAIN b : x # a => c[x] = b[x]
    BY <1>2
  <2>4. c = [x \in DOMAIN c |-> c[x]]
    BY <1>0 DEF IsBook
  <2> HIDE DEF c, e
  <2>5. IsBook(c)
    BY <1>0, <2>2, <2>3, <2>4 DEF IsBook
  <2>6. NoWorse(c, b)
    BY <1>2, <2>2, <2>3, RankRange DEF NoWorse
  <2> QED BY <1>2, <2>1, <2>3, <2>5, <2>6, BookIs
<1>3. CASE a \in DOMAIN b /\ ~(AddrSourceRank(source) > AddrSourceRank(b[a].source))
  <2>1. Learned(b, a, source) = b
    BY <1>3 DEF Learned
  <2> QED BY <1>3, <2>1, RankRange DEF NoWorse
<1> QED BY <1>1, <1>2, <1>3

LEMMA RecordedIs ==
  ASSUME NEW b \in Books, NEW a \in DOMAIN b, NEW success \in BOOLEAN,
         success \/ b[a].failures < MaxFailures
  PROVE  /\ Recorded(b, a, success) \in Books
         /\ NoWorse(Recorded(b, a, success), b)
<1>0. IsBook(b)
  BY BookIs
<1> DEFINE e == IF success THEN [source |-> "verified", failures |-> 0]
                ELSE [b[a] EXCEPT !.failures = @ + 1]
           c == [b EXCEPT ![a] = e]
<1>1. Recorded(b, a, success) = c
  BY DEF Recorded
<1>2. b[a] \in Entry /\ MaxFailures \in Nat
  BY <1>0, AddrBookAssumption DEF IsBook
<1>3. e \in Entry /\ AddrSourceRank(e.source) >= AddrSourceRank(b[a].source)
  <2>1. CASE success
    <3>1. e = [source |-> "verified", failures |-> 0] /\ AddrSourceRank("verified") = 4
      BY <2>1 DEF AddrSourceRank
    <3>2. e \in Entry
      BY <1>2, <3>1 DEF Entry, Source
    <3> QED BY <3>1, <3>2, RankRange
  <2>2. CASE ~success
    <3>1. b[a].failures + 1 \in 0..MaxFailures /\ e = [b[a] EXCEPT !.failures = @ + 1]
      BY <1>2, <2>2 DEF Entry
    <3>2. e \in Entry /\ e.source = b[a].source
      BY <1>2, <3>1 DEF Entry
    <3> QED BY <3>2, RankRange
  <2> QED BY <2>1, <2>2
<1>4. DOMAIN c = DOMAIN b /\ c[a] = e /\ \A x \in DOMAIN b : x # a => c[x] = b[x]
  OBVIOUS
<1>5. c = [x \in DOMAIN c |-> c[x]]
  BY <1>0 DEF IsBook
<1> HIDE DEF c, e
<1>6. IsBook(c)
  BY <1>0, <1>3, <1>4, <1>5 DEF IsBook
<1>7. NoWorse(c, b)
  BY <1>3, <1>4, RankRange DEF NoWorse
<1> QED BY <1>1, <1>6, <1>7, BookIs

LEMMA ReadIs ==
  ASSUME NEW f, f.book \in Books
  PROVE  Read(f) \in Books
<1>1. CASE f.kind = "book"
  BY <1>1 DEF Read
<1>2. CASE f.kind = "legacy"
  <2> DEFINE b == [a \in LegacyBook |-> [source |-> "discovered", failures |-> 0]]
  <2>1. MaxFailures \in Nat /\ LegacyBook \subseteq Addr
    BY AddrBookAssumption
  <2>2. [source |-> "discovered", failures |-> 0] \in Entry
    BY <2>1 DEF Entry, Source
  <2>3. IsBook(b)
    BY <2>1, <2>2 DEF IsBook
  <2> QED BY <1>2, <2>3, BookIs DEF Read
<1>3. CASE f.kind \notin {"book", "legacy"}
  BY <1>3, EmptyIsBook DEF Read
<1> QED BY <1>1, <1>2, <1>3

LEMMA ReadBook ==
  ASSUME NEW b
  PROVE  Book(b).kind = "book" /\ Book(b).book = b /\ Read(Book(b)) = b /\ Decodes(Book(b))
BY DEF Book, Read, Decodes

\* The node's own listening addresses start from nothing, the others from the file.
LEMMA WithConfiguredIs ==
  ASSUME NEW b \in Books
  PROVE  /\ WithConfigured(b) \in Books
         /\ \A x \in DOMAIN b \ Listening :
              /\ x \in DOMAIN WithConfigured(b)
              /\ AddrSourceRank(WithConfigured(b)[x].source) >= AddrSourceRank(b[x].source)
<1> DEFINE others == [a \in DOMAIN b \ Listening |-> b[a]]
           news == {x \in Addr : Configured[x] # ""}
           V(a) == IF Configured[a] = "" THEN b[a] ELSE Learned(others, a, Configured[a])[a]
           w == [a \in DOMAIN b \cup news |-> V(a)]
<1>1. WithConfigured(b) = w
  BY DEF WithConfigured
<1>2. IsBook(b)
  BY BookIs
<1>3. IsBook(others)
  BY <1>2 DEF IsBook
<1>4. others \in Books
  BY <1>3, BookIs
<1> HIDE DEF others
<1>5. ASSUME NEW a \in DOMAIN b \cup news
      PROVE  V(a) \in Entry /\ (a \in DOMAIN b \ Listening =>
                                  AddrSourceRank(V(a).source) >= AddrSourceRank(b[a].source))
  <2>1. a \in Addr
    BY <1>2 DEF IsBook
  <2>2. CASE Configured[a] = ""
    <3>1. a \in DOMAIN b /\ V(a) = b[a]
      BY <2>2
    <3>2. b[a] \in Entry
      BY <1>2, <3>1 DEF IsBook
    <3>3. AddrSourceRank(b[a].source) >= AddrSourceRank(b[a].source)
      BY RankRange, Zenon
    <3> QED BY <3>1, <3>2, <3>3
  <2>3. CASE Configured[a] # ""
    <3> DEFINE l == Learned(others, a, Configured[a])
    <3>1. Configured[a] \in Source /\ V(a) = l[a]
      BY <2>1, <2>3, AddrBookAssumption DEF Source
    <3>2. l \in Books /\ DOMAIN l = DOMAIN others \cup {a} /\ NoWorse(l, others)
      BY <1>4, <2>1, <3>1, LearnedIs
    <3>3. l[a] \in Entry
      BY <3>2, BookIs DEF IsBook
    <3>4. a \in DOMAIN b \ Listening => a \in DOMAIN others /\ others[a] = b[a]
      BY DEF others
    <3>5. a \in DOMAIN b \ Listening => AddrSourceRank(l[a].source) >= AddrSourceRank(b[a].source)
      BY <3>2, <3>4, Zenon DEF NoWorse
    <3> QED BY <3>1, <3>3, <3>5, Zenon
  <2> QED BY <2>2, <2>3
<1> HIDE DEF V
<1>6. DOMAIN w = DOMAIN b \cup news /\ \A a \in DOMAIN w : w[a] = V(a)
  OBVIOUS
<1>7. w = [x \in DOMAIN w |-> w[x]]
  BY <1>6
<1> HIDE DEF w
<1>8. IsBook(w)
  BY <1>2, <1>5, <1>6, <1>7 DEF IsBook
<1>9. \A x \in DOMAIN b \ Listening :
         x \in DOMAIN w /\ AddrSourceRank(w[x].source) >= AddrSourceRank(b[x].source)
  BY <1>5, <1>6
<1> QED BY <1>1, <1>8, <1>9, BookIs

\* A write leaves the book or something that does not decode; alone it leaves the book.
LEMMA OverwrittenIs ==
  ASSUME NEW held, NEW b \in Books, NEW f \in Overwritten(held, b)
  PROVE  /\ f.kind \in {"book", "torn"} /\ f.book \in Books
         /\ held = Empty => f = Book(b)
<1>1. f \in {Book(b), Torn}
  BY DEF Overwritten
<1>2. Book(b).kind = "book" /\ Book(b).book = b /\ Torn.kind = "torn" /\ Torn.book = EmptyBook
  BY DEF Book, Torn
<1>3. held = Empty => f = Book(b)
  BY DEF Overwritten, Empty
<1> QED BY <1>1, <1>2, <1>3, EmptyIsBook

-----------------------------------------------------------------------------
(* Types. *)

\* learnAddr and recordDiscoveryResult only improve the book.
LEMMA ChangesImprove ==
  ASSUME TypeOK, NEW g \in Goroutine, NEW a \in Addr, LearnAddr(g, a) \/ RecordDiscoveryResult(g, a)
  PROVE  \E b \in Books : NoWorse(b, book) /\ ChangeBook(g, b)
<1>0. book \in Books
  BY DEF TypeOK
<1>1. CASE LearnAddr(g, a)
  <2>1. PICK source \in {"discovered", "verified"} : ChangeBook(g, Learned(book, a, source))
    BY <1>1 DEF LearnAddr
  <2>2. source \in Source
    BY DEF Source
  <2> QED BY <1>0, <2>1, <2>2, LearnedIs
<1>2. CASE RecordDiscoveryResult(g, a)
  <2>1. PICK success \in BOOLEAN : /\ success \/ book[a].failures < MaxFailures
                                   /\ ChangeBook(g, Recorded(book, a, success))
    BY <1>2 DEF RecordDiscoveryResult
  <2>2. a \in DOMAIN book
    BY <1>2 DEF RecordDiscoveryResult
  <2> QED BY <1>0, <2>1, <2>2, RecordedIs
<1> QED BY <1>1, <1>2

LEMMA KindsOf ==
  /\ Empty.kind = "empty" /\ Torn.kind = "torn" /\ NoFile.kind = "none" /\ Legacy.kind = "legacy"
  /\ Empty.book \in Books /\ Torn.book \in Books /\ NoFile.book \in Books /\ Legacy.book \in Books
BY EmptyIsBook DEF Empty, Torn, NoFile, Legacy

FileType(f) == f.kind \in {"none", "book", "legacy", "empty", "torn"} /\ f.book \in Books

LEMMA FileTypes ==
  ASSUME TypeOK
  PROVE  FileType(file) /\ FileType(tmp)
BY DEF TypeOK, FileType

RestType ==
  /\ up \in BOOLEAN
  /\ book \in Books
  /\ selfAddrs \subseteq Addr
  /\ pc \in [Goroutine -> {"idle", "changed", "copied", "opened", "written"}]
  /\ copy \in [Goroutine -> Books]
  /\ fd \in [Goroutine -> {"closed", "tmp", "file", "gone"}]
  /\ mixed \in BOOLEAN /\ lost \in BOOLEAN
  /\ lone \subseteq Goroutine /\ saved \in [Addr -> -1..4]
  /\ changes \in 0..MaxChanges /\ faults \in 0..MaxFaults

LEMMA TypeIs == TypeOK <=> RestType /\ FileType(file) /\ FileType(tmp)
BY DEF TypeOK, RestType, FileType

LEMMA TypeInit == Init => TypeOK
<1> SUFFICES ASSUME Init PROVE TypeOK
  OBVIOUS
<1>1. MaxChanges \in Nat /\ MaxFaults \in Nat
  BY AddrBookAssumption
<1>2. RestType
  <2>1. pc \in [Goroutine -> {"idle", "changed", "copied", "opened", "written"}]
    BY DEF Init, Stopped
  <2>2. copy \in [Goroutine -> Books] /\ fd \in [Goroutine -> {"closed", "tmp", "file", "gone"}]
    BY EmptyIsBook DEF Init
  <2>3. saved \in [Addr -> -1..4]
    BY DEF Init
  <2>4. changes \in 0..MaxChanges /\ faults \in 0..MaxFaults
    BY <1>1 DEF Init
  <2> QED BY <2>1, <2>2, <2>3, <2>4, EmptyIsBook DEF Init, RestType
<1>3. FileType(file) /\ FileType(tmp)
  BY KindsOf DEF Init, FileType
<1> QED BY <1>2, <1>3, TypeIs

LEMMA TypeStep ==
  ASSUME TypeOK, [Next]_vars
  PROVE  TypeOK'
<1>0. RestType /\ FileType(file) /\ FileType(tmp) /\ MaxChanges \in Nat /\ MaxFaults \in Nat
  BY TypeIs, AddrBookAssumption
<1> SUFFICES RestType' /\ FileType(file') /\ FileType(tmp')
  BY DEF TypeOK, RestType, FileType
<1>1. ASSUME NEW g \in Goroutine, NEW a \in Addr, LearnAddr(g, a) \/ RecordDiscoveryResult(g, a)
      PROVE  RestType' /\ FileType(file') /\ FileType(tmp')
  <2>1. PICK b \in Books : ChangeBook(g, b)
    BY <1>1, ChangesImprove
  <2> QED BY <1>0, <2>1 DEF ChangeBook, RestType
<1>2. ASSUME NEW g \in Goroutine, AddrBookEntries(g)
      PROVE  RestType' /\ FileType(file') /\ FileType(tmp')
  BY <1>0, <1>2 DEF AddrBookEntries, RestType
<1>3. ASSUME NEW g \in Goroutine, OpenTmp(g)
      PROVE  RestType' /\ FileType(file') /\ FileType(tmp')
  <2>1. FileType(tmp') /\ FileType(file')
    BY <1>0, <1>3, KindsOf DEF OpenTmp, FileType
  <2> QED BY <1>0, <1>3, <2>1 DEF OpenTmp, RestType
<1>4. ASSUME NEW g \in Goroutine, WriteTmp(g)
      PROVE  RestType' /\ FileType(file') /\ FileType(tmp')
  <2>1. copy[g] \in Books
    BY <1>0 DEF RestType
  <2>2. FileType(file') /\ FileType(tmp')
    BY <1>0, <1>4, <2>1, OverwrittenIs DEF WriteTmp, FileType
  <2> QED BY <1>0, <1>4, <2>2 DEF WriteTmp, RestType
<1>5. ASSUME NEW g \in Goroutine, WriteFails(g)
      PROVE  RestType' /\ FileType(file') /\ FileType(tmp')
  <2>1. FileType(file') /\ FileType(tmp')
    BY <1>0, <1>5, KindsOf DEF WriteFails, FileType
  <2> QED BY <1>0, <1>5, <2>1 DEF WriteFails, RestType
<1>6. ASSUME NEW g \in Goroutine, RenameTmp(g)
      PROVE  RestType' /\ FileType(file') /\ FileType(tmp')
  <2>1. FileType(file') /\ FileType(tmp')
    BY <1>0, <1>6, KindsOf DEF RenameTmp, FileType
  <2>2. fd' \in [Goroutine -> {"closed", "tmp", "file", "gone"}]
    BY <1>0, <1>6 DEF RenameTmp, RestType
  <2>3. saved' \in [Addr -> -1..4]
    <3>1. \A s : AddrSourceRank(s) \in -1..4
      BY RankRange
    <3> QED BY <1>0, <1>6, <3>1 DEF RenameTmp, RestType
  <2>4. lost' \in BOOLEAN /\ mixed' \in BOOLEAN
    BY <1>6 DEF RenameTmp
  <2> QED BY <1>0, <1>6, <2>1, <2>2, <2>3, <2>4 DEF RenameTmp, RestType
<1>7. ASSUME NEW a \in Addr, RememberSelfAddr(a)
      PROVE  RestType' /\ FileType(file') /\ FileType(tmp')
  <2>1. IsBook(book)
    BY <1>0, BookIs DEF RestType
  <2>2. IsBook(book')
    BY <1>7, <2>1 DEF RememberSelfAddr, IsBook
  <2>3. book' \in Books
    BY <2>2, BookIs, Zenon
  <2> QED BY <1>0, <1>7, <2>3 DEF RememberSelfAddr, RestType
<1>8. CASE Crash
  <2>1. saved' \in [Addr -> -1..4]
    BY <1>0, <1>8 DEF Crash, RestType
  <2>2. pc' \in [Goroutine -> {"idle", "changed", "copied", "opened", "written"}]
    BY <1>8 DEF Crash, Stopped
  <2>3. fd' \in [Goroutine -> {"closed", "tmp", "file", "gone"}]
    BY <1>8 DEF Crash
  <2>4. lost' \in BOOLEAN /\ faults' \in 0..MaxFaults
    BY <1>0, <1>8 DEF Crash, RestType
  <2> QED BY <1>0, <1>8, <2>1, <2>2, <2>3, <2>4, EmptyIsBook DEF Crash, RestType
<1>9. CASE Start
  <2> DEFINE b == WithConfigured(Read(file))
  <2>1. b \in Books
    BY <1>0, ReadIs, WithConfiguredIs DEF FileType
  <2> HIDE DEF b
  <2>2. FileType(file') /\ FileType(tmp')
    BY <1>0, <1>9, <2>1, KindsOf, ReadBook DEF Start, FileType, b
  <2>3. book' = b /\ Listening \subseteq Addr
    BY <1>9 DEF Start, b, Listening
  <2> QED BY <1>0, <1>9, <2>1, <2>2, <2>3 DEF Start, RestType
<1>10. CASE StartUnwritten
  <2> DEFINE b == WithConfigured(Read(file))
  <2>1. b \in Books
    BY <1>0, ReadIs, WithConfiguredIs DEF FileType
  <2> HIDE DEF b
  <2>2. FileType(file') /\ FileType(tmp')
    BY <1>0, <1>10, KindsOf DEF StartUnwritten, FileType
  <2>3. book' = b /\ Listening \subseteq Addr
    BY <1>10 DEF StartUnwritten, b, Listening
  <2>4. lost' \in BOOLEAN /\ faults' \in 0..MaxFaults
    BY <1>0, <1>10 DEF StartUnwritten, RestType
  <2> QED BY <1>0, <1>10, <2>1, <2>2, <2>3, <2>4 DEF StartUnwritten, RestType
<1>11. CASE UNCHANGED vars
  BY <1>0, <1>11 DEF vars, RestType
<1> QED BY <1>1, <1>2, <1>3, <1>4, <1>5, <1>6, <1>7, <1>8, <1>9, <1>10, <1>11 DEF Next

-----------------------------------------------------------------------------
(* The lone writer. *)

LEMMA AloneInit == Init => Alone
<1> SUFFICES ASSUME Init PROVE Alone
  OBVIOUS
<1>1. Writing = {} /\ pc = Stopped /\ lone = {}
  BY DEF Init, Writing, Stopped
<1>2. Decodes(file)
  BY KindsOf DEF Init, Decodes
<1> QED BY <1>1, <1>2 DEF Alone, FileDecodes

LEMMA StoppedNotWriting ==
  ASSUME pc = Stopped
  PROVE  Writing = {}
BY DEF Stopped, Writing

\* The conjuncts of Alone, for proofs that take them one by one.
LEMMA AloneParts ==
  ASSUME (~up => pc = Stopped)',
         (\A g \in lone \cap Writing : Writing = {g})',
         (~mixed => Writing \subseteq lone)',
         (\A g \in lone : pc[g] = "opened" => fd[g] = "tmp" /\ tmp = Empty)',
         (\A g \in lone : pc[g] = "written" => tmp = Book(copy[g]))',
         FileDecodes'
  PROVE  Alone'
BY DEF Alone

\* A step of a goroutine that is not writing and does not begin to.
LEMMA AloneSame ==
  ASSUME TypeOK, Alone, UNCHANGED <<lone, mixed, file, tmp, fd, copy>>, Writing' = Writing,
         \A g \in Writing : pc'[g] = pc[g], up' = TRUE
  PROVE  Alone'
<1>0. lone \subseteq Goroutine
  BY DEF TypeOK
<1>1. \A g \in Goroutine : pc'[g] \in {"opened", "written"} => pc'[g] = pc[g]
  BY DEF Writing
<1>2. (\A g \in lone : pc[g] = "opened" => fd[g] = "tmp" /\ tmp = Empty)'
  BY <1>0, <1>1 DEF Alone
<1>3. (\A g \in lone : pc[g] = "written" => tmp = Book(copy[g]))'
  BY <1>0, <1>1 DEF Alone
<1>4. (\A g \in lone \cap Writing : Writing = {g})' /\ (~mixed => Writing \subseteq lone)'
  BY DEF Alone
<1>5. FileDecodes'
  BY DEF Alone, FileDecodes
<1>6. (~up => pc = Stopped)'
  OBVIOUS
<1> QED BY <1>2, <1>3, <1>4, <1>5, <1>6, AloneParts

LEMMA AloneStep ==
  ASSUME TypeOK, Alone, [Next]_vars
  PROVE  Alone'
<1>0. /\ pc \in [Goroutine -> {"idle", "changed", "copied", "opened", "written"}]
      /\ fd \in [Goroutine -> {"closed", "tmp", "file", "gone"}]
      /\ lone \subseteq Goroutine /\ copy \in [Goroutine -> Books]
  BY DEF TypeOK
<1>1. ASSUME NEW g \in Goroutine, NEW a \in Addr, LearnAddr(g, a) \/ RecordDiscoveryResult(g, a)
      PROVE  Alone'
  <2>1. PICK b \in Books : ChangeBook(g, b)
    BY <1>1, ChangesImprove
  <2>2. Writing' = Writing /\ \A h \in Writing : pc'[h] = pc[h]
    BY <1>0, <2>1 DEF ChangeBook, Writing
  <2> QED BY <2>1, <2>2, AloneSame DEF ChangeBook
<1>2. ASSUME NEW g \in Goroutine, AddrBookEntries(g)
      PROVE  Alone'
  <2>1. pc' = [pc EXCEPT ![g] = "copied"] /\ Writing' = Writing \cup {g} /\ pc[g] = "changed"
    BY <1>0, <1>2 DEF AddrBookEntries, Writing
  <2>2. (\A h \in lone \cap Writing : Writing = {h})' /\ (~mixed => Writing \subseteq lone)'
    BY <1>2, <2>1 DEF AddrBookEntries
  <2>3. \A h \in lone' : pc'[h] = "copied"
    BY <1>0, <1>2, <2>1 DEF AddrBookEntries
  <2>4. FileDecodes'
    BY <1>2 DEF AddrBookEntries, Alone, FileDecodes
  <2>5. (~up => pc = Stopped)'
    BY <1>2 DEF AddrBookEntries, Alone, Stopped
  <2>6. (\A h \in lone : pc[h] = "opened" => fd[h] = "tmp" /\ tmp = Empty)'
    BY <2>3
  <2>7. (\A h \in lone : pc[h] = "written" => tmp = Book(copy[h]))'
    BY <2>3
  <2> QED BY <2>2, <2>4, <2>5, <2>6, <2>7, AloneParts
<1>3. ASSUME NEW g \in Goroutine, OpenTmp(g)
      PROVE  Alone'
  <2>1. Writing' = Writing /\ g \in Writing /\ pc' = [pc EXCEPT ![g] = "opened"]
    BY <1>0, <1>3 DEF OpenTmp, Writing
  <2>2. \A h \in lone \cap Writing : h = g
    BY <2>1 DEF Alone
  <2>3. \A h \in lone : h # g => pc'[h] \notin {"opened", "written"}
    BY <1>0, <2>1, <2>2 DEF Writing
  <2>4. (\A h \in lone : pc[h] = "opened" => fd[h] = "tmp" /\ tmp = Empty)'
    BY <1>0, <1>3, <2>3 DEF OpenTmp
  <2>5. (\A h \in lone : pc[h] = "written" => tmp = Book(copy[h]))'
    BY <1>0, <1>3, <2>3 DEF OpenTmp
  <2>6. (\A h \in lone \cap Writing : Writing = {h})' /\ (~mixed => Writing \subseteq lone)'
    BY <1>3, <2>1 DEF OpenTmp, Alone
  <2>7. FileDecodes'
    BY <1>3 DEF OpenTmp, Alone, FileDecodes
  <2>8. (~up => pc = Stopped)'
    BY <1>3 DEF OpenTmp, Alone, Stopped
  <2> QED BY <2>4, <2>5, <2>6, <2>7, <2>8, AloneParts
<1>4. ASSUME NEW g \in Goroutine, WriteTmp(g)
      PROVE  Alone'
  <2>1. Writing' = Writing /\ g \in Writing /\ pc' = [pc EXCEPT ![g] = "written"]
    BY <1>0, <1>4 DEF WriteTmp, Writing
  <2>2. \A h \in lone \cap Writing : h = g
    BY <2>1 DEF Alone
  <2>3. \A h \in lone : h # g => pc'[h] \notin {"opened", "written"}
    BY <1>0, <2>1, <2>2 DEF Writing
  <2>4. g \in lone => tmp' = Book(copy[g]) /\ file' = file
    <3> SUFFICES ASSUME g \in lone PROVE tmp' = Book(copy[g]) /\ file' = file
      OBVIOUS
    <3>1. fd[g] = "tmp" /\ tmp = Empty
      BY <1>4 DEF WriteTmp, Alone
    <3>2. tmp' \in Overwritten(tmp, copy[g]) /\ file' = file
      BY <1>4, <3>1 DEF WriteTmp
    <3> QED BY <1>0, <3>1, <3>2, OverwrittenIs
  <2>5. (\A h \in lone : pc[h] = "opened" => fd[h] = "tmp" /\ tmp = Empty)'
    BY <1>0, <1>4, <2>1, <2>3 DEF WriteTmp
  <2>6. (\A h \in lone : pc[h] = "written" => tmp = Book(copy[h]))'
    BY <1>4, <2>3, <2>4 DEF WriteTmp
  <2>7. (\A h \in lone \cap Writing : Writing = {h})' /\ (~mixed => Writing \subseteq lone)'
    BY <1>4, <2>1 DEF WriteTmp, Alone
  <2>8. FileDecodes'
    <3>1. ~mixed => g \in lone
      BY <2>1 DEF Alone
    <3> QED BY <1>4, <2>4, <3>1 DEF WriteTmp, Alone, FileDecodes
  <2>9. (~up => pc = Stopped)'
    BY <1>4 DEF WriteTmp, Alone, Stopped
  <2> QED BY <2>5, <2>6, <2>7, <2>8, <2>9, AloneParts
<1>5. ASSUME NEW g \in Goroutine, WriteFails(g) \/ RenameTmp(g)
      PROVE  Alone'
  <2>1. Writing' = Writing \ {g} /\ g \in Writing /\ pc' = [pc EXCEPT ![g] = "idle"]
    BY <1>0, <1>5 DEF WriteFails, RenameTmp, Writing
  <2>2. \A h \in lone \cap Writing : h = g
    BY <2>1 DEF Alone
  <2>3. \A h \in lone : pc'[h] \notin {"opened", "written"}
    BY <1>0, <2>1, <2>2 DEF Writing
  <2>4. ~mixed => g \in lone
    BY <2>1 DEF Alone
  <2>5. lone' = lone /\ up' = up /\ (mixed /\ ~mixed' => g \in lone)
    <3>1. lone' = lone /\ up' = up
      BY <1>5 DEF WriteFails, RenameTmp
    <3>2. mixed' = mixed \/ mixed' = (mixed /\ g \notin lone)
      BY <1>5, Zenon DEF WriteFails, RenameTmp
    <3>3. mixed \in BOOLEAN /\ mixed' \in BOOLEAN
      BY TypeStep DEF TypeOK
    <3>4. mixed /\ ~mixed' => g \in lone
      BY <3>2, <3>3
    <3> QED BY <3>1, <3>4
  <2>6. (\A h \in lone : pc[h] = "opened" => fd[h] = "tmp" /\ tmp = Empty)'
    BY <2>3, <2>5
  <2>7. (\A h \in lone : pc[h] = "written" => tmp = Book(copy[h]))'
    BY <2>3, <2>5
  <2>8. (\A h \in lone \cap Writing : Writing = {h})'
    BY <2>1, <2>2, <2>5
  <2>9. (~mixed => Writing \subseteq lone)'
    BY <2>1, <2>4, <2>5 DEF Alone
  <2>10. FileDecodes'
    <3>1. CASE g \in lone /\ WriteFails(g)
      <4>1. file' = file /\ mixed' = mixed
        BY <3>1 DEF WriteFails, Alone
      <4> QED BY <4>1 DEF FileDecodes, Alone
    <3>2. CASE g \in lone /\ RenameTmp(g)
      <4>1. tmp = Book(copy[g])
        BY <3>2 DEF RenameTmp, Alone
      <4>2. file' = Book(copy[g])
        BY <3>2, <4>1, ReadBook DEF RenameTmp
      <4> QED BY <4>2, ReadBook DEF FileDecodes
    <3>3. CASE g \notin lone
      BY <2>4, <2>5, <3>3 DEF FileDecodes
    <3> QED BY <1>5, <3>1, <3>2, <3>3
  <2>11. (~up => pc = Stopped)'
    BY <1>0, <2>1, <2>5 DEF Alone, Stopped
  <2> QED BY <2>6, <2>7, <2>8, <2>9, <2>10, <2>11, AloneParts
<1>6. ASSUME NEW a \in Addr, RememberSelfAddr(a)
      PROVE  Alone'
  <2>1. Writing' = Writing /\ \A h \in Writing : pc'[h] = pc[h]
    BY <1>6 DEF RememberSelfAddr, Writing
  <2> QED BY <1>6, <2>1, AloneSame DEF RememberSelfAddr
<1>7. CASE Crash \/ Start \/ StartUnwritten
  <2>1. pc' = Stopped /\ lone' = lone /\ mixed' = mixed
    BY <1>7 DEF Crash, Start, StartUnwritten, Alone
  <2>2. Writing' = {} /\ \A h \in lone : pc'[h] = "idle"
    BY <1>0, <2>1 DEF Writing, Stopped
  <2>3. FileDecodes'
    <3>1. CASE Crash
      BY <3>1 DEF Crash, Alone, FileDecodes
    <3>2. CASE Start
      BY <3>2, ReadBook DEF Start, FileDecodes
    <3>3. CASE StartUnwritten
      BY <3>3 DEF StartUnwritten, FileDecodes
    <3> QED BY <1>7, <3>1, <3>2, <3>3
  <2>4. (\A h \in lone : pc[h] = "opened" => fd[h] = "tmp" /\ tmp = Empty)'
    BY <2>1, <2>2
  <2>5. (\A h \in lone : pc[h] = "written" => tmp = Book(copy[h]))'
    BY <2>1, <2>2
  <2> QED BY <2>1, <2>2, <2>3, <2>4, <2>5, AloneParts
<1>8. CASE UNCHANGED vars
  BY <1>8 DEF vars, Alone, Writing, FileDecodes
<1> QED BY <1>1, <1>2, <1>3, <1>4, <1>5, <1>6, <1>7, <1>8 DEF Next
-----------------------------------------------------------------------------
(* The file has the book. *)

LEMMA CurrentStep ==
  ASSUME TypeOK, Alone, Current, [Next]_vars
  PROVE  Current'
<1>0. /\ pc \in [Goroutine -> {"idle", "changed", "copied", "opened", "written"}]
      /\ lone \subseteq Goroutine
  BY DEF TypeOK
<1>1. ASSUME NEW g \in Goroutine, NEW a \in Addr, LearnAddr(g, a) \/ RecordDiscoveryResult(g, a)
      PROVE  Current'
  <2>1. PICK b \in Books : ChangeBook(g, b)
    BY <1>1, ChangesImprove
  <2>2. pc'[g] = "changed"
    BY <1>0, <2>1 DEF ChangeBook
  <2> QED BY <2>2 DEF Current
<1>2. ASSUME NEW g \in Goroutine, AddrBookEntries(g)
      PROVE  Current'
  <2>1. g \in Writing' /\ lone' \subseteq {g}
    BY <1>0, <1>2 DEF AddrBookEntries, Writing
  <2>2. copy'[g] = book /\ book' = book
    BY <1>2 DEF AddrBookEntries, TypeOK
  <2>3. Covers(copy[g])'
    BY <2>2 DEF Covers
  <2>4. (\A h \in lone \cap Writing : Covers(copy[h]))'
    BY <2>1, <2>3
  <2> QED BY <2>1, <2>4 DEF Current
<1>3. ASSUME NEW g \in Goroutine, OpenTmp(g) \/ WriteTmp(g) \/ WriteFails(g) \/ RenameTmp(g)
      PROVE  Current'
  <2> SUFFICES ASSUME (up /\ \A h \in Goroutine : pc[h] # "changed")'
               PROVE  /\ (\A h \in lone \cap Writing : Covers(copy[h]))'
                      /\ (~mixed /\ ~lost /\ Writing = {} => Covers(Read(file)))'
    BY DEF Current
  <2>1. /\ UNCHANGED <<up, book, selfAddrs, copy, lone>>
        /\ g \in Writing
        /\ pc' = [pc EXCEPT ![g] = "opened"] \/ pc' = [pc EXCEPT ![g] = "written"]
             \/ pc' = [pc EXCEPT ![g] = "idle"]
    BY <1>3 DEF OpenTmp, WriteTmp, WriteFails, RenameTmp, Writing
  <2>2. Writing' \subseteq Writing /\ up /\ \A h \in Goroutine : pc[h] # "changed"
    BY <1>0, <2>1 DEF Writing
  <2>3. \A h \in lone \cap Writing : Covers(copy[h])
    BY <2>2 DEF Current
  <2>4. (\A h \in lone \cap Writing : Covers(copy[h]))'
    BY <2>1, <2>2, <2>3 DEF Covers
  <2>5. ASSUME (~mixed /\ ~lost /\ Writing = {})'
        PROVE  Covers(Read(file))'
    <3>1. RenameTmp(g)
      BY <1>0, <1>3, <2>5 DEF OpenTmp, WriteTmp, WriteFails, Writing
    <3>2. g \in lone
      <4>1. g \notin lone /\ ~(mixed /\ g \notin lone) => ~mixed
        OBVIOUS
      <4>2. ~(mixed /\ g \notin lone)
        BY <2>5, <3>1, Zenon DEF RenameTmp
      <4>3. ~mixed => g \in lone
        BY <2>1 DEF Alone
      <4> QED BY <4>1, <4>2, <4>3
    <3>3. tmp = Book(copy[g]) /\ Covers(copy[g])
      BY <2>1, <2>3, <3>1, <3>2 DEF RenameTmp, Alone
    <3>4. file' = Book(copy[g])
      BY <3>1, <3>3, ReadBook DEF RenameTmp
    <3>5. Read(file') = copy[g]
      BY <3>4, ReadBook
    <3> QED BY <2>1, <3>3, <3>5 DEF Covers
  <2> QED BY <2>4, <2>5
<1>4. ASSUME NEW a \in Addr, RememberSelfAddr(a)
      PROVE  Current'
  <2>1. UNCHANGED <<up, pc, copy, file, mixed, lone, lost>> /\ Writing' = Writing
    BY <1>4 DEF RememberSelfAddr, Writing
  <2>2. ASSUME NEW s, Covers(s)
        PROVE  /\ \A x \in DOMAIN book' : x \in DOMAIN s /\ s[x] = book'[x]
               /\ DOMAIN s \ DOMAIN book' \subseteq selfAddrs'
    BY <1>4, <2>2 DEF RememberSelfAddr, Covers
  <2>3. \A s : Covers(s) => /\ \A x \in DOMAIN book' : x \in DOMAIN s /\ s[x] = book'[x]
                            /\ DOMAIN s \ DOMAIN book' \subseteq selfAddrs'
    BY <2>2
  <2>4. ASSUME NEW h \in Goroutine, Covers(copy[h]) PROVE Covers(copy[h])'
    BY <2>1, <2>3, <2>4 DEF Covers
  <2>5. Covers(Read(file)) => Covers(Read(file))'
    <3>1. Read(file') = Read(file)
      BY <2>1
    <3> QED BY <2>3, <3>1 DEF Covers
  <2> QED BY <1>0, <2>1, <2>4, <2>5 DEF Current
<1>5. CASE Crash
  BY <1>5 DEF Crash, Current
<1>6. CASE Start
  <2>1. Read(file') = book'
    BY <1>6, ReadBook DEF Start
  <2>2. Covers(Read(file))'
    BY <2>1 DEF Covers
  <2>3. pc' = Stopped
    BY <1>6 DEF Start, Alone
  <2>4. Writing' = {}
    BY <2>3 DEF Stopped, Writing
  <2> QED BY <2>2, <2>4 DEF Current
<1>7. CASE StartUnwritten
  <2>1. pc' = Stopped /\ lost' = TRUE
    BY <1>7 DEF StartUnwritten, Alone
  <2>2. Writing' = {}
    BY <2>1 DEF Stopped, Writing
  <2> QED BY <2>1, <2>2 DEF Current
<1>8. CASE UNCHANGED vars
  BY <1>8 DEF vars, Current, Covers, Writing
<1> QED BY <1>1, <1>2, <1>3, <1>4, <1>5, <1>6, <1>7, <1>8 DEF Next
-----------------------------------------------------------------------------
(* What was written out is kept. *)

CopyKeeps(g, a) ==
  /\ saved[a] >= 0 => a \in DOMAIN copy[g]
  /\ a \in DOMAIN copy[g] \ selfAddrs =>
       a \in DOMAIN book /\ AddrSourceRank(book[a].source) >= AddrSourceRank(copy[g][a].source)

\* The conjuncts of Kept, for proofs that take them one by one.
LEMMA KeptParts ==
  ASSUME (\A a \in selfAddrs \cup Listening : saved[a] = -1)',
         (up => Listening \subseteq selfAddrs)',
         (~up /\ mixed => \A a \in Addr : saved[a] = -1)',
         (\A g \in lone \cap Writing : \A a \in Addr : CopyKeeps(g, a))',
         (~mixed => \A a \in Addr : saved[a] >= 0 => Keeps(Read(file), a))',
         SavedKept'
  PROVE  Kept'
BY DEF Kept, CopyKeeps

\* A source that is at least as good as one good enough is good enough.
LEMMA RankTrans ==
  ASSUME NEW s, NEW t, NEW n \in -1..4, AddrSourceRank(s) >= AddrSourceRank(t),
         AddrSourceRank(t) >= n
  PROVE  AddrSourceRank(s) >= n
<1> DEFINE x == AddrSourceRank(s)
           y == AddrSourceRank(t)
<1>1. x \in 0..4 /\ y \in 0..4
  BY RankRange
<1> HIDE DEF x, y
<1>2. x >= y /\ y >= n => x >= n
  BY <1>1
<1> QED BY <1>2 DEF x, y

LEMMA RankInRange ==
  ASSUME NEW s
  PROVE  AddrSourceRank(s) \in -1..4
<1>1. AddrSourceRank(s) \in 0..4
  BY RankRange
<1> QED BY <1>1

LEMMA KeptInit ==
  ASSUME Init
  PROVE  Kept
<1>1. \A a \in Addr : saved[a] = -1 /\ ~(saved[a] >= 0)
  BY DEF Init
<1>2. selfAddrs = {} /\ ~up /\ ~mixed /\ lone = {} /\ Listening \subseteq Addr
  BY DEF Init, Listening
<1> QED BY <1>1, <1>2 DEF Kept, SavedKept

LEMMA KeptStep ==
  ASSUME TypeOK, Alone, Kept, [Next]_vars
  PROVE  Kept'
<1>0. /\ pc \in [Goroutine -> {"idle", "changed", "copied", "opened", "written"}]
      /\ lone \subseteq Goroutine /\ saved \in [Addr -> -1..4] /\ book \in Books
      /\ copy \in [Goroutine -> Books] /\ selfAddrs \subseteq Addr
  BY DEF TypeOK
<1>1. ASSUME NEW g \in Goroutine, NEW a \in Addr, LearnAddr(g, a) \/ RecordDiscoveryResult(g, a)
      PROVE  Kept'
  <2>1. PICK b \in Books : NoWorse(b, book) /\ ChangeBook(g, b)
    BY <1>1, ChangesImprove
  <2>2. UNCHANGED <<up, selfAddrs, copy, file, mixed, lone, saved>> /\ book' = b
    BY <2>1 DEF ChangeBook
  <2>3. Writing' = Writing
    BY <1>0, <2>1 DEF ChangeBook, Writing
  <2>4. ASSUME NEW h \in lone \cap Writing, NEW x \in Addr PROVE CopyKeeps(h, x)'
    <3>1. CopyKeeps(h, x)
      BY DEF Kept, CopyKeeps
    <3>2. ASSUME x \in DOMAIN copy[h] \ selfAddrs
          PROVE  x \in DOMAIN b /\ AddrSourceRank(b[x].source) >= AddrSourceRank(copy[h][x].source)
      <4>1. /\ x \in DOMAIN book
            /\ AddrSourceRank(book[x].source) >= AddrSourceRank(copy[h][x].source)
        BY <3>1, <3>2 DEF CopyKeeps
      <4>2. x \in DOMAIN b /\ AddrSourceRank(b[x].source) >= AddrSourceRank(book[x].source)
        BY <2>1, <4>1 DEF NoWorse
      <4> QED BY <4>1, <4>2, RankTrans, RankInRange
    <3> QED BY <2>2, <3>1, <3>2 DEF CopyKeeps
  <2>5. SavedKept'
    <3> SUFFICES ASSUME up, NEW x \in Addr, saved[x] >= 0
                 PROVE  x \in DOMAIN b /\ AddrSourceRank(b[x].source) >= saved[x]
      BY <2>2 DEF SavedKept
    <3>1. x \in DOMAIN book /\ AddrSourceRank(book[x].source) >= saved[x]
      BY DEF Kept, SavedKept
    <3>2. x \in DOMAIN b /\ AddrSourceRank(b[x].source) >= AddrSourceRank(book[x].source)
      BY <2>1, <3>1 DEF NoWorse
    <3>3. saved[x] \in -1..4
      BY <1>0
    <3> QED BY <3>1, <3>2, <3>3, RankTrans
  <2>6. (~mixed => \A x \in Addr : saved[x] >= 0 => Keeps(Read(file), x))'
    BY <2>2 DEF Kept, Keeps
  <2>7. (\A x \in selfAddrs \cup Listening : saved[x] = -1)' /\ (up => Listening \subseteq selfAddrs)'
          /\ (~up /\ mixed => \A x \in Addr : saved[x] = -1)'
    BY <2>2 DEF Kept
  <2>8. (\A h \in lone \cap Writing : \A x \in Addr : CopyKeeps(h, x))'
    BY <2>2, <2>3, <2>4
  <2> QED BY <2>5, <2>6, <2>7, <2>8, KeptParts
<1>2. ASSUME NEW g \in Goroutine, AddrBookEntries(g)
      PROVE  Kept'
  <2>1. /\ UNCHANGED <<up, selfAddrs, book, file, saved>> /\ lone' \subseteq {g}
        /\ copy'[g] = book /\ (mixed => mixed')
    BY <1>0, <1>2 DEF AddrBookEntries
  <2>2. up
    BY <1>2 DEF AddrBookEntries, Alone, Stopped
  <2>3. ASSUME NEW x \in Addr PROVE CopyKeeps(g, x)'
    <3>1. saved[x] >= 0 => x \in DOMAIN book
      BY <2>2 DEF Kept, SavedKept
    <3>2. AddrSourceRank(book[x].source) >= AddrSourceRank(book[x].source)
      BY RankRange, Zenon
    <3> QED BY <2>1, <3>1, <3>2 DEF CopyKeeps
  <2>4. (\A h \in lone \cap Writing : \A x \in Addr : CopyKeeps(h, x))'
    BY <2>1, <2>3
  <2>5. (~mixed => \A x \in Addr : saved[x] >= 0 => Keeps(Read(file), x))' /\ SavedKept'
    BY <2>1 DEF Kept, Keeps, SavedKept
  <2>6. (\A x \in selfAddrs \cup Listening : saved[x] = -1)' /\ (up => Listening \subseteq selfAddrs)'
          /\ (~up /\ mixed => \A x \in Addr : saved[x] = -1)'
    BY <2>1, <2>2 DEF Kept
  <2> QED BY <2>4, <2>5, <2>6, KeptParts
<1>3. ASSUME NEW g \in Goroutine, OpenTmp(g) \/ WriteTmp(g) \/ WriteFails(g)
      PROVE  Kept'
  <2>1. UNCHANGED <<up, book, selfAddrs, copy, lone, mixed, saved>>
    BY <1>3 DEF OpenTmp, WriteTmp, WriteFails
  <2>2. Writing' \subseteq Writing /\ g \in Writing
    BY <1>0, <1>3 DEF OpenTmp, WriteTmp, WriteFails, Writing
  <2>3. ~mixed => file' = file
    <3>1. ~mixed => g \in lone
      BY <2>2 DEF Alone
    <3> QED BY <1>3, <3>1 DEF OpenTmp, WriteTmp, WriteFails, Alone
  <2>4. (~mixed => \A x \in Addr : saved[x] >= 0 => Keeps(Read(file), x))' /\ SavedKept'
    BY <2>1, <2>3 DEF Kept, Keeps, SavedKept
  <2>5. (\A h \in lone \cap Writing : \A x \in Addr : CopyKeeps(h, x))'
    BY <2>1, <2>2 DEF Kept, CopyKeeps
  <2>6. (\A x \in selfAddrs \cup Listening : saved[x] = -1)' /\ (up => Listening \subseteq selfAddrs)'
          /\ (~up /\ mixed => \A x \in Addr : saved[x] = -1)'
    BY <2>1 DEF Kept
  <2> QED BY <2>4, <2>5, <2>6, KeptParts
<1>4. ASSUME NEW g \in Goroutine, RenameTmp(g)
      PROVE  Kept'
  <2>1. UNCHANGED <<up, book, selfAddrs, copy, lone>>
    BY <1>4 DEF RenameTmp
  <2>2. Writing' = Writing \ {g} /\ g \in Writing
    BY <1>0, <1>4 DEF RenameTmp, Writing
  <2>3. up
    BY <1>4 DEF RenameTmp, Alone, Stopped
  <2>4. CASE g \notin lone
    <3>1. mixed
      BY <2>2, <2>4 DEF Alone
    <3>2. mixed'
      BY <1>4, <2>4, <3>1, Zenon DEF RenameTmp
    <3>3. saved' = saved
      BY <1>0, <1>4, <2>4 DEF RenameTmp
    <3>4. (\A h \in lone \cap Writing : \A x \in Addr : CopyKeeps(h, x))'
      BY <2>1, <2>2, <3>3 DEF Kept, CopyKeeps
    <3>5. (\A x \in selfAddrs \cup Listening : saved[x] = -1)' /\ (up => Listening \subseteq selfAddrs)'
            /\ (~up /\ mixed => \A x \in Addr : saved[x] = -1)' /\ SavedKept'
      BY <2>1, <2>3, <3>3 DEF Kept, SavedKept
    <3> QED BY <3>2, <3>4, <3>5, KeptParts
  <2>5. CASE g \in lone
    <3>1. tmp = Book(copy[g]) /\ lone \cap Writing' = {}
      BY <1>4, <2>2, <2>5 DEF RenameTmp, Alone
    <3>2. file' = Book(copy[g])
      BY <1>4, <3>1, ReadBook DEF RenameTmp
    <3>3. Read(file') = copy[g]
      BY <3>2, ReadBook
    <3>4. \A x \in Addr : CopyKeeps(g, x)
      BY <2>2, <2>5 DEF Kept, CopyKeeps
    <3>5. ASSUME NEW x \in Addr, x \in (DOMAIN copy[g] \cap DOMAIN book) \ selfAddrs
          PROVE  /\ saved'[x] = AddrSourceRank(copy[g][x].source)
                 /\ AddrSourceRank(copy[g][x].source) >= saved'[x]
                 /\ AddrSourceRank(book[x].source) >= saved'[x]
      <4>1. saved'[x] = AddrSourceRank(copy[g][x].source)
        BY <1>4, <2>5, <3>5 DEF RenameTmp
      <4>2. AddrSourceRank(book[x].source) >= AddrSourceRank(copy[g][x].source)
        BY <3>4, <3>5 DEF CopyKeeps
      <4>3. AddrSourceRank(copy[g][x].source) >= AddrSourceRank(copy[g][x].source)
        BY RankRange, Zenon
      <4> QED BY <4>1, <4>2, <4>3
    <3>6. ASSUME NEW x \in Addr, x \notin (DOMAIN copy[g] \cap DOMAIN book) \ selfAddrs
          PROVE  saved'[x] = saved[x]
      BY <1>4, <3>6 DEF RenameTmp
    <3>7. ASSUME NEW x \in Addr, saved'[x] >= 0
          PROVE  x \in (DOMAIN copy[g] \cap DOMAIN book) \ selfAddrs
      <4> SUFFICES ASSUME x \notin (DOMAIN copy[g] \cap DOMAIN book) \ selfAddrs PROVE FALSE
        OBVIOUS
      <4>1. saved[x] >= 0
        BY <3>6, <3>7
      <4>2. x \notin selfAddrs
        BY <4>1 DEF Kept
      <4> QED BY <3>4, <4>1, <4>2 DEF CopyKeeps
    <3>8. (~mixed => \A x \in Addr : saved[x] >= 0 => Keeps(Read(file), x))'
      BY <2>1, <3>3, <3>5, <3>7 DEF Keeps
    <3>9. SavedKept'
      BY <2>1, <3>5, <3>7 DEF SavedKept
    <3>10. (\A x \in selfAddrs \cup Listening : saved[x] = -1)'
      <4>1. \A x \in selfAddrs \cup Listening : saved[x] = -1 /\ x \in selfAddrs
        BY <2>3 DEF Kept
      <4> QED BY <1>0, <2>1, <3>6, <4>1
    <3>11. (up => Listening \subseteq selfAddrs)'
      BY <2>1 DEF Kept
    <3>12. (\A h \in lone \cap Writing : \A x \in Addr : CopyKeeps(h, x))'
      BY <2>1, <3>1
    <3> QED BY <2>1, <2>3, <3>8, <3>9, <3>10, <3>11, <3>12, KeptParts
  <2> QED BY <2>4, <2>5
<1>5. ASSUME NEW a \in Addr, RememberSelfAddr(a)
      PROVE  Kept'
  <2>1. UNCHANGED <<up, copy, file, mixed, lone>> /\ Writing' = Writing
    BY <1>5 DEF RememberSelfAddr, Writing
  <2>2. saved'[a] = -1 /\ \A x \in Addr : x # a => saved'[x] = saved[x]
    BY <1>0, <1>5 DEF RememberSelfAddr
  <2>3. selfAddrs' = selfAddrs \cup {a} /\ book' = [x \in DOMAIN book \ {a} |-> book[x]]
    BY <1>5 DEF RememberSelfAddr
  <2>4. ~(saved'[a] >= 0)
    BY <2>2
  <2>5. ASSUME NEW h \in lone \cap Writing, NEW x \in Addr PROVE CopyKeeps(h, x)'
    <3>1. CopyKeeps(h, x)
      BY DEF Kept, CopyKeeps
    <3> QED BY <2>1, <2>2, <2>3, <2>4, <3>1 DEF CopyKeeps
  <2>6. (\A h \in lone \cap Writing : \A x \in Addr : CopyKeeps(h, x))'
    BY <2>1, <2>5
  <2>7. SavedKept'
    BY <2>1, <2>2, <2>3, <2>4 DEF Kept, SavedKept
  <2>8. (~mixed => \A x \in Addr : saved[x] >= 0 => Keeps(Read(file), x))'
    BY <2>1, <2>2, <2>4 DEF Kept, Keeps
  <2>9. (\A x \in selfAddrs \cup Listening : saved[x] = -1)'
    <3>1. Listening \subseteq Addr
      BY DEF Listening
    <3> QED BY <1>0, <2>2, <2>3, <3>1 DEF Kept
  <2>10. (up => Listening \subseteq selfAddrs)' /\ (~up /\ mixed => \A x \in Addr : saved[x] = -1)'
    BY <1>5, <2>1, <2>3 DEF Kept, RememberSelfAddr
  <2> QED BY <2>6, <2>7, <2>8, <2>9, <2>10, KeptParts
<1>6. CASE Crash
  <2>1. ~up' /\ selfAddrs' = {} /\ UNCHANGED <<file, mixed, lone>>
    BY <1>6 DEF Crash
  <2>2. Writing' = {}
    BY <1>6 DEF Crash, Stopped, Writing
  <2>3. (mixed => \A x \in Addr : saved'[x] = -1) /\ (~mixed => saved' = saved)
    BY <1>6 DEF Crash
  <2>4. (\A x \in selfAddrs \cup Listening : saved[x] = -1)'
    <3>1. Listening \subseteq Addr
      BY DEF Listening
    <3> QED BY <2>1, <2>3, <3>1 DEF Kept
  <2>5. (~mixed => \A x \in Addr : saved[x] >= 0 => Keeps(Read(file), x))'
    BY <2>1, <2>3 DEF Kept, Keeps
  <2>6. (\A h \in lone \cap Writing : \A x \in Addr : CopyKeeps(h, x))'
    BY <2>2
  <2>7. (~up /\ mixed => \A x \in Addr : saved[x] = -1)'
    BY <2>1, <2>3
  <2>8. SavedKept'
    BY <2>1 DEF SavedKept
  <2> QED BY <2>1, <2>4, <2>5, <2>6, <2>7, <2>8, KeptParts
<1>7. CASE Start \/ StartUnwritten
  <2> DEFINE b == WithConfigured(Read(file))
  <2>1. ~up /\ up' /\ book' = b /\ selfAddrs' = Listening /\ UNCHANGED <<pc, mixed, saved>>
    BY <1>7 DEF Start, StartUnwritten
  <2>2. Read(file') = b \/ file' = file
    BY <1>7, ReadBook DEF Start, StartUnwritten
  <2>3. Writing' = {}
    <3>1. pc' = Stopped
      BY <2>1 DEF Alone
    <3> QED BY <3>1 DEF Stopped, Writing
  <2>4. Read(file) \in Books
    BY FileTypes, ReadIs DEF FileType
  <2>5. ASSUME NEW x \in Addr, saved[x] >= 0
        PROVE  x \in DOMAIN b /\ AddrSourceRank(b[x].source) >= saved[x]
    <3>1. saved[x] # -1 /\ saved[x] \in -1..4
      BY <1>0, <2>5
    <3>2. ~mixed /\ x \notin Listening
      BY <2>1, <3>1 DEF Kept
    <3>3. x \in DOMAIN Read(file) /\ AddrSourceRank(Read(file)[x].source) >= saved[x]
      BY <2>5, <3>2 DEF Kept, Keeps
    <3>4. x \in DOMAIN b /\ AddrSourceRank(b[x].source) >= AddrSourceRank(Read(file)[x].source)
      BY <2>4, <3>2, <3>3, WithConfiguredIs
    <3> QED BY <3>1, <3>3, <3>4, RankTrans
  <2> HIDE DEF b
  <2>6. (~mixed => \A x \in Addr : saved[x] >= 0 => Keeps(Read(file), x))' /\ SavedKept'
    <3>1. SavedKept'
      BY <2>1, <2>5 DEF SavedKept
    <3>2. CASE Read(file') = b
      BY <2>1, <2>5, <3>1, <3>2 DEF Keeps
    <3>3. CASE file' = file
      BY <2>1, <3>1, <3>3 DEF Keeps, Kept
    <3> QED BY <2>2, <3>2, <3>3
  <2>7. (\A x \in selfAddrs \cup Listening : saved[x] = -1)' /\ (up => Listening \subseteq selfAddrs)'
          /\ (~up /\ mixed => \A x \in Addr : saved[x] = -1)'
    BY <2>1 DEF Kept
  <2>8. (\A h \in lone \cap Writing : \A x \in Addr : CopyKeeps(h, x))'
    BY <2>3
  <2> QED BY <2>6, <2>7, <2>8, KeptParts
<1>8. CASE UNCHANGED vars
  BY <1>8 DEF vars, Kept, Keeps, SavedKept, Writing
<1> QED BY <1>1, <1>2, <1>3, <1>4, <1>5, <1>6, <1>7, <1>8 DEF Next

-----------------------------------------------------------------------------
(* The theorems. *)

\* The invariant behind the theorems below: the writer that persistAddrBook let in
\* alone has the temporary file to itself, its copy or else the file has all of the
\* book, and nothing of what was written out has been lost since.
THEOREM BookInvariant == Spec => []AInv
<1>1. Init => AInv
  <2> SUFFICES ASSUME Init PROVE AInv
    OBVIOUS
  <2>1. Current
    BY DEF Init, Current
  <2> QED BY <2>1, TypeInit, AloneInit, KeptInit DEF AInv
<1>2. AInv /\ [Next]_vars => AInv'
  BY TypeStep, AloneStep, CurrentStep, KeptStep DEF AInv
<1> QED BY <1>1, <1>2, PTL DEF Spec

\* Whatever step of persistAddrBook a crash interrupts, and however many goroutines
\* save, the next NewNode can decode peers.json unless saves overlapped.
THEOREM FileAlwaysDecodes == Spec => []FileDecodes
<1>1. AInv => FileDecodes
  BY DEF AInv, Alone
<1> QED BY <1>1, BookInvariant, PTL

\* With no save under way peers.json holds the book, for any number of addresses and
\* goroutines, unless the last save failed or overlapped another.
THEOREM FileHasBook == Spec => []FileCurrent
<1>1. AInv => FileCurrent
  <2> SUFFICES ASSUME AInv, up, ~mixed, ~lost, pc = Stopped
               PROVE  Covers(Read(file))
    BY DEF FileCurrent, Covers
  <2>1. Writing = {} /\ \A g \in Goroutine : pc[g] # "changed"
    BY DEF Stopped, Writing
  <2> QED BY <2>1 DEF AInv, Current
<1> QED BY <1>1, BookInvariant, PTL

\* No failed save, crash or restart loses an address that a save reported as written,
\* or makes its source worse.
THEOREM SavedAddressesKept == Spec => []SavedKept
<1>1. AInv => SavedKept
  BY DEF AInv, Kept
<1> QED BY <1>1, BookInvariant, PTL

=============================================================================
