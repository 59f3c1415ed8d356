------------------------------ MODULE AddrBook ------------------------------
(***************************************************************************)
(* The address book of the p2p node and its file.                          *)
(*                                                                         *)
(* The book is changed under Node.mu by whichever goroutine learns of an   *)
(* address or dials one.  A goroutine that changed it then writes all of   *)
(* it out: it takes a copy under the mutex, and without the mutex opens    *)
(* peers.json.tmp, writes the copy and renames the file into place.        *)
(* Every goroutine uses the same temporary name, so two that do this at    *)
(* the same time may share a file, and an open file keeps its identity     *)
(* when it is renamed.                                                     *)
(***************************************************************************)
EXTENDS Integers, FiniteSets, Functions

CONSTANTS
    Addr,           \* normalised addresses
    Configured,     \* Configured[a]: "manual", "seed", "listen" or "" for NewNode's learnAddr
    Goroutine,
    LegacyBook,     \* what the file of the old format holds; {} for no file
    MaxFailures,    \* bound on an entry's failure count
    MaxChanges,     \* bound on the changes to the book
    MaxFaults       \* bound on failed writes and crashes

VARIABLES
    up,
    book,           \* n.addrBook
    selfAddrs,
    pc, copy,       \* where each goroutine is in persistAddrBook, and its copy
    fd,             \* which file its open descriptor names now
    file, tmp,      \* contents by name
    mixed, lone,    \* history: a write that was not alone may have left its mark; the one that is alone
    lost,           \* history: a write failed and none has succeeded since
    saved,          \* history: rank of an address's source when a write last reported success
    changes, faults

vars == <<up, book, selfAddrs, pc, copy, fd, file, tmp, mixed, lone, lost, saved, changes, faults>>

Source == {"verified", "manual", "seed", "discovered", "listen"}
Entry == [source : Source, failures : 0..MaxFailures]
Books == UNION {[s -> Entry] : s \in SUBSET Addr}
EmptyBook == [a \in {} |-> {}]

\* A file holds a book, a list of addresses in the old format, or something that is
\* not JSON: nothing yet, or one book over another.
Book(b) == [kind |-> "book", book |-> b]
Legacy == [kind |-> "legacy", book |-> EmptyBook]
Empty == [kind |-> "empty", book |-> EmptyBook]
Torn == [kind |-> "torn", book |-> EmptyBook]
NoFile == [kind |-> "none", book |-> EmptyBook]

ASSUME AddrBookAssumption ==
    /\ Configured \in [Addr -> {"manual", "seed", "listen", ""}]
    /\ LegacyBook \subseteq Addr
    /\ MaxFailures \in Nat /\ MaxChanges \in Nat /\ MaxFaults \in Nat

TypeOK ==
    /\ up \in BOOLEAN
    /\ book \in Books
    /\ selfAddrs \subseteq Addr
    /\ pc \in [Goroutine -> {"idle", "changed", "copied", "opened", "written"}]
    /\ copy \in [Goroutine -> Books]
    /\ fd \in [Goroutine -> {"closed", "tmp", "file", "gone"}]
    /\ {file.kind, tmp.kind} \subseteq {"none", "book", "legacy", "empty", "torn"}
    /\ {file.book, tmp.book} \subseteq Books
    /\ mixed \in BOOLEAN /\ lost \in BOOLEAN
    /\ lone \subseteq Goroutine /\ saved \in [Addr -> -1..4]
    /\ changes \in 0..MaxChanges /\ faults \in 0..MaxFaults

-----------------------------------------------------------------------------
(* The book. *)

AddrSourceRank(source) ==
    CASE source = "verified" -> 4 [] source = "manual" -> 3 [] source = "seed" -> 2
      [] source = "discovered" -> 1 [] OTHER -> 0

Put(b, a, e) == [x \in DOMAIN b \cup {a} |-> IF x = a THEN e ELSE b[x]]

\* Mutant: the latest report wins.
LearnedLatest(b, a, source) ==
    Put(b, a, [source |-> source, failures |-> IF a \in DOMAIN b THEN b[a].failures ELSE 0])

\* learnAddr.
Learned(b, a, source) ==
    IF a \notin DOMAIN b THEN Put(b, a, [source |-> source, failures |-> 0])
    ELSE IF AddrSourceRank(source) > AddrSourceRank(b[a].source)
    THEN [b EXCEPT ![a].source = source]
    ELSE b

\* recordDiscoveryResult; LastSuccess is left out.
Recorded(b, a, success) ==
    IF success THEN [b EXCEPT ![a] = [source |-> "verified", failures |-> 0]]
    ELSE [b EXCEPT ![a].failures = @ + 1]

\* NewNode's calls of rememberSelfAddr and learnAddr after the file is read.
Listening == {a \in Addr : Configured[a] = "listen"}

WithConfigured(b) ==
    LET others == [a \in DOMAIN b \ Listening |-> b[a]]
    IN [a \in DOMAIN b \cup {x \in Addr : Configured[x] # ""} |->
          IF Configured[a] = "" THEN b[a] ELSE Learned(others, a, Configured[a])[a]]

\* loadAddrBook, of a file it can decode.
Read(f) ==
    CASE f.kind = "book" -> f.book
      [] f.kind = "legacy" -> [a \in LegacyBook |-> [source |-> "discovered", failures |-> 0]]
      [] OTHER -> EmptyBook

Decodes(f) == f.kind \in {"none", "book", "legacy"}

-----------------------------------------------------------------------------
(* Changing the book. *)

ChangeBook(g, b) ==
    /\ up /\ pc[g] = "idle" /\ changes < MaxChanges
    /\ book' = b
    /\ changes' = changes + 1
    /\ pc' = [pc EXCEPT ![g] = "changed"]
    /\ UNCHANGED <<up, selfAddrs, copy, fd, file, tmp, mixed, lone, lost, saved, faults>>

\* Mutant: a better source for a known address is not written out.
LearnQuietly(g, a) ==
    \E source \in {"discovered", "verified"} :
       LET b == Learned(book, a, source) IN
       /\ b # book
       /\ \/ ChangeBook(g, b)
          \/ /\ up /\ a \in DOMAIN book /\ book' = b
             /\ UNCHANGED <<up, selfAddrs, pc, copy, fd, file, tmp, mixed, lone, lost, saved,
                            changes, faults>>

\* handleAddr, and handleConn after a handshake.
LearnAddr(g, a) ==
    \E source \in {"discovered", "verified"} :
       Learned(book, a, source) # book /\ ChangeBook(g, Learned(book, a, source))

\* Written out even if the time of the last success is all that changes.
RecordDiscoveryResult(g, a) ==
    /\ a \in DOMAIN book
    /\ \E success \in BOOLEAN :
         (success \/ book[a].failures < MaxFailures) /\ ChangeBook(g, Recorded(book, a, success))

\* rememberSelfAddr does not write the book out.
RememberSelfAddr(a) ==
    /\ up /\ a \notin selfAddrs /\ changes < MaxChanges
    /\ selfAddrs' = selfAddrs \cup {a}
    /\ book' = [x \in DOMAIN book \ {a} |-> book[x]]
    /\ changes' = changes + 1
    /\ saved' = [saved EXCEPT ![a] = -1]
    /\ UNCHANGED <<up, pc, copy, fd, file, tmp, mixed, lone, lost, faults>>

-----------------------------------------------------------------------------
(* persistAddrBook. *)

Writing == {g \in Goroutine : pc[g] \in {"copied", "opened", "written"}}

AddrBookEntries(g) ==
    /\ pc[g] = "changed"
    /\ copy' = [copy EXCEPT ![g] = book] /\ pc' = [pc EXCEPT ![g] = "copied"]
    /\ mixed' = (mixed \/ Writing # {})
    /\ lone' = IF Writing = {} THEN {g} ELSE {}
    /\ UNCHANGED <<up, book, selfAddrs, fd, file, tmp, lost, saved, changes, faults>>

\* Mutant: the file itself is opened.
OpenInPlace(g) ==
    /\ pc[g] = "copied"
    /\ file' = Empty /\ UNCHANGED tmp
    /\ fd' = [fd EXCEPT ![g] = "file"] /\ pc' = [pc EXCEPT ![g] = "opened"]
    /\ UNCHANGED <<up, book, selfAddrs, copy, mixed, lone, lost, saved, changes, faults>>

\* os.WriteFile opens with O_CREATE and O_TRUNC ...
OpenTmp(g) ==
    /\ pc[g] = "copied"
    /\ tmp' = Empty /\ UNCHANGED file
    /\ fd' = [fd EXCEPT ![g] = "tmp"] /\ pc' = [pc EXCEPT ![g] = "opened"]
    /\ UNCHANGED <<up, book, selfAddrs, copy, mixed, lone, lost, saved, changes, faults>>

\* What a file holds after b is written from its start over what it held: a longer
\* text keeps its tail.
Overwritten(held, b) ==
    IF held.kind = "empty" \/ held = Book(b) THEN {Book(b)}
    ELSE IF held.kind = "torn" \/ Cardinality(DOMAIN held.book) = Cardinality(DOMAIN b)
    THEN {Book(b), Torn}
    ELSE IF Cardinality(DOMAIN held.book) > Cardinality(DOMAIN b) THEN {Torn} ELSE {Book(b)}

\* ... and writes.
WriteTmp(g) ==
    /\ pc[g] = "opened"
    /\ \/ fd[g] = "tmp" /\ tmp' \in Overwritten(tmp, copy[g]) /\ UNCHANGED file
       \/ fd[g] = "file" /\ file' \in Overwritten(file, copy[g]) /\ UNCHANGED tmp
       \/ fd[g] = "gone" /\ UNCHANGED <<file, tmp>>
    /\ pc' = [pc EXCEPT ![g] = "written"] /\ fd' = [fd EXCEPT ![g] = "closed"]
    /\ UNCHANGED <<up, book, selfAddrs, copy, mixed, lone, lost, saved, changes, faults>>

\* The disk is full, say.  The error is logged.
WriteFails(g) ==
    /\ pc[g] = "opened" /\ faults < MaxFaults
    /\ \/ fd[g] = "tmp" /\ tmp' = Torn /\ UNCHANGED file
       \/ fd[g] = "file" /\ file' = Torn /\ UNCHANGED tmp
       \/ fd[g] = "gone" /\ UNCHANGED <<file, tmp>>
    /\ pc' = [pc EXCEPT ![g] = "idle"] /\ fd' = [fd EXCEPT ![g] = "closed"]
    /\ lost' = TRUE /\ faults' = faults + 1
    /\ UNCHANGED <<up, book, selfAddrs, copy, mixed, lone, saved, changes>>

\* Without a temporary file the rename fails, which is logged.
RenameTmp(g) ==
    /\ pc[g] = "written"
    /\ pc' = [pc EXCEPT ![g] = "idle"]
    /\ IF tmp.kind = "none" THEN UNCHANGED <<file, tmp, fd>>
       ELSE /\ file' = tmp /\ tmp' = NoFile
            /\ fd' = [h \in Goroutine |-> CASE fd[h] = "tmp" -> "file"
                                            [] fd[h] = "file" -> "gone"
                                            [] OTHER -> fd[h]]
    /\ lost' = (lost /\ g \notin lone) /\ mixed' = (mixed /\ g \notin lone)
    /\ saved' = [a \in Addr |->
                   IF g \in lone /\ a \in (DOMAIN copy[g] \cap DOMAIN book) \ selfAddrs
                   THEN AddrSourceRank(copy[g][a].source) ELSE saved[a]]
    /\ UNCHANGED <<up, book, selfAddrs, copy, lone, changes, faults>>

-----------------------------------------------------------------------------
(* Stopping and starting. *)

Stopped == [g \in Goroutine |-> "idle"]

Crash ==
    /\ up /\ faults < MaxFaults
    /\ up' = FALSE /\ faults' = faults + 1
    /\ book' = EmptyBook /\ selfAddrs' = {}
    /\ pc' = Stopped /\ fd' = [g \in Goroutine |-> "closed"]
    /\ lost' = (lost \/ \E g \in Goroutine : pc[g] # "idle")
    /\ saved' = IF mixed THEN [a \in Addr |-> -1] ELSE saved
    /\ UNCHANGED <<copy, file, tmp, mixed, lone, changes>>

\* NewNode, which fails if the file does not decode.  It learns the configured
\* addresses before any goroutine runs, and writes them out if they are news.
Start ==
    LET b == WithConfigured(Read(file)) IN
    /\ ~up /\ Decodes(file)
    /\ up' = TRUE /\ book' = b /\ selfAddrs' = Listening
    /\ file' = IF b = Read(file) /\ Listening = {} THEN file ELSE Book(b)
    /\ tmp' = IF b = Read(file) /\ Listening = {} THEN tmp ELSE NoFile
    /\ UNCHANGED <<pc, copy, fd, mixed, lone, lost, saved, changes, faults>>

\* The same on a disk that is full: the errors are logged, and the node runs.
StartUnwritten ==
    LET b == WithConfigured(Read(file)) IN
    /\ ~up /\ Decodes(file) /\ faults < MaxFaults /\ (b # Read(file) \/ Listening # {})
    /\ up' = TRUE /\ book' = b /\ selfAddrs' = Listening
    /\ tmp' = Torn /\ lost' = TRUE /\ faults' = faults + 1
    /\ UNCHANGED <<pc, copy, fd, file, mixed, lone, saved, changes>>

Init ==
    /\ up = FALSE /\ book = EmptyBook /\ selfAddrs = {}
    /\ pc = Stopped /\ copy = [g \in Goroutine |-> EmptyBook]
    /\ fd = [g \in Goroutine |-> "closed"]
    /\ file = (IF LegacyBook = {} THEN NoFile ELSE Legacy) /\ tmp = NoFile
    /\ mixed = FALSE /\ lone = {} /\ lost = FALSE /\ saved = [a \in Addr |-> -1]
    /\ changes = 0 /\ faults = 0

Next ==
    \/ \E g \in Goroutine :
         \/ \E a \in Addr : LearnAddr(g, a) \/ RecordDiscoveryResult(g, a)
         \/ AddrBookEntries(g) \/ OpenTmp(g) \/ WriteTmp(g) \/ WriteFails(g) \/ RenameTmp(g)
    \/ \E a \in Addr : RememberSelfAddr(a)
    \/ Crash \/ Start \/ StartUnwritten

Spec == Init /\ [][Next]_vars

-----------------------------------------------------------------------------
(* Properties. *)

(***************************************************************************)
(* A crash at any moment leaves a file the next NewNode can read, unless   *)
(* two goroutines wrote the book at the same time and none has done so     *)
(* alone since: then the file may be empty or a mixture, and the node does *)
(* not start.                                                              *)
(***************************************************************************)
FileDecodes == ~mixed => Decodes(file)

(***************************************************************************)
(* When no write is under way the file has every address of the book with  *)
(* its source and failures, and beyond them only addresses found to be the *)
(* node's own, unless the last write failed or was not alone.              *)
(***************************************************************************)
FileCurrent ==
    (up /\ ~mixed /\ ~lost /\ pc = Stopped) =>
       LET stored == Read(file) IN
       /\ \A a \in DOMAIN book : a \in DOMAIN stored /\ stored[a] = book[a]
       /\ DOMAIN stored \ DOMAIN book \subseteq selfAddrs

(***************************************************************************)
(* An address whose entry was written out is known ever after, through     *)
(* failed writes, crashes and restarts, from a source at least as good,    *)
(* until it turns out to be the node's own.  Two writes at the same time   *)
(* followed by a crash are the exception.                                  *)
(***************************************************************************)
SavedKept ==
    up => \A a \in Addr :
             saved[a] >= 0 => a \in DOMAIN book /\ AddrSourceRank(book[a].source) >= saved[a]

=============================================================================
