-------------------------- MODULE BlockStoreProofs --------------------------
(***************************************************************************)
(* Proofs about the lines of blocks.jsonl, for every block tree, every set *)
(* of chains a reorganisation may adopt and any number of faults.          *)
(***************************************************************************)
EXTENDS BlockStore, SequenceTheorems, WellFoundedInduction, TLAPS

\* The lines before a torn record at the end of the file.
Whole(ls) == IF ls # <<>> /\ ls[Len(ls)] = <<Torn>> THEN Len(ls) - 1 ELSE Len(ls)

\* The first k lines hold the records of a valid chain.
Clean(ls, k) == \A i \in 1..k : Parses(ls[i]) /\ Links(ls[i][1], RecordBefore(ls, i), i)

\* Repair cuts only what it has copied.
CopiedBeforeCut == state = "backed" => lines \in backups /\ cut \in 0..Len(lines)

\* The file holds the chain that is, was or was about to be in memory, and perhaps a record
\* and a torn one after it.
SoundFile ==
  /\ Clean(lines, Whole(lines))
  /\ ended <=> Whole(lines) = Len(lines)
  /\ Len(due) <= Whole(lines)
  /\ \A i \in 1..Len(due) : lines[i][1] = due[i]
  /\ \A b \in kept : \E i \in 1..Len(due) : due[i] = b
  /\ state \in {"up", "adding"} => Len(due) = Whole(lines) /\ ended
  /\ state = "up" => due = acked
  /\ state = "backed" => cut = Whole(lines)

\* It does after the faults that Append and Repair provide for.
Sound == ~spoiled => SoundFile

\* The inductive invariant.
BInv == TypeOK /\ CopiedBeforeCut /\ Recoverable /\ Sound

-----------------------------------------------------------------------------
(* The first bad line. *)

LEMMA LeastNat ==
  ASSUME NEW T \in SUBSET Nat, T # {}
  PROVE  \E x \in T : \A y \in T : x <= y
<1>1. PICK x \in T : \A y \in T : ~ (<<y, x>> \in OpToRel(<, Nat))
  BY NatLessThanWellFounded, WFMin
<1>2. \A y \in T : ~ (y < x)
  BY <1>1 DEF OpToRel
<1> QED BY <1>2

LEMMA ReadsLess ==
  ASSUME NEW ls, NEW now, NEW k \in Nat, NEW j \in 0..k, Reads(ls, k, now)
  PROVE  Reads(ls, j, now)
<1>1. \A i \in 1..j : i \in 1..k
  OBVIOUS
<1> QED BY <1>1, Zenon DEF Reads

\* load stops somewhere, whatever the file holds.
LEMMA GoodLinesExist ==
  ASSUME NEW ls, Len(ls) \in Nat, NEW now
  PROVE  /\ GoodLines(ls, now) \in 0..Len(ls)
         /\ Reads(ls, GoodLines(ls, now), now)
         /\ GoodLines(ls, now) < Len(ls) => ~Reads(ls, GoodLines(ls, now) + 1, now)
<1> DEFINE n == Len(ls)
           T == {k \in 1..(n+1) : k = n + 1 \/ ~Reads(ls, k, now)}
<1>1. T \in SUBSET Nat /\ n + 1 \in T
  OBVIOUS
<1>2. PICK x \in T : \A y \in T : x <= y
  BY <1>1, LeastNat
<1>3. x - 1 \in 0..n /\ x - 1 \notin T
  BY <1>2
<1>4. Reads(ls, x - 1, now)
  <2>1. CASE x = 1
    BY <2>1 DEF Reads
  <2>2. CASE x # 1
    BY <1>3, <2>2
  <2> QED BY <2>1, <2>2
<1>5. x - 1 < n => ~Reads(ls, (x - 1) + 1, now)
  BY <1>2
<1>6. \E k \in 0..Len(ls) : Reads(ls, k, now) /\ (k < Len(ls) => ~Reads(ls, k + 1, now))
  BY <1>3, <1>4, <1>5
<1> QED BY <1>6 DEF GoodLines

\* The lines load gets through are those of the chain, if only the line after them is bad.
LEMMA GoodLinesAre ==
  ASSUME NEW ls \in Seq(Seq(Piece)), NEW now, MiningOpen(now), Clean(ls, Whole(ls))
  PROVE  /\ Reads(ls, Whole(ls), now)
         /\ GoodLines(ls, now) = Whole(ls)
         /\ Whole(ls) \in 0..Len(ls)
         /\ Whole(ls) < Len(ls) => ~Reads(ls, Len(ls), now)
<1> DEFINE w == Whole(ls) g == GoodLines(ls, now)
<1>1. Len(ls) \in Nat /\ w \in 0..Len(ls) /\ (w < Len(ls) => w + 1 = Len(ls) /\ ls[w + 1] = <<Torn>>)
  BY DEF Whole
<1>2. Reads(ls, w, now)
  BY DEF Reads, Clean, ValidateBlock
<1>3. w < Len(ls) => ~Parses(ls[w + 1])
  BY <1>1, StoreAssumption DEF Parses, AnyBlock
<1>4. w < Len(ls) => ~Reads(ls, w + 1, now)
  <2>1. w + 1 \in 1..(w + 1)
    BY <1>1
  <2> QED BY <1>3, <2>1, Zenon DEF Reads
<1>5. /\ g \in 0..Len(ls) /\ Reads(ls, g, now)
      /\ g < Len(ls) => ~Reads(ls, g + 1, now)
  BY <1>1, GoodLinesExist
<1> HIDE DEF w, g
<1>6. ~(g < w)
  <2> SUFFICES ASSUME g < w PROVE FALSE
    OBVIOUS
  <2>1. g + 1 \in 0..w /\ w \in Nat /\ g < Len(ls)
    BY <1>1, <1>5
  <2> QED BY <1>2, <1>5, <2>1, ReadsLess
<1>7. ~(w < g)
  <2> SUFFICES ASSUME w < g PROVE FALSE
    OBVIOUS
  <2>1. w + 1 \in 0..g /\ g \in Nat /\ w < Len(ls)
    BY <1>1, <1>5
  <2> QED BY <1>4, <1>5, <2>1, ReadsLess
<1>8. g = w
  BY <1>1, <1>5, <1>6, <1>7
<1> QED BY <1>1, <1>2, <1>4, <1>8 DEF w, g

-----------------------------------------------------------------------------
(* What a write does to the lines. *)

LEMMA CleanSame ==
  ASSUME NEW ls, NEW m, NEW k \in Nat, Clean(ls, k), \A i \in 1..k : m[i] = ls[i]
  PROVE  Clean(m, k)
<1> SUFFICES ASSUME NEW i \in 1..k
             PROVE  Parses(m[i]) /\ Links(m[i][1], RecordBefore(m, i), i)
  BY DEF Clean
<1>1. m[i] = ls[i] /\ RecordBefore(m, i) = RecordBefore(ls, i)
  BY DEF RecordBefore
<1> QED BY <1>1, Zenon DEF Clean

LEMMA OneMore ==
  ASSUME NEW ls \in Seq(Seq(Piece)), NEW b \in Block, Clean(ls, Len(ls)),
         Links(b, RecordBefore(ls, Len(ls) + 1), Len(ls) + 1)
  PROVE  /\ Append(ls, <<b>>) \in Seq(Seq(Piece))
         /\ Whole(Append(ls, <<b>>)) = Len(ls) + 1
         /\ Len(Append(ls, <<b>>)) = Len(ls) + 1
         /\ Clean(Append(ls, <<b>>), Len(ls) + 1)
         /\ \A i \in 1..Len(ls) : Append(ls, <<b>>)[i] = ls[i]
         /\ Append(ls, <<b>>)[Len(ls) + 1] = <<b>>
<1> DEFINE m == Append(ls, <<b>>) n == Len(ls)
<1>1. <<b>> \in Seq(Piece) /\ <<b>> # <<Torn>>
  BY StoreAssumption DEF Piece, AnyBlock
<1>2. /\ m \in Seq(Seq(Piece)) /\ Len(m) = n + 1 /\ m[n + 1] = <<b>> /\ n \in Nat
      /\ \A i \in 1..n : m[i] = ls[i]
  BY <1>1
<1> HIDE DEF m
<1>3. Whole(m) = n + 1
  BY <1>1, <1>2 DEF Whole
<1>4. ASSUME NEW i \in 1..(n + 1)
      PROVE  Parses(m[i]) /\ Links(m[i][1], RecordBefore(m, i), i)
  <2>1. RecordBefore(m, i) = RecordBefore(ls, i)
    <3>1. i # 1 => i - 1 \in 1..n
      BY <1>2
    <3>2. i # 1 => m[i - 1] = ls[i - 1]
      BY <1>2, <3>1
    <3> QED BY <3>2, Zenon DEF RecordBefore
  <2>2. CASE i \in 1..n
    BY <1>2, <2>1, <2>2, Zenon DEF Clean
  <2>3. CASE i = n + 1
    <3>1. m[i] = <<b>> /\ Len(<<b>>) = 1 /\ <<b>>[1] = b
      BY <1>2, <2>3
    <3>2. Parses(m[i]) /\ m[i][1] = b
      BY <3>1 DEF Parses
    <3> QED BY <2>1, <2>3, <3>2
  <2> QED BY <1>2, <2>2, <2>3
<1> QED BY <1>2, <1>3, <1>4 DEF m, Clean

LEMMA TornTail ==
  ASSUME NEW ls \in Seq(Seq(Piece)), Clean(ls, Len(ls))
  PROVE  /\ Append(ls, <<Torn>>) \in Seq(Seq(Piece))
         /\ Whole(Append(ls, <<Torn>>)) = Len(ls)
         /\ Len(Append(ls, <<Torn>>)) = Len(ls) + 1
         /\ Clean(Append(ls, <<Torn>>), Len(ls))
         /\ \A i \in 1..Len(ls) : Append(ls, <<Torn>>)[i] = ls[i]
<1> DEFINE m == Append(ls, <<Torn>>)
<1>1. <<Torn>> \in Seq(Piece)
  BY DEF Piece
<1>2. /\ m \in Seq(Seq(Piece)) /\ Len(m) = Len(ls) + 1 /\ m[Len(ls) + 1] = <<Torn>> /\ Len(ls) \in Nat
      /\ \A i \in 1..Len(ls) : m[i] = ls[i]
  BY <1>1
<1> HIDE DEF m
<1>3. Whole(m) = Len(ls)
  BY <1>2 DEF Whole
<1> QED BY <1>2, <1>3, CleanSame DEF m

\* Nothing a write leaves behind destroys what was there.
LEMMA WrittenKeeps ==
  ASSUME TypeOK, NEW x \in Piece
  PROVE  /\ Written(x) \in Seq(Seq(Piece))
         /\ Holds(Written(x), x)
         /\ \A b : Holds(lines, b) => Holds(Written(x), b)
<1> DEFINE n == Len(lines)
<1>1. lines \in Seq(Seq(Piece)) /\ n \in Nat
  BY DEF TypeOK
<1>2. CASE ended \/ lines = <<>>
  <2> DEFINE w == Append(lines, <<x>>)
  <2>1. Written(x) = w
    BY <1>2 DEF Written
  <2>2. <<x>> \in Seq(Piece) /\ Len(<<x>>) = 1 /\ <<x>>[1] = x
    OBVIOUS
  <2>3. w \in Seq(Seq(Piece)) /\ Len(w) = n + 1 /\ w[n + 1] = <<x>> /\ \A i \in 1..n : w[i] = lines[i]
    BY <1>1, <2>2
  <2> HIDE DEF w
  <2>4. Holds(w, x)
    <3>1. n + 1 \in 1..Len(w) /\ 1 \in 1..Len(w[n + 1]) /\ w[n + 1][1] = x
      BY <1>1, <2>2, <2>3
    <3> QED BY <3>1, Zenon DEF Holds
  <2>5. \A b : Holds(lines, b) => Holds(w, b)
    <3>1. \A i \in 1..n : i \in 1..Len(w) /\ w[i] = lines[i]
      BY <1>1, <2>3
    <3> QED BY <3>1, Zenon DEF Holds
  <2> QED BY <2>1, <2>3, <2>4, <2>5
<1>3. CASE ~(ended \/ lines = <<>>)
  <2> DEFINE last == lines[n]
             w == [lines EXCEPT ![n] = Append(last, x)]
  <2>1. Written(x) = w
    BY <1>3 DEF Written
  <2>2. n \in 1..n /\ last \in Seq(Piece)
    BY <1>1, <1>3
  <2>3. /\ Append(last, x) \in Seq(Piece) /\ Len(Append(last, x)) = Len(last) + 1
        /\ Append(last, x)[Len(last) + 1] = x /\ Len(last) \in Nat
        /\ \A j \in 1..Len(last) : Append(last, x)[j] = last[j]
    BY <2>2
  <2>4. w \in Seq(Seq(Piece)) /\ Len(w) = n /\ w[n] = Append(last, x)
        /\ \A i \in 1..n : i # n => w[i] = lines[i]
    BY <1>1, <2>2, <2>3
  <2> HIDE DEF w, last
  <2>5. Holds(w, x)
    <3>1. n \in 1..Len(w) /\ Len(last) + 1 \in 1..Len(w[n]) /\ w[n][Len(last) + 1] = x
      BY <2>2, <2>3, <2>4
    <3> QED BY <3>1, Zenon DEF Holds
  <2>6. ASSUME NEW b, Holds(lines, b) PROVE Holds(w, b)
    <3>1. PICK i \in 1..n : \E j \in 1..Len(lines[i]) : lines[i][j] = b
      BY <2>6, Zenon DEF Holds
    <3>2. PICK j \in 1..Len(lines[i]) : lines[i][j] = b
      BY <3>1
    <3>3. i \in 1..Len(w) /\ j \in 1..Len(w[i]) /\ w[i][j] = b
      <4>1. CASE i = n
        BY <2>3, <2>4, <3>2, <4>1 DEF last
      <4>2. CASE i # n
        BY <2>4, <3>2, <4>2
      <4> QED BY <4>1, <4>2
    <3> QED BY <3>3, Zenon DEF Holds
  <2> QED BY <2>1, <2>4, <2>5, <2>6
<1> QED BY <1>2, <1>3

LEMMA WriteLeavesKeeps ==
  ASSUME TypeOK, NEW b \in Block, NEW what \in Leavings, WriteLeaves(b, what)
  PROVE  /\ lines' \in Seq(Seq(Piece)) /\ ended' \in BOOLEAN
         /\ \A x : Holds(lines, x) => Holds(lines', x)
         /\ what = "record" => Holds(lines', b)
<1>1. b \in Piece /\ Torn \in Piece
  BY DEF Piece
<1>2. CASE what = "nothing"
  BY <1>2, Zenon DEF WriteLeaves, TypeOK
<1>3. CASE what = "torn"
  BY <1>1, <1>3, WrittenKeeps DEF WriteLeaves
<1>4. CASE what \in {"unended", "record"}
  BY <1>1, <1>4, WrittenKeeps DEF WriteLeaves
<1> QED BY <1>2, <1>3, <1>4 DEF Leavings

LEMMA ReadsRecords ==
  ASSUME NEW ls, NEW k \in Nat, NEW now, Reads(ls, k, now)
  PROVE  /\ Records(ls, k) \in Seq(Block)
         /\ Len(Records(ls, k)) = k
         /\ \A i \in 1..k : Records(ls, k)[i] = ls[i][1]
<1> DEFINE r == [i \in 1..k |-> ls[i][1]]
<1>1. \A i \in 1..k : ls[i][1] \in Block
  BY Zenon DEF Reads, Parses
<1>2. r \in [1..k -> Block]
  BY <1>1
<1>3. r \in Seq(Block) /\ Len(r) = k
  BY <1>2, SeqDef
<1> QED BY <1>3 DEF Records

-----------------------------------------------------------------------------
(* Nothing is lost, whatever fails. *)

Safe == TypeOK /\ CopiedBeforeCut /\ Recoverable

\* A step that keeps the copies and what the file holds keeps all it has promised.
LEMMA RecoverableStays ==
  ASSUME Recoverable, backups \subseteq backups',
         \A b \in kept' : b \in kept \/ Holds(lines', b),
         \A b : Holds(lines, b) => Holds(lines', b) \/ \E f \in backups' : Holds(f, b)
  PROVE  Recoverable'
BY Zenon DEF Recoverable, Holds

LEMMA SafeAppend ==
  ASSUME Safe, NEW b \in Block, AppendRecord(b) \/ AppendFails(b) \/ AppendCrashes(b)
  PROVE  Safe'
<1> USE DEF Safe
<1>1. CASE AppendRecord(b)
  <2>1. "record" \in Leavings
    BY DEF Leavings
  <2>2. /\ lines' \in Seq(Seq(Piece)) /\ ended' \in BOOLEAN
        /\ \A x : Holds(lines, x) => Holds(lines', x)
        /\ Holds(lines', b)
    BY <1>1, <2>1, WriteLeavesKeeps DEF AppendRecord
  <2>3. TypeOK'
    BY <1>1, <2>2 DEF AppendRecord, TypeOK
  <2>4. Recoverable'
    BY <1>1, <2>2, RecoverableStays DEF AppendRecord
  <2> QED BY <1>1, <2>3, <2>4 DEF AppendRecord, CopiedBeforeCut
<1>2. CASE AppendFails(b) \/ AppendCrashes(b)
  <2>1. PICK what \in Leavings : WriteLeaves(b, what)
    BY <1>2 DEF AppendFails, AppendCrashes
  <2>2. /\ lines' \in Seq(Seq(Piece)) /\ ended' \in BOOLEAN
        /\ \A x : Holds(lines, x) => Holds(lines', x)
    BY <2>1, WriteLeavesKeeps
  <2>3. /\ UNCHANGED <<backups, cut, acked, due, kept>> /\ faults' = faults + 1
        /\ state' \in {"up", "down"} /\ spoiled' \in BOOLEAN
    BY <1>2 DEF AppendFails, AppendCrashes, TypeOK
  <2>4. TypeOK'
    BY <2>2, <2>3 DEF TypeOK
  <2>5. Recoverable'
    BY <2>2, <2>3, RecoverableStays
  <2> QED BY <2>3, <2>4, <2>5 DEF CopiedBeforeCut
<1> QED BY <1>1, <1>2

\* Replace writes every record of the chain that it promises.
LEMMA ReplacedFile ==
  ASSUME NEW c \in Seq(Block)
  PROVE  LET file == [i \in 1..Len(c) |-> <<c[i]>>] IN
         /\ file \in Seq(Seq(Piece)) /\ Len(file) = Len(c)
         /\ \A i \in 1..Len(c) : file[i] = <<c[i]>> /\ Holds(file, c[i])
<1> DEFINE file == [i \in 1..Len(c) |-> <<c[i]>>]
<1>1. Len(c) \in Nat /\ \A i \in 1..Len(c) : c[i] \in Piece
  BY DEF Piece
<1>2. \A i \in 1..Len(c) : <<c[i]>> \in Seq(Piece) /\ Len(<<c[i]>>) = 1 /\ <<c[i]>>[1] = c[i]
  BY <1>1
<1>3. file \in [1..Len(c) -> Seq(Piece)]
  BY <1>2
<1>4. file \in Seq(Seq(Piece)) /\ Len(file) = Len(c) /\ \A i \in 1..Len(c) : file[i] = <<c[i]>>
  BY <1>1, <1>3, SeqDef
<1> HIDE DEF file
<1>5. ASSUME NEW i \in 1..Len(c) PROVE Holds(file, c[i])
  <2>1. i \in 1..Len(file) /\ 1 \in 1..Len(file[i]) /\ file[i][1] = c[i]
    BY <1>2, <1>4
  <2> QED BY <2>1, Zenon DEF Holds
<1> QED BY <1>4, <1>5 DEF file

LEMMA SafeReplace ==
  ASSUME Safe, NEW c \in Chains, Replace(c)
  PROVE  Safe'
<1> USE DEF Safe
<1>1. c \in Seq(Block)
  BY StoreAssumption
<1>2. lines' \in Seq(Seq(Piece)) /\ \A i \in 1..Len(c) : Holds(lines', c[i])
  BY <1>1, ReplacedFile DEF Replace
<1>3. TypeOK'
  BY <1>1, <1>2 DEF Replace, TypeOK
<1>4. \A b \in kept' : Holds(lines', b)
  BY <1>2 DEF Replace
<1>5. Recoverable'
  BY <1>4, Zenon DEF Recoverable, Holds
<1> QED BY <1>3, <1>5 DEF Replace, CopiedBeforeCut

LEMMA SafeLoad ==
  ASSUME Safe, Load
  PROVE  Safe'
<1> USE DEF Safe
<1>1. acked' \in Seq(Block) /\ due' \in Seq(Block)
  BY ReadsRecords DEF Load, TypeOK
<1>2. TypeOK' /\ UNCHANGED <<lines, kept, backups>> /\ state' = "up"
  BY <1>1 DEF Load, TypeOK
<1>3. Recoverable'
  BY <1>2, RecoverableStays
<1> QED BY <1>2, <1>3 DEF CopiedBeforeCut

LEMMA SafeBackup ==
  ASSUME Safe, RepairBackup
  PROVE  Safe'
<1> USE DEF Safe
<1>1. PICK now \in Clock : cut' = CutAt(now) /\ spoiled' = (spoiled \/ ~MiningOpen(now))
  BY DEF RepairBackup
<1>2. Len(lines) \in Nat /\ cut' \in 0..Len(lines)
  BY <1>1, GoodLinesExist DEF CutAt, TypeOK
<1>3. UNCHANGED <<lines, ended, acked, due, kept, faults>> /\ backups' = backups \cup {lines} /\ state' = "backed"
  BY DEF RepairBackup
<1>4. TypeOK'
  BY <1>1, <1>2, <1>3 DEF TypeOK
<1>5. Recoverable'
  BY <1>3, RecoverableStays
<1> QED BY <1>2, <1>3, <1>4, <1>5 DEF CopiedBeforeCut

LEMMA SafeTruncate ==
  ASSUME Safe, RepairTruncate
  PROVE  Safe'
<1> USE DEF Safe
<1>1. /\ lines \in Seq(Seq(Piece)) /\ cut \in 0..Len(lines) /\ lines \in backups
      /\ lines' = SubSeq(lines, 1, cut) /\ ended' = TRUE /\ cut' = 0
      /\ UNCHANGED <<backups, kept, spoiled, faults>>
  BY DEF RepairTruncate, CopiedBeforeCut, TypeOK
<1>2. lines' \in Seq(Seq(Piece))
  BY <1>1
<1>3. acked' \in Seq(Block) /\ due' \in Seq(Block) /\ state' \in {"up", "down"}
  <2>1. PICK now \in Clock : IF Reads(lines, cut, now)
                             THEN state' = "up" /\ acked' = Records(lines, cut) /\ due' = acked'
                             ELSE state' = "down" /\ UNCHANGED <<acked, due>>
    BY DEF RepairTruncate
  <2>2. cut \in Nat
    BY <1>1
  <2> QED BY <2>1, <2>2, ReadsRecords DEF TypeOK
<1>4. TypeOK'
  BY <1>1, <1>2, <1>3 DEF TypeOK
<1>5. Recoverable'
  BY <1>1, RecoverableStays
<1> QED BY <1>3, <1>4, <1>5 DEF CopiedBeforeCut

\* Steps that leave the disk alone.
LEMMA SafeMemory ==
  ASSUME Safe, Adopt \/ AdoptRefused \/ Crash
  PROVE  Safe'
<1> USE DEF Safe
<1>1. TypeOK' /\ UNCHANGED <<lines, kept, backups>> /\ state' # "backed"
  <2>1. CASE Adopt
    BY <2>1 DEF Adopt, TypeOK
  <2>2. CASE AdoptRefused
    BY <2>2 DEF AdoptRefused, TypeOK
  <2>3. CASE Crash
    BY <2>3 DEF Crash, TypeOK
  <2> QED BY <2>1, <2>2, <2>3
<1>2. Recoverable'
  BY <1>1, RecoverableStays
<1> QED BY <1>1, <1>2 DEF CopiedBeforeCut

-----------------------------------------------------------------------------
(* The file is sound after the faults that are provided for. *)

\* A block that extends the chain in memory extends the one in the file.
LEMMA NextRecord ==
  ASSUME TypeOK, SoundFile, state = "up", NEW b \in Block, Extends(b)
  PROVE  /\ acked = due /\ Len(due) = Len(lines) /\ ended /\ Clean(lines, Len(lines))
         /\ Links(b, RecordBefore(lines, Len(lines) + 1), Len(lines) + 1)
<1>1. acked = due /\ Len(due) = Len(lines) /\ ended /\ Clean(lines, Len(lines)) /\ Len(lines) \in Nat
  BY DEF SoundFile, TypeOK
<1>2. Links(b, TipOf(due), Len(due) + 1)
  BY <1>1 DEF Extends, ValidateBlock
<1>3. TipOf(due) = RecordBefore(lines, Len(lines) + 1)
  <2>1. CASE due = <<>>
    BY <1>1, <2>1 DEF TipOf, RecordBefore
  <2>2. CASE due # <<>>
    <3>1. Len(due) \in 1..Len(due) /\ Len(lines) + 1 # 1 /\ Len(lines) + 1 - 1 = Len(due)
      BY <1>1, <2>2 DEF TypeOK
    <3>2. lines[Len(due)][1] = due[Len(due)]
      BY <3>1, Zenon DEF SoundFile
    <3> QED BY <2>2, <3>1, <3>2 DEF TipOf, RecordBefore
  <2> QED BY <2>1, <2>2
<1> QED BY <1>1, <1>2, <1>3

\* A whole record, whether or not the caller lived to hear of it.
LEMMA SoundRecord ==
  ASSUME TypeOK, SoundFile, state = "up", NEW b \in Block, Extends(b), WriteLeaves(b, "record"),
         \/ due' = Append(due, b) /\ kept' = kept \cup {b} /\ state' = "adding"
         \/ due' = due /\ kept' = kept /\ state' = "down"
  PROVE  SoundFile'
<1> DEFINE n == Len(lines)
<1>1. Len(due) = n /\ ended /\ Clean(lines, n) /\ Links(b, RecordBefore(lines, n + 1), n + 1)
  BY NextRecord
<1>2. lines' = Append(lines, <<b>>) /\ ended' = TRUE /\ lines \in Seq(Seq(Piece)) /\ n \in Nat
  BY <1>1 DEF WriteLeaves, Written, TypeOK
<1>3. /\ Whole(lines') = n + 1 /\ Len(lines') = n + 1 /\ Clean(lines', n + 1)
      /\ (\A i \in 1..n : lines'[i] = lines[i]) /\ lines'[n + 1] = <<b>>
  BY <1>1, <1>2, OneMore
<1>4. CASE due' = Append(due, b) /\ kept' = kept \cup {b} /\ state' = "adding"
  <2>1. /\ Len(due') = n + 1 /\ due'[n + 1] = b /\ \A i \in 1..n : due'[i] = due[i]
    BY <1>1, <1>2, <1>4 DEF TypeOK
  <2>2. ASSUME NEW i \in 1..Len(due') PROVE lines'[i][1] = due'[i]
    <3>1. CASE i \in 1..n
      BY <1>1, <1>3, <2>1, <3>1 DEF SoundFile
    <3>2. CASE i = n + 1
      BY <1>3, <2>1, <3>2
    <3> QED BY <1>2, <2>1, <3>1, <3>2
  <2>3. ASSUME NEW x \in kept' PROVE \E i \in 1..Len(due') : due'[i] = x
    <3>1. CASE x = b
      <4>1. n + 1 \in 1..Len(due')
        BY <1>2, <2>1
      <4> QED BY <2>1, <3>1, <4>1
    <3>2. CASE x \in kept
      <4>1. PICK i \in 1..n : due[i] = x
        BY <1>1, <3>2, Zenon DEF SoundFile
      <4>2. i \in 1..Len(due') /\ due'[i] = x
        BY <1>2, <2>1, <4>1
      <4> QED BY <4>2
    <3> QED BY <1>4, <3>1, <3>2
  <2> QED BY <1>2, <1>3, <1>4, <2>1, <2>2, <2>3 DEF SoundFile
<1>5. CASE due' = due /\ kept' = kept /\ state' = "down"
  <2>1. \A i \in 1..Len(due') : lines'[i][1] = due'[i]
    BY <1>1, <1>3, <1>5 DEF SoundFile
  <2>2. \A x \in kept' : \E i \in 1..Len(due') : due'[i] = x
    BY <1>5, Zenon DEF SoundFile
  <2>3. Len(due') <= n + 1
    BY <1>1, <1>2, <1>5
  <2> QED BY <1>2, <1>3, <1>5, <2>1, <2>2, <2>3 DEF SoundFile
<1> QED BY <1>4, <1>5

LEMMA SoundTorn ==
  ASSUME TypeOK, SoundFile, state = "up", NEW b \in Block, Extends(b), WriteLeaves(b, "torn"),
         due' = due /\ kept' = kept /\ state' = "down"
  PROVE  SoundFile'
<1> DEFINE n == Len(lines)
<1>1. Len(due) = n /\ ended /\ Clean(lines, n)
  BY NextRecord
<1>2. lines' = Append(lines, <<Torn>>) /\ ended' = FALSE /\ lines \in Seq(Seq(Piece)) /\ n \in Nat
  BY <1>1 DEF WriteLeaves, Written, TypeOK
<1>3. /\ Whole(lines') = n /\ Len(lines') = n + 1 /\ Clean(lines', n)
      /\ \A i \in 1..n : lines'[i] = lines[i]
  BY <1>1, <1>2, TornTail
<1>4. \A i \in 1..Len(due') : lines'[i][1] = due'[i]
  BY <1>1, <1>3 DEF SoundFile
<1>5. \A x \in kept' : \E i \in 1..Len(due') : due'[i] = x
  BY Zenon DEF SoundFile
<1>6. Len(due') <= n /\ n # n + 1
  BY <1>1, <1>2
<1> QED BY <1>2, <1>3, <1>4, <1>5, <1>6 DEF SoundFile

\* The file stays as it is; the process ends, or has the chain due in memory.
LEMMA SoundStays ==
  ASSUME SoundFile, UNCHANGED <<lines, ended, due, kept>>,
         state' = "down" \/ (state' = "up" /\ state \in {"up", "adding"} /\ acked' = due)
  PROVE  SoundFile'
BY DEF SoundFile

LEMMA SoundAppend ==
  ASSUME TypeOK, Sound, NEW b \in Block, AppendRecord(b) \/ AppendFails(b) \/ AppendCrashes(b)
  PROVE  Sound'
<1> SUFFICES ASSUME ~spoiled' PROVE SoundFile'
  BY DEF Sound
<1>1. CASE AppendRecord(b)
  <2>1. SoundFile /\ state = "up" /\ acked = due
    BY <1>1 DEF AppendRecord, Sound, SoundFile
  <2> QED BY <1>1, <2>1, SoundRecord DEF AppendRecord
<1>2. CASE AppendFails(b)
  <2>1. PICK what \in Leavings : WriteLeaves(b, what) /\ spoiled' = (spoiled \/ what \notin ForeseenOnError)
    BY <1>2 DEF AppendFails
  <2>2. what = "nothing" /\ SoundFile
    BY <2>1 DEF ForeseenOnError, Sound
  <2>3. UNCHANGED <<lines, ended, due, kept>> /\ state' = "up" /\ state = "up" /\ acked' = due
    BY <1>2, <2>1, <2>2 DEF AppendFails, WriteLeaves, SoundFile
  <2> QED BY <2>2, <2>3, SoundStays
<1>3. CASE AppendCrashes(b)
  <2>1. PICK what \in Leavings : WriteLeaves(b, what) /\ spoiled' = (spoiled \/ what \notin ForeseenInCrash)
    BY <1>3 DEF AppendCrashes
  <2>2. what \in {"nothing", "torn", "record"} /\ SoundFile
    BY <2>1 DEF ForeseenInCrash, Sound
  <2>3. UNCHANGED <<due, kept>> /\ state = "up" /\ state' = "down" /\ Extends(b)
    BY <1>3 DEF AppendCrashes
  <2>4. CASE what = "nothing"
    BY <2>1, <2>2, <2>3, <2>4, SoundStays DEF WriteLeaves
  <2>5. CASE what = "torn"
    BY <2>1, <2>2, <2>3, <2>5, SoundTorn
  <2>6. CASE what = "record"
    BY <2>1, <2>2, <2>3, <2>6, SoundRecord
  <2> QED BY <2>2, <2>4, <2>5, <2>6
<1> QED BY <1>1, <1>2, <1>3

LEMMA SoundReplace ==
  ASSUME TypeOK, NEW c \in Chains, Replace(c)
  PROVE  SoundFile'
<1> DEFINE n == Len(c)
<1>1. c \in Seq(Block) /\ n \in Nat
  BY StoreAssumption
<1>2. lines' \in Seq(Seq(Piece)) /\ Len(lines') = n /\ \A i \in 1..n : lines'[i] = <<c[i]>>
  BY <1>1, ReplacedFile DEF Replace
<1>3. \A i \in 1..n : c[i] \in Block /\ c[i] # Torn /\ lines'[i][1] = c[i] /\ Len(lines'[i]) = 1
  <2> TAKE i \in 1..n
  <2>0. c[i] \in Block
    BY <1>1
  <2>1. c[i] \in Block /\ lines'[i] = <<c[i]>>
    BY <1>2, <2>0, Zenon
  <2>2. c[i] # Torn
    BY <2>1, StoreAssumption DEF AnyBlock
  <2> QED BY <2>1, <2>2
<1>4. Whole(lines') = n
  BY <1>1, <1>2, <1>3 DEF Whole
<1>5. ASSUME NEW i \in 1..n
      PROVE  Parses(lines'[i]) /\ Links(lines'[i][1], RecordBefore(lines', i), i)
  <2>1. i # 1 => i - 1 \in 1..n
    BY <1>1
  <2>2. RecordBefore(lines', i) = Before(c, i)
    BY <1>3, <2>1 DEF RecordBefore, Before
  <2>3. Links(c[i], Before(c, i), i)
    BY DEF Replace, ValidChain
  <2> QED BY <1>3, <2>2, <2>3 DEF Parses
<1>6. Clean(lines', n)
  BY <1>5 DEF Clean
<1>7. due' = c /\ kept' = {c[i] : i \in 1..n} /\ ended' = TRUE /\ state' = "adding"
  BY DEF Replace
<1> QED BY <1>1, <1>2, <1>3, <1>4, <1>6, <1>7 DEF SoundFile

\* A longer chain in memory that the file holds too.
LEMMA SoundRead ==
  ASSUME TypeOK, SoundFile, Whole(lines) \in 0..Len(lines), NEW now, Reads(lines, Whole(lines), now),
         due' = Records(lines, Whole(lines)), kept' = kept, state' = "up", due' = acked', ended' = TRUE,
         Whole(lines') = Whole(lines), Len(lines') = Whole(lines),
         \A i \in 1..Whole(lines) : lines'[i] = lines[i]
  PROVE  SoundFile'
<1> DEFINE w == Whole(lines)
<1>0. w \in Nat
  BY DEF TypeOK
<1>1. w \in Nat /\ Len(due') = w /\ \A i \in 1..w : due'[i] = lines[i][1]
  BY <1>0, ReadsRecords
<1>2. Clean(lines', w)
  BY <1>1, CleanSame DEF SoundFile
<1>3. Len(due) <= w /\ Len(due) \in Nat /\ \A i \in 1..Len(due) : i \in 1..w /\ due'[i] = due[i]
  <2>1. Len(due) <= w /\ Len(due) \in Nat
    BY DEF SoundFile, TypeOK
  <2>2. \A i \in 1..Len(due) : i \in 1..w
    BY <1>1, <2>1
  <2>3. \A i \in 1..Len(due) : lines[i][1] = due[i]
    BY Zenon DEF SoundFile
  <2> QED BY <1>1, <2>1, <2>2, <2>3
<1>4. ASSUME NEW b \in kept' PROVE \E i \in 1..Len(due') : due'[i] = b
  <2>1. PICK i \in 1..Len(due) : due[i] = b
    BY <1>4, Zenon DEF SoundFile
  <2> QED BY <1>1, <1>3, <2>1
<1>5. \A i \in 1..Len(due') : lines'[i][1] = due'[i]
  BY <1>1
<1> QED BY <1>1, <1>2, <1>4, <1>5 DEF SoundFile

\* A file that loads has no torn record.
LEMMA SoundLoad ==
  ASSUME TypeOK, SoundFile, Load
  PROVE  SoundFile'
<1>1. PICK now \in Clock : Reads(lines, Len(lines), now)
  BY DEF Load
<1>2. lines \in Seq(Seq(Piece)) /\ Len(lines) \in Nat
  BY DEF TypeOK
<1>3. Whole(lines) = Len(lines)
  <2> SUFFICES ASSUME lines # <<>>, lines[Len(lines)] = <<Torn>> PROVE FALSE
    BY DEF Whole
  <2>1. Len(lines) \in 1..Len(lines)
    BY <1>2
  <2>2. Parses(<<Torn>>)
    BY <1>1, <2>1, Zenon DEF Reads
  <2> QED BY <2>2, StoreAssumption DEF Parses, AnyBlock
<1>4. /\ due' = Records(lines, Len(lines)) /\ due' = acked' /\ UNCHANGED <<lines, ended, kept>> /\ state' = "up"
      /\ ended = TRUE
  BY <1>3 DEF Load, SoundFile, TypeOK
<1> QED BY <1>1, <1>2, <1>3, <1>4, SoundRead

LEMMA SoundBackup ==
  ASSUME TypeOK, SoundFile, RepairBackup, ~spoiled'
  PROVE  SoundFile'
<1>1. PICK now \in Clock : cut' = GoodLines(lines, now) /\ MiningOpen(now)
  BY DEF RepairBackup, CutAt
<1>2. cut' = Whole(lines)
  BY <1>1, GoodLinesAre DEF SoundFile, TypeOK
<1> QED BY <1>2 DEF RepairBackup, SoundFile

LEMMA SoundTruncate ==
  ASSUME TypeOK, CopiedBeforeCut, SoundFile, RepairTruncate
  PROVE  SoundFile'
<1> DEFINE w == Whole(lines)
<1>1. cut = w /\ state = "backed" /\ w \in 0..Len(lines) /\ lines \in Seq(Seq(Piece)) /\ Len(lines) \in Nat
  BY DEF RepairTruncate, SoundFile, CopiedBeforeCut, TypeOK
<1>2. lines' = SubSeq(lines, 1, w) /\ ended' = TRUE /\ kept' = kept
  BY <1>1 DEF RepairTruncate
<1>3. Len(lines') = w /\ \A i \in 1..w : lines'[i] = lines[i]
  BY <1>1, <1>2
<1>4. \A i \in 1..w : lines[i] # <<Torn>>
  <2>1. \A i \in 1..w : Parses(lines[i])
    BY Zenon DEF SoundFile, Clean
  <2>2. ~Parses(<<Torn>>)
    BY StoreAssumption DEF Parses, AnyBlock
  <2> QED BY <2>1, <2>2
<1>5. Whole(lines') = w
  <2>1. CASE w = 0
    BY <1>1, <1>2, <2>1 DEF Whole
  <2>2. CASE w # 0
    <3>1. w \in 1..w
      BY <1>1, <2>2
    <3>2. lines'[Len(lines')] # <<Torn>>
      BY <1>3, <1>4, <3>1
    <3> QED BY <1>3, <3>2 DEF Whole
  <2> QED BY <2>1, <2>2
<1>6. PICK now \in Clock : IF Reads(lines, w, now)
                           THEN state' = "up" /\ due' = Records(lines, w) /\ due' = acked'
                           ELSE state' = "down" /\ UNCHANGED due
  BY <1>1 DEF RepairTruncate
<1>7. CASE Reads(lines, w, now)
  BY <1>1, <1>2, <1>3, <1>5, <1>6, <1>7, SoundRead
<1>8. CASE ~Reads(lines, w, now)
  <2>1. due' = due /\ state' = "down"
    BY <1>6, <1>8
  <2>2. Clean(lines', w)
    <3>1. w \in Nat /\ Clean(lines, w)
      BY <1>1 DEF SoundFile
    <3> QED BY <1>3, <3>1, CleanSame
  <2>3. Len(due) <= w /\ \A i \in 1..Len(due) : i \in 1..w
    BY <1>1 DEF SoundFile, TypeOK
  <2>4. \A i \in 1..Len(due') : lines'[i][1] = due'[i]
    BY <1>3, <2>1, <2>3 DEF SoundFile
  <2>5. \A b \in kept' : \E i \in 1..Len(due') : due'[i] = b
    BY <1>2, <2>1, Zenon DEF SoundFile
  <2> QED BY <1>2, <1>3, <1>5, <2>1, <2>2, <2>3, <2>4, <2>5 DEF SoundFile
<1> QED BY <1>7, <1>8

-----------------------------------------------------------------------------
(* The invariant. *)

LEMMA BInvInit == Init => BInv
<1> SUFFICES ASSUME Init PROVE BInv
  OBVIOUS
<1>1. TypeOK
  <2>1. <<>> \in Seq(Seq(Piece)) /\ <<>> \in Seq(Block)
    OBVIOUS
  <2> QED BY <2>1 DEF Init, TypeOK
<1>2. Whole(lines) = 0 /\ Len(lines) = 0 /\ Len(due) = 0
  BY DEF Init, Whole
<1>3. Sound
  BY <1>2 DEF Init, Sound, SoundFile, Clean
<1>4. CopiedBeforeCut /\ Recoverable
  BY DEF Init, CopiedBeforeCut, Recoverable
<1> QED BY <1>1, <1>3, <1>4 DEF BInv

LEMMA BInvStep == BInv /\ [Next]_vars => BInv'
<1> SUFFICES ASSUME BInv, [Next]_vars PROVE BInv'
  OBVIOUS
<1>0. TypeOK /\ CopiedBeforeCut /\ Sound /\ Safe
  BY DEF BInv, Safe
<1>1. ASSUME NEW b \in Block, AppendRecord(b) \/ AppendFails(b) \/ AppendCrashes(b)
      PROVE  BInv'
  BY <1>0, <1>1, SafeAppend, SoundAppend DEF BInv, Safe
<1>2. ASSUME NEW c \in Chains, Replace(c)
      PROVE  BInv'
  BY <1>0, <1>2, SafeReplace, SoundReplace DEF BInv, Safe, Sound
<1>3. CASE Load
  <2>1. ~spoiled' => SoundFile'
    BY <1>0, <1>3, SoundLoad DEF Sound, Load
  <2> QED BY <1>0, <1>3, <2>1, SafeLoad DEF BInv, Safe, Sound
<1>4. CASE RepairBackup
  <2>1. ~spoiled' => SoundFile'
    BY <1>0, <1>4, SoundBackup DEF Sound, RepairBackup
  <2> QED BY <1>0, <1>4, <2>1, SafeBackup DEF BInv, Safe, Sound
<1>5. CASE RepairTruncate
  <2>1. ~spoiled' => SoundFile'
    BY <1>0, <1>5, SoundTruncate DEF Sound, RepairTruncate
  <2> QED BY <1>0, <1>5, <2>1, SafeTruncate DEF BInv, Safe, Sound
<1>6. CASE Adopt \/ AdoptRefused \/ Crash
  <2>1. ~spoiled' => SoundFile'
    <3>1. CASE Adopt
      BY <1>0, <3>1, SoundStays DEF Sound, Adopt
    <3>2. CASE AdoptRefused
      BY <3>2 DEF AdoptRefused
    <3>3. CASE Crash
      BY <1>0, <3>3, SoundStays DEF Sound, Crash
    <3> QED BY <1>6, <3>1, <3>2, <3>3
  <2> QED BY <1>0, <1>6, <2>1, SafeMemory DEF BInv, Safe, Sound
<1>7. CASE UNCHANGED vars
  <2>1. TypeOK' /\ CopiedBeforeCut'
    BY <1>0, <1>7 DEF vars, TypeOK, CopiedBeforeCut
  <2>2. Recoverable'
    BY <1>0, <1>7, RecoverableStays DEF vars, Safe
  <2>3. Sound'
    BY <1>0, <1>7 DEF vars, Sound, SoundFile
  <2> QED BY <2>1, <2>2, <2>3 DEF BInv
<1> QED BY <1>1, <1>2, <1>3, <1>4, <1>5, <1>6, <1>7 DEF Next

(***************************************************************************)
(* What the other theorems rest on: Repair cuts only what it has copied,   *)
(* and, unless a fault was not provided for or the chain refused what was  *)
(* just written, the file is a valid chain that begins with the one in     *)
(* memory or about to be, and at most one torn record.                     *)
(***************************************************************************)
THEOREM FileInvariant == Spec => []BInv
BY BInvInit, BInvStep, PTL DEF Spec

(***************************************************************************)
(* However writes are torn, run together or cut by Repair, and however     *)
(* often that happens, the record of a block that Append or Replace        *)
(* reported as stored is in blocks.jsonl or in a copy Repair made of it.   *)
(***************************************************************************)
THEOREM NothingLost == Spec => []Recoverable
<1>1. BInv => Recoverable
  BY DEF BInv
<1> QED BY <1>1, FileInvariant, PTL

LEMMA ReadableIs ==
  ASSUME TypeOK, SoundFile, NEW now, MiningOpen(now)
  PROVE  /\ Whole(lines) \in 0..Len(lines) /\ Len(lines) \in Nat
         /\ Readable(now) = Records(lines, Whole(lines))
         /\ Readable(now) \in Seq(Block) /\ Len(Readable(now)) = Whole(lines)
         /\ \A i \in 1..Whole(lines) : Readable(now)[i] = lines[i][1]
<1>1. /\ Reads(lines, Whole(lines), now) /\ GoodLines(lines, now) = Whole(lines)
      /\ Whole(lines) \in 0..Len(lines) /\ Len(lines) \in Nat
  BY GoodLinesAre DEF SoundFile, TypeOK
<1>2. Whole(lines) \in Nat
  BY <1>1
<1> QED BY <1>1, <1>2, ReadsRecords DEF Readable

LEMMA AckedReadableHolds == BInv => AckedReadable
<1> SUFFICES ASSUME BInv, ~spoiled, NEW now \in Clock, MiningOpen(now)
             PROVE  /\ \A b \in kept : \E i \in 1..Len(Readable(now)) : Readable(now)[i] = b
                    /\ Len(Readable(now)) >= Len(due)
                    /\ SubSeq(Readable(now), 1, Len(due)) = due
                    /\ state = "up" => Readable(now) = acked
  BY DEF AckedReadable
<1> DEFINE r == Readable(now) w == Whole(lines) n == Len(due)
<1>1. TypeOK /\ SoundFile
  BY DEF BInv, Sound
<1>2. w \in Nat /\ r \in Seq(Block) /\ Len(r) = w /\ \A i \in 1..w : r[i] = lines[i][1]
  BY <1>1, ReadableIs
<1>3. /\ n \in Nat /\ n <= w /\ due \in Seq(Block) /\ (state = "up" => n = w /\ due = acked)
      /\ (\A i \in 1..n : lines[i][1] = due[i])
      /\ \A b \in kept : \E i \in 1..n : due[i] = b
  BY <1>1 DEF SoundFile, TypeOK
<1> HIDE DEF r, w, n
<1>4. \A i \in 1..n : i \in 1..w
  BY <1>2, <1>3
<1>5. \A i \in 1..n : r[i] = due[i]
  BY <1>2, <1>3, <1>4
<1>6. SubSeq(r, 1, n) = due
  <2>1. SubSeq(r, 1, n) \in Seq(Block) /\ Len(SubSeq(r, 1, n)) = n /\ \A i \in 1..n : SubSeq(r, 1, n)[i] = r[i]
    BY <1>2, <1>3
  <2> QED BY <1>3, <1>5, <2>1, SeqEqual DEF n
<1>7. \A b \in kept : \E i \in 1..w : r[i] = b
  BY <1>3, <1>4, <1>5
<1>8. state = "up" => r = acked
  BY <1>2, <1>3, <1>5, SeqEqual DEF n
<1> QED BY <1>2, <1>3, <1>6, <1>7, <1>8 DEF r, n

(***************************************************************************)
(* After the faults that Append and Repair provide for, and while AddBlock *)
(* and Reorganize accept what was validated before it was written, a start *)
(* gets every block out of blocks.jsonl whose Append or Replace returned   *)
(* without an error, and the chain it gets begins with the one the process *)
(* had or was about to have.                                               *)
(***************************************************************************)
THEOREM AckedBlocksReadable == Spec => []AckedReadable
BY AckedReadableHolds, FileInvariant, PTL

-----------------------------------------------------------------------------
(* The readable part never shrinks. *)

LEMMA CleanIsValid ==
  ASSUME NEW ls, NEW k \in Nat, NEW now, Reads(ls, k, now)
  PROVE  ValidChain(Records(ls, k))
<1> DEFINE r == Records(ls, k)
<1>1. Len(r) = k /\ \A i \in 1..k : r[i] = ls[i][1]
  BY ReadsRecords
<1> HIDE DEF r
<1>2. ASSUME NEW i \in 1..k PROVE Links(r[i], Before(r, i), i)
  <2>1. i # 1 => i - 1 \in 1..k
    OBVIOUS
  <2>2. Before(r, i) = RecordBefore(ls, i)
    BY <1>1, <2>1 DEF Before, RecordBefore
  <2>3. Links(ls[i][1], RecordBefore(ls, i), i)
    BY DEF Reads, ValidateBlock
  <2> QED BY <1>1, <2>2, <2>3
<1> QED BY <1>1, <1>2 DEF ValidChain, r

Kept == Whole(lines') = Whole(lines) /\ \A i \in 1..Whole(lines) : lines'[i] = lines[i]

LEMMA AppendGrows ==
  ASSUME TypeOK, SoundFile, state = "up", NEW b \in Block, Extends(b),
         WriteLeaves(b, "nothing") \/ WriteLeaves(b, "torn") \/ WriteLeaves(b, "record")
  PROVE  Kept \/ Whole(lines') > Whole(lines)
<1> DEFINE n == Len(lines)
<1>1. /\ Len(due) = n /\ ended /\ Clean(lines, n) /\ Links(b, RecordBefore(lines, n + 1), n + 1)
      /\ Whole(lines) = n /\ lines \in Seq(Seq(Piece)) /\ n \in Nat
  BY NextRecord DEF SoundFile, TypeOK
<1>2. CASE WriteLeaves(b, "nothing")
  BY <1>2 DEF Kept, WriteLeaves
<1>3. CASE WriteLeaves(b, "torn")
  <2>1. lines' = Append(lines, <<Torn>>)
    BY <1>1, <1>3 DEF WriteLeaves, Written
  <2> QED BY <1>1, <2>1, TornTail DEF Kept
<1>4. CASE WriteLeaves(b, "record")
  <2>1. lines' = Append(lines, <<b>>)
    BY <1>1, <1>4 DEF WriteLeaves, Written
  <2>2. Whole(lines') = n + 1
    BY <1>1, <2>1, OneMore
  <2> QED BY <1>1, <2>2
<1> QED BY <1>2, <1>3, <1>4

LEMMA StepGrows ==
  ASSUME BInv, [Next]_vars, ~spoiled'
  PROVE  SoundFile /\ (Kept \/ Whole(lines') > Whole(lines))
<1>0. ~spoiled
  BY DEF Next, vars, AppendRecord, AppendFails, AppendCrashes, Replace, Adopt, AdoptRefused, Load, RepairBackup, RepairTruncate, Crash
<1>1. TypeOK /\ CopiedBeforeCut /\ SoundFile
  BY <1>0 DEF BInv, Sound
<1>2. ASSUME NEW b \in Block, AppendRecord(b) \/ AppendFails(b) \/ AppendCrashes(b)
      PROVE  Kept \/ Whole(lines') > Whole(lines)
  <2>1. WriteLeaves(b, "nothing") \/ WriteLeaves(b, "torn") \/ WriteLeaves(b, "record")
    BY <1>2 DEF AppendRecord, AppendFails, AppendCrashes, ForeseenOnError, ForeseenInCrash
  <2>2. state = "up" /\ Extends(b)
    BY <1>2 DEF AppendRecord, AppendFails, AppendCrashes
  <2> QED BY <1>1, <2>1, <2>2, AppendGrows
<1>3. ASSUME NEW c \in Chains, Replace(c)
      PROVE  Kept \/ Whole(lines') > Whole(lines)
  <2>1. /\ SoundFile' /\ due' = c /\ state' = "adding" /\ Len(c) > Len(acked)
        /\ state = "up" /\ acked = due
    BY <1>1, <1>3, SoundReplace DEF Replace, SoundFile
  <2> QED BY <1>1, <2>1 DEF SoundFile
<1>4. CASE UNCHANGED lines
  BY <1>1, <1>4 DEF Kept
<1>5. CASE RepairTruncate
  <2> DEFINE w == Whole(lines)
  <2>1. /\ w \in 0..Len(lines) /\ lines \in Seq(Seq(Piece)) /\ lines' = SubSeq(lines, 1, w)
        /\ Len(lines) \in Nat
    BY <1>1, <1>5 DEF RepairTruncate, SoundFile, CopiedBeforeCut, TypeOK
  <2>2. Len(lines') = w /\ \A i \in 1..w : lines'[i] = lines[i]
    BY <2>1
  <2>3. SoundFile' /\ ended' = TRUE
    BY <1>1, <1>5, SoundTruncate DEF RepairTruncate
  <2>4. Whole(lines') = w
    BY <2>2, <2>3 DEF SoundFile
  <2> QED BY <1>1, <2>2, <2>4 DEF Kept
<1> QED BY <1>1, <1>2, <1>3, <1>4, <1>5 DEF Next, vars, Adopt, AdoptRefused, Load, RepairBackup, Crash

(***************************************************************************)
(* With the same exceptions, no Append, Replace, crash or Repair shortens  *)
(* what a start gets out of blocks.jsonl: it stays or becomes a longer     *)
(* valid chain.                                                            *)
(***************************************************************************)
THEOREM ReadableNeverShrinks == Spec => ReadableOnlyGrows
<1>1. ASSUME BInv, BInv', [Next]_vars
      PROVE  [~spoiled' => \A now \in {t \in Clock : MiningOpen(t)} :
                \/ Readable(now)' = Readable(now)
                \/ ValidChain(Readable(now)') /\ Len(Readable(now)') > Len(Readable(now))]_vars
  <2> SUFFICES ASSUME ~spoiled', NEW now \in Clock, MiningOpen(now)
               PROVE  \/ Readable(now)' = Readable(now)
                      \/ ValidChain(Readable(now)') /\ Len(Readable(now)') > Len(Readable(now))
    OBVIOUS
  <2> DEFINE w == Whole(lines) v == Whole(lines')
  <2>1. TypeOK /\ SoundFile /\ TypeOK' /\ SoundFile'
    BY <1>1, StepGrows DEF BInv, Sound
  <2>2. /\ w \in Nat /\ Readable(now) = Records(lines, w) /\ Len(Readable(now)) = w
    BY <2>1, ReadableIs
  <2>3. /\ Reads(lines', v, now) /\ GoodLines(lines', now) = v /\ v \in 0..Len(lines') /\ Len(lines') \in Nat
    BY <2>1, GoodLinesAre DEF SoundFile, TypeOK
  <2>4. v \in Nat /\ Readable(now)' = Records(lines', v)
    BY <2>3 DEF Readable
  <2>5. ValidChain(Readable(now)') /\ Len(Readable(now)') = v
    BY <2>3, <2>4, CleanIsValid, ReadsRecords
  <2>6. CASE Kept
    BY <2>2, <2>4, <2>6 DEF Kept, Records
  <2>7. CASE v > w
    BY <2>2, <2>5, <2>7
  <2> QED BY <1>1, <2>6, <2>7, StepGrows
<1> QED BY <1>1, FileInvariant, PTL DEF Spec, ReadableOnlyGrows

=============================================================================
