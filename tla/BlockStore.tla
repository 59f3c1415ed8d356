----------------------------- MODULE BlockStore -----------------------------
(***************************************************************************)
(* blocks.jsonl below the level of whole records: one JSON object and a    *)
(* newline per block, appended with one write and a sync, rewritten through *)
(* a temporary file, read back line by line, and cut by Repair at the first *)
(* line that does not parse or whose block does not connect.               *)
(*                                                                         *)
(* A line is the sequence of what was written between two newlines: whole  *)
(* records (blocks) and torn ones.  Whether the last line has its newline  *)
(* is kept apart, because Append does not look: it writes after whatever   *)
(* the file ends with.  How much of a record an interrupted or failed      *)
(* write leaves is an input.                                               *)
(***************************************************************************)
EXTENDS BlockTree

CONSTANTS
    Torn,           \* a strict prefix of a record
    Chains,         \* the chains a reorganisation may adopt
    Clock,          \* readings of the clock
    MaxFaults       \* bound on the number of failed or interrupted operations

VARIABLES
    lines, ended,   \* the file
    backups,        \* blocks.jsonl.corrupt.* files
    state,          \* "up", "adding": a handler between its write and the chain's second
                    \* validation, "down", "backed": Repair between copy and truncation
    cut,            \* the lines Repair is about to keep
    acked,          \* the chain in memory; when down, the one it had
    due,            \* the chain that handler wants in memory; otherwise acked
    kept,           \* history: blocks a caller was told are stored, and none replaced
    spoiled,        \* history: a fault that Append and Repair do not provide for
    faults

vars == <<lines, ended, backups, state, cut, acked, due, kept, spoiled, faults>>

\* What a write cut short by a crash, or one that returns an error, may leave,
\* and after which of these the reader and the next Append do the right thing.
Leavings == {"nothing", "torn", "unended", "record"}
ForeseenInCrash == {"nothing", "torn", "record"}
ForeseenOnError == {"nothing"}

Piece == Block \cup {Torn}

ASSUME StoreAssumption ==
    /\ Torn \notin AnyBlock
    /\ Chains \subseteq Seq(Block)
    /\ Clock \subseteq Nat
    /\ MaxFaults \in Nat

TypeOK ==
    /\ lines \in Seq(Seq(Piece))
    /\ ended \in BOOLEAN
    /\ \A f \in backups : f \in Seq(Seq(Piece))
    /\ state \in {"up", "adding", "down", "backed"}
    /\ cut \in Nat
    /\ acked \in Seq(Block) /\ due \in Seq(Block) /\ kept \subseteq Block
    /\ spoiled \in BOOLEAN
    /\ faults \in Nat

Init ==
    /\ lines = <<>> /\ ended = TRUE /\ backups = {}
    /\ state = "up" /\ cut = 0 /\ acked = <<>> /\ due = <<>> /\ kept = {}
    /\ spoiled = FALSE /\ faults = 0

-----------------------------------------------------------------------------
(* Reading the file. *)

\* parseBlockRecord: the line is one whole record.
Parses(line) == Len(line) = 1 /\ line[1] \in Block

RecordBefore(ls, i) == IF i = 1 THEN Genesis ELSE ls[i-1][1]

\* load gets through the first k lines.
Reads(ls, k, now) ==
    \A i \in 1..k :
       /\ Parses(ls[i])
       /\ ValidateBlock(ls[i][1], RecordBefore(ls, i), i, now, FALSE)

\* The number of lines before the first bad one.
GoodLines(ls, now) ==
    CHOOSE k \in 0..Len(ls) :
       /\ Reads(ls, k, now)
       /\ k < Len(ls) => ~Reads(ls, k + 1, now)

Records(ls, k) == [i \in 1..k |-> ls[i][1]]

-----------------------------------------------------------------------------
(* Writing it. *)

\* The file after x was written at its end, with or without the newline.
Written(x) ==
    IF ended \/ lines = <<>> THEN Append(lines, <<x>>)
    ELSE [lines EXCEPT ![Len(lines)] = Append(@, x)]

\* What the write of b's record left behind.
WriteLeaves(b, what) ==
    \/ what = "nothing" /\ UNCHANGED <<lines, ended>>
    \/ what = "torn" /\ lines' = Written(Torn) /\ ended' = FALSE
    \/ what = "unended" /\ lines' = Written(b) /\ ended' = FALSE
    \/ what = "record" /\ lines' = Written(b) /\ ended' = TRUE

\* The caller has validated b, under the weaker rules of historical sync.
Extends(b) == \E now \in Clock : ValidateBlock(b, TipOf(acked), Len(acked) + 1, now, FALSE)

\* Append returns to the handler, which still has to call AddBlock.
AppendRecord(b) ==
    /\ state = "up" /\ Extends(b)
    /\ WriteLeaves(b, "record")
    /\ state' = "adding" /\ due' = Append(acked, b) /\ kept' = kept \cup {b}
    /\ UNCHANGED <<backups, cut, acked, spoiled, faults>>

AppendFails(b) ==
    /\ state = "up" /\ Extends(b) /\ faults < MaxFaults
    /\ \E what \in Leavings :
         WriteLeaves(b, what) /\ spoiled' = (spoiled \/ what \notin ForeseenOnError)
    /\ faults' = faults + 1
    /\ UNCHANGED <<backups, state, cut, acked, due, kept>>

AppendCrashes(b) ==
    /\ state = "up" /\ Extends(b) /\ faults < MaxFaults
    /\ \E what \in Leavings :
         WriteLeaves(b, what) /\ spoiled' = (spoiled \/ what \notin ForeseenInCrash)
    /\ faults' = faults + 1 /\ state' = "down"
    /\ UNCHANGED <<backups, cut, acked, due, kept>>

\* Mutant: the store does not ask for a longer chain than the one in memory.
ReplaceAny(c) ==
    /\ state = "up" /\ ValidChain(c)
    /\ lines' = [i \in 1..Len(c) |-> <<c[i]>>] /\ ended' = TRUE
    /\ state' = "adding" /\ due' = c /\ kept' = {c[i] : i \in 1..Len(c)}
    /\ UNCHANGED <<backups, cut, acked, spoiled, faults>>

\* Replace returns to the handler, which still has to call Reorganize.  Before the
\* rename the file is untouched.
Replace(c) ==
    /\ state = "up" /\ ValidChain(c) /\ Len(c) > Len(acked)
    /\ lines' = [i \in 1..Len(c) |-> <<c[i]>>] /\ ended' = TRUE
    /\ state' = "adding" /\ due' = c /\ kept' = {c[i] : i \in 1..Len(c)}
    /\ UNCHANGED <<backups, cut, acked, spoiled, faults>>

\* AddBlock or Reorganize validates again and accepts.
Adopt ==
    /\ state = "adding"
    /\ state' = "up" /\ acked' = due
    /\ UNCHANGED <<lines, ended, backups, cut, due, kept, spoiled, faults>>

\* It refuses: the clock or the peer table, which ChainNode has, changed since the
\* first validation.  The handler returns the error and leaves the file as written.
AdoptRefused ==
    /\ state = "adding" /\ faults < MaxFaults
    /\ state' = "up" /\ due' = acked
    /\ spoiled' = TRUE /\ faults' = faults + 1
    /\ UNCHANGED <<lines, ended, backups, cut, acked, kept>>

-----------------------------------------------------------------------------
(* Starting. *)

Load ==
    /\ state = "down"
    /\ \E now \in Clock : Reads(lines, Len(lines), now)
    /\ state' = "up" /\ acked' = Records(lines, Len(lines)) /\ due' = acked'
    /\ UNCHANGED <<lines, ended, backups, cut, kept, spoiled, faults>>

\* Mutant: one line too many is cut.
CutOneMore(now) == IF GoodLines(lines, now) = 0 THEN 0 ELSE GoodLines(lines, now) - 1

\* The offset load returns with its error.
CutAt(now) == GoodLines(lines, now)

\* Mutant: no copy is made.
RepairInPlace ==
    /\ state = "down"
    /\ \E now \in Clock :
         /\ ~Reads(lines, Len(lines), now)
         /\ cut' = CutAt(now) /\ spoiled' = (spoiled \/ ~MiningOpen(now))
    /\ state' = "backed"
    /\ UNCHANGED <<lines, ended, backups, acked, due, kept, faults>>

\* Repair: load met a bad line, and the file is copied.
RepairBackup ==
    /\ state = "down"
    /\ \E now \in Clock :
         /\ ~Reads(lines, Len(lines), now)
         /\ cut' = CutAt(now) /\ spoiled' = (spoiled \/ ~MiningOpen(now))
    /\ backups' = backups \cup {lines} /\ state' = "backed"
    /\ UNCHANGED <<lines, ended, acked, due, kept, faults>>

\* The file is cut before that line and loaded again; if even that fails the
\* process ends.
RepairTruncate ==
    /\ state = "backed"
    /\ lines' = SubSeq(lines, 1, cut) /\ ended' = TRUE /\ cut' = 0
    /\ \E now \in Clock :
         IF Reads(lines, cut, now)
         THEN state' = "up" /\ acked' = Records(lines, cut) /\ due' = acked'
         ELSE state' = "down" /\ UNCHANGED <<acked, due>>
    /\ UNCHANGED <<backups, kept, spoiled, faults>>

\* The process dies outside any write.
Crash ==
    /\ state \in {"up", "adding", "backed"} /\ faults < MaxFaults
    /\ state' = "down" /\ cut' = 0 /\ faults' = faults + 1
    /\ UNCHANGED <<lines, ended, backups, acked, due, kept, spoiled>>

Next ==
    \/ \E b \in Block : AppendRecord(b) \/ AppendFails(b) \/ AppendCrashes(b)
    \/ \E c \in Chains : Replace(c)
    \/ Adopt \/ AdoptRefused
    \/ Load \/ RepairBackup \/ RepairTruncate \/ Crash

Spec == Init /\ [][Next]_vars

-----------------------------------------------------------------------------
(* Properties. *)

Readable(now) == Records(lines, GoodLines(lines, now))

(***************************************************************************)
(* Unless a write that failed left part of its record behind, a crash took *)
(* the newline and nothing else, a repair ran under a clock from before    *)
(* the start of mining, or the chain's second validation refused what was  *)
(* just written: what a start would get out of the file, with Repair if    *)
(* need be, has every block whose Append or Replace returned without an    *)
(* error (and that no later Replace discarded), begins with the chain that *)
(* the process has, had or was about to have in memory, and is the chain   *)
(* in memory while no handler is between its write and that validation.    *)
(***************************************************************************)
AckedReadable ==
    ~spoiled => \A now \in {t \in Clock : MiningOpen(t)} :
       LET r == Readable(now) IN
       /\ \A b \in kept : \E i \in 1..Len(r) : r[i] = b
       /\ Len(r) >= Len(due) /\ SubSeq(r, 1, Len(due)) = due
       /\ state = "up" => r = acked

(***************************************************************************)
(* Whatever was torn, run together or cut, the record of every block whose *)
(* Append or Replace returned without an error is still in the file or in  *)
(* a copy that Repair made of it, unless a later Replace discarded it.     *)
(***************************************************************************)
Holds(file, b) == \E i \in 1..Len(file) : \E j \in 1..Len(file[i]) : file[i][j] = b

Recoverable == \A b \in kept : Holds(lines, b) \/ \E f \in backups : Holds(f, b)

(***************************************************************************)
(* With the same exceptions, the readable part of the file changes only to *)
(* a longer valid chain: torn writes, crashes and repairs never shorten    *)
(* it, and a Replace is never seen half done.                              *)
(***************************************************************************)
ReadableOnlyGrows ==
    [][~spoiled' => \A now \in {t \in Clock : MiningOpen(t)} :
          \/ Readable(now)' = Readable(now)
          \/ ValidChain(Readable(now)') /\ Len(Readable(now)') > Len(Readable(now))]_vars

=============================================================================
