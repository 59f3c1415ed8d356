----------------------------- MODULE WalletKeys -----------------------------
(***************************************************************************)
(* The wallet file and the pacwallet commands that change it: create,      *)
(* newaddress, importprivkey, encrypt and changepassphrase.                *)
(*                                                                         *)
(* Each command is a process that loads the file, works on its own copy    *)
(* and writes the copy back in place: there is no lock, and the file is    *)
(* truncated before it is written.  New private keys and salts are random: *)
(* they differ from all that are around.  Sealing (Argon2, AES-GCM) opens  *)
(* for the same salt and passphrase only.                                  *)
(***************************************************************************)
EXTENDS FiniteSets

CONSTANTS
    Proc,           \* pacwallet processes that may be running
    Key,            \* private keys
    Passphrase,     \* passphrases a user may give
    Good,           \* the ones of at least minPassphraseRunes
    Salt, NoSalt,
    NoPass,         \* the empty passphrase
    Absent, Torn    \* no file; a file that does not decode

VARIABLES
    file,
    pc, mem,        \* of a process: its next step, its copy of the wallet
    tells,          \* of a process: the keys it has sealed, with their passphrases
    acked,          \* history: what finished commands have told
    overlapped,     \* history: a command began while another was running
    mistyped        \* history: a key was added under a passphrase that does not open the rest

keysVars == <<file, pc, mem, tells, acked, overlapped, mistyped>>

\* A key in clear has no salt and no passphrase.
KeyRec == [key : Key, salt : Salt, pass : Passphrase] \cup [key : Key, salt : {NoSalt}, pass : {NoPass}]
WalletRec == [salt : Salt \cup {NoSalt}, keys : SUBSET KeyRec]
Empty == [salt |-> NoSalt, keys |-> {}]
Told == [key : Key, pass : Passphrase \cup {NoPass}]

ASSUME WalletKeysAssumption ==
    /\ Good \subseteq Passphrase /\ NoPass \notin Passphrase /\ NoSalt \notin Salt
    /\ Absent # Torn /\ {Absent, Torn} \cap WalletRec = {}

KeysTypeOK ==
    /\ file \in WalletRec \cup {Absent, Torn}
    /\ pc \in [Proc -> {"idle", "loaded", "save", "write"}]
    /\ mem \in [Proc -> WalletRec]
    /\ tells \in [Proc -> SUBSET Told] /\ acked \in SUBSET Told
    /\ overlapped \in BOOLEAN /\ mistyped \in BOOLEAN

KeysInit ==
    /\ file = Absent
    /\ pc = [p \in Proc |-> "idle"] /\ mem = [p \in Proc |-> Empty]
    /\ tells = [p \in Proc |-> {}] /\ acked = {}
    /\ overlapped = FALSE /\ mistyped = FALSE

-----------------------------------------------------------------------------
(* Wallets. *)

IsEncrypted(w) == w.salt # NoSalt
Keys(w) == {r.key : r \in w.keys}

\* PrivateKeyBytes returns the key.
Opens(w, r, pass) == r.salt = w.salt /\ (IsEncrypted(w) => r.pass = pass)

\* The wallets around.
Wallets == {mem[p] : p \in Proc} \cup ({file} \ {Absent, Torn})

\* newEncryption
FreshSalt(s) == s \in Salt \ {w.salt : w \in Wallets}

\* newPrivateKey
FreshKey(k) == k \in Key \ (UNION {Keys(w) : w \in Wallets} \cup {a.key : a \in acked})

\* deriveKey
Derives(w, pass) == IsEncrypted(w) => pass # NoPass

SealedRec(w, k, pass) ==
    IF IsEncrypted(w) THEN [key |-> k, salt |-> w.salt, pass |-> pass]
    ELSE [key |-> k, salt |-> NoSalt, pass |-> NoPass]

WithKey(w, r) == [salt |-> w.salt, keys |-> w.keys \cup {r}]

\* Mutant: a key without a passphrase is stored in clear.
AddClear(w, k, pass) ==
    IF k \in Keys(w) THEN {}
    ELSE {WithKey(w, IF pass = NoPass THEN [key |-> k, salt |-> NoSalt, pass |-> NoPass]
                     ELSE SealedRec(w, k, pass))}

\* addPrivateKey: the wallet with the key, if it takes it.  The passphrase is not
\* held against the keys that are there.
AddPrivateKey(w, k, pass) ==
    IF k \in Keys(w) \/ ~Derives(w, pass) THEN {}
    ELSE {WithKey(w, SealedRec(w, k, pass))}

\* A key that opens and is the same is refused before any other.
ImportPrivateKey(w, k, pass) ==
    IF \E r \in w.keys : r.key = k /\ Opens(w, r, pass) THEN {} ELSE AddPrivateKey(w, k, pass)

\* Mutant: one key keeps its seal.
ResealOne(w, salt, pass) ==
    LET kept == CHOOSE r \in w.keys : TRUE IN
    [salt |-> salt,
     keys |-> {kept} \cup {[key |-> k, salt |-> salt, pass |-> pass] : k \in Keys(w) \ {kept.key}}]

\* Every key is sealed again.
Reseal(w, salt, pass) ==
    [salt |-> salt, keys |-> {[key |-> k, salt |-> salt, pass |-> pass] : k \in Keys(w)}]

Encrypted(w, salt, pass) == IF IsEncrypted(w) THEN {} ELSE {Reseal(w, salt, pass)}

\* Mutant: a key that does not open is skipped.
ChangedSkip(w, old, salt, new) ==
    IF ~IsEncrypted(w) THEN {}
    ELSE {Reseal([salt |-> w.salt, keys |-> {r \in w.keys : Opens(w, r, old)}], salt, new)}

\* All keys are opened before any is sealed again.
Changed(w, old, salt, new) ==
    IF IsEncrypted(w) /\ \A r \in w.keys : Opens(w, r, old) THEN {Reseal(w, salt, new)} ELSE {}

-----------------------------------------------------------------------------
(* Commands. *)

Begin(p) ==
    /\ pc[p] = "idle"
    /\ overlapped' = (overlapped \/ \E q \in Proc : pc[q] # "idle")

\* The command has w to save, and will tell of the keys it has sealed.
Saves(p, w) ==
    /\ pc' = [pc EXCEPT ![p] = "save"] /\ mem' = [mem EXCEPT ![p] = w]
    /\ tells' = [tells EXCEPT ![p] = {[key |-> r.key, pass |-> r.pass] : r \in w.keys \ mem[p].keys}]
    /\ UNCHANGED <<file, acked>>

\* The wallet a new one starts from.
NewWallet(pass, salt) == [salt |-> IF pass = NoPass THEN NoSalt ELSE salt, keys |-> {}]

\* The file is looked for once, before the key is made.
Create(p) ==
    /\ Begin(p) /\ file = Absent
    /\ \E k \in Key, pass \in Good \cup {NoPass}, s \in Salt :
         /\ FreshSalt(s) /\ FreshKey(k)
         /\ \E w \in AddPrivateKey(NewWallet(pass, s), k, pass) : Saves(p, w)
    /\ UNCHANGED mistyped

Load(p) ==
    /\ Begin(p) /\ file \notin {Absent, Torn}
    /\ pc' = [pc EXCEPT ![p] = "loaded"] /\ mem' = [mem EXCEPT ![p] = file]
    /\ UNCHANGED <<file, tells, acked, mistyped>>

Mistypes(p, pass) ==
    /\ mistyped' = (mistyped \/ \E r \in mem[p].keys : ~Opens(mem[p], r, pass))
    /\ UNCHANGED overlapped

NewAddress(p) ==
    /\ pc[p] = "loaded"
    /\ \E k \in Key, pass \in Passphrase \cup {NoPass} :
         /\ FreshKey(k)
         /\ \E w \in AddPrivateKey(mem[p], k, pass) : Saves(p, w)
         /\ Mistypes(p, pass)

ImportPrivKey(p) ==
    /\ pc[p] = "loaded"
    /\ \E k \in Key, pass \in Passphrase \cup {NoPass} :
         /\ \E w \in ImportPrivateKey(mem[p], k, pass) : Saves(p, w)
         /\ Mistypes(p, pass)

Encrypt(p) ==
    /\ pc[p] = "loaded"
    /\ \E pass \in Good, s \in Salt :
         FreshSalt(s) /\ \E w \in Encrypted(mem[p], s, pass) : Saves(p, w)
    /\ UNCHANGED <<overlapped, mistyped>>

ChangePassphrase(p) ==
    /\ pc[p] = "loaded"
    /\ \E old \in Passphrase, new \in Good, s \in Salt :
         FreshSalt(s) /\ \E w \in Changed(mem[p], old, s, new) : Saves(p, w)
    /\ UNCHANGED <<overlapped, mistyped>>

\* The process ends without writing: a command that only reads, an error, a crash.
End(p) ==
    /\ pc' = [pc EXCEPT ![p] = "idle"]
    /\ mem' = [mem EXCEPT ![p] = Empty] /\ tells' = [tells EXCEPT ![p] = {}]

Stop(p) == pc[p] # "idle" /\ End(p) /\ UNCHANGED <<file, acked, overlapped, mistyped>>

\* os.WriteFile opens the file with O_TRUNC.
Truncate(p) ==
    /\ pc[p] = "save"
    /\ file' = Torn /\ pc' = [pc EXCEPT ![p] = "write"]
    /\ UNCHANGED <<mem, tells, acked, overlapped, mistyped>>

\* Over what another process has written since, the rest of a longer text remains.
Write(p) ==
    /\ pc[p] = "write"
    /\ file' = mem[p] \/ (file # Torn /\ file' = Torn)
    /\ acked' = {a \in acked : a.key \notin {t.key : t \in tells[p]}} \cup tells[p]
    /\ End(p)
    /\ UNCHANGED <<overlapped, mistyped>>

KeysNext ==
    \E p \in Proc :
       \/ Create(p) \/ Load(p) \/ NewAddress(p) \/ ImportPrivKey(p)
       \/ Encrypt(p) \/ ChangePassphrase(p) \/ Stop(p) \/ Truncate(p) \/ Write(p)

KeysSpec == KeysInit /\ [][KeysNext]_keysVars

-----------------------------------------------------------------------------
(* Properties. *)

Readable == file \notin {Absent, Torn}

(***************************************************************************)
(* Whatever commands overlap or stop half way, a wallet file is of one     *)
(* kind: in an encrypted one every key is sealed with the file's own salt  *)
(* and none is left in clear, in the other all are in clear.               *)
(***************************************************************************)
OneSeal == Readable => \A r \in file.keys : r.salt = file.salt

(***************************************************************************)
(* If no key was added under a passphrase that does not open the others,   *)
(* one passphrase opens every key of the file, so changepassphrase can     *)
(* succeed, overlapping commands included.                                 *)
(***************************************************************************)
OnePassphrase ==
    Readable /\ ~mistyped =>
       \E pass \in Passphrase \cup {NoPass} : \A r \in file.keys : Opens(file, r, pass)

(***************************************************************************)
(* As long as commands do not overlap, every key a command has reported is *)
(* in the file, sealed under the passphrase that was last given for it,    *)
(* and in clear only if none ever was.  A process that stops between       *)
(* truncation and write destroys them all.                                 *)
(***************************************************************************)
ReportedKept ==
    Readable /\ ~overlapped =>
       \A a \in acked : \E r \in file.keys : r.key = a.key /\ r.pass = a.pass /\ Opens(file, r, a.pass)

=============================================================================
