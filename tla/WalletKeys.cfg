\* Two processes hold two salts besides the file's, and need a fourth.  A torn file that
\* is never mended is where every command ends, so the program may stop.
CONSTANTS
    Proc = {p1, p2}
    Key = {k1, k2, k3}
    Passphrase = {a, b, short}
    Good = {a, b}
    Salt = {s1, s2, s3, s4}
    NoSalt = NoSalt
    NoPass = NoPass
    Absent = Absent
    Torn = Torn
SYMMETRY Symmetry
SPECIFICATION KeysSpec
INVARIANTS OneSeal OnePassphrase ReportedKept
CHECK_DEADLOCK FALSE
