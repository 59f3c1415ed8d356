----------------------------- MODULE Difficulty -----------------------------
(***************************************************************************)
(* The consensus arithmetic: compact targets, the ASERT difficulty, the    *)
(* subsidy schedule, and the time of a new block.                          *)
(*                                                                         *)
(* The code computes with big integers, 256 values to a byte and a radix   *)
(* of 2^16; Base and Radix stand for these, and the coefficients of the    *)
(* ASERT polynomial are rounded to four digits.  Clock readings are in     *)
(* half seconds, block timestamps in seconds: the code compares a clock    *)
(* with a fraction to a timestamp without one.                             *)
(***************************************************************************)
EXTENDS Integers, FiniteSetsExt

CONSTANTS
    Base,                       \* values of a byte
    Radix,                      \* asertRadix
    PowLimit, AnchorTarget,     \* params.PowLimit, the genesis block's target
    TargetSpacing, HalfLife,    \* params.TargetTimePerBlock, ASERTHalfLife
    BaseSubsidy, MulSubsidy, DivSubsidy, ReductionInterval, MinerRewardPercent,
    MaxFuture                   \* params.MaxFutureBlockTime

ASSUME DifficultyAssumption ==
    /\ Base \in Nat \ {0, 1} /\ Base % 2 = 0 /\ Radix \in Nat \ {0}
    /\ PowLimit \in Nat /\ AnchorTarget \in 1..PowLimit
    /\ TargetSpacing \in Nat \ {0} /\ HalfLife \in Nat \ {0}
    /\ BaseSubsidy \in Nat /\ MulSubsidy \in Nat /\ DivSubsidy \in Nat /\ DivSubsidy > MulSubsidy
    /\ ReductionInterval \in Nat \ {0} /\ MinerRewardPercent \in 0..100
    /\ MaxFuture \in Nat

\* b to the power of k, as a recursion: the provers know nothing of ^.
Power(b, k) == LET p[i \in Nat] == IF i = 0 THEN 1 ELSE b * p[i-1] IN p[k]

\* Go's division, towards zero.
Quo(a, b) == IF a >= 0 THEN a \div b ELSE -((-a) \div b)

-----------------------------------------------------------------------------
(* Compact targets: a mantissa of three bytes whose top bit is the sign,   *)
(* and a length in bytes.                                                  *)

SignBit == Power(Base, 3) \div 2

CompactToBig(c) ==
    IF c.exponent <= 3 THEN c.mantissa \div Power(Base, 3 - c.exponent)
    ELSE c.mantissa * Power(Base, c.exponent - 3)

ByteLen(n) == CHOOSE k \in 0..n : n < Power(Base, k) /\ (k = 0 \/ Power(Base, k-1) <= n)

\* Mutant: a mantissa with its top bit set is not shifted.
BigToCompactSigned(n) ==
    LET len == ByteLen(n) IN
    [exponent |-> len,
     mantissa |-> (IF len <= 3 THEN n * Power(Base, 3 - len) ELSE n \div Power(Base, len - 3)) % SignBit]

\* Of a number that is not negative.
BigToCompact(n) ==
    LET len == ByteLen(n)
        top == IF len <= 3 THEN n * Power(Base, 3 - len) ELSE n \div Power(Base, len - 3)
    IN IF top >= SignBit THEN [exponent |-> len + 1, mantissa |-> top \div Base]
       ELSE [exponent |-> len, mantissa |-> top]

-----------------------------------------------------------------------------
(* ASERT. *)

\* The coefficients add up to 1; those of the code exceed it by less than half a unit of
\* its radix, which its rounding takes back.
AsertFactor(frac) ==
    Radix + (6955 * frac * Radix * Radix + 2263 * frac * frac * Radix + 782 * frac * frac * frac
               + 5000 * Radix * Radix) \div (10000 * Radix * Radix)

\* Mutant: the fraction of a negative exponent is left negative.
CalcAsertTargetTruncated(prevTime, nextHeight) ==
    LET exponent == Quo((prevTime - (nextHeight - 1) * TargetSpacing) * Radix, HalfLife)
        shifts == Quo(exponent, Radix)
        frac == exponent - shifts * Radix
        next == (AnchorTarget * AsertFactor(IF frac < 0 THEN -frac ELSE frac)) \div Radix
    IN IF shifts < 0 THEN next \div Power(2, -shifts) ELSE next * Power(2, shifts)

\* The genesis block's timestamp is 0.
CalcAsertTarget(prevTime, nextHeight) ==
    LET exponent == Quo((prevTime - (nextHeight - 1) * TargetSpacing) * Radix, HalfLife)
        whole == Quo(exponent, Radix)
        rest == exponent - whole * Radix
        frac == IF rest < 0 THEN rest + Radix ELSE rest
        shifts == IF rest < 0 THEN whole - 1 ELSE whole
        next == (AnchorTarget * AsertFactor(frac)) \div Radix
    IN IF shifts < 0 THEN next \div Power(2, -shifts) ELSE next * Power(2, shifts)

\* Bits of 1 stand for a target of zero.
CalcAsertNextBits(prevTime, nextHeight) ==
    LET target == CalcAsertTarget(prevTime, nextHeight) IN
    IF nextHeight <= 1 THEN BigToCompact(AnchorTarget)
    ELSE IF target <= 0 THEN [exponent |-> 0, mantissa |-> 1]
    ELSE BigToCompact(IF target > PowLimit THEN PowLimit ELSE target)

\* What CheckProofOfWork asks of a header's bits.
TargetUsable(bits) == CompactToBig(bits) \in 1..PowLimit

-----------------------------------------------------------------------------
(* Subsidy. *)

Reduced[k \in Nat] == IF k = 0 THEN BaseSubsidy ELSE (Reduced[k-1] * MulSubsidy) \div DivSubsidy

\* Mutant: the first reduction comes one block late.
SubsidyLate(height) == IF height <= 0 THEN 0 ELSE Reduced[(height - 1) \div ReductionInterval]

CalcBlockSubsidy(height) ==
    IF height <= 0 THEN 0 ELSE Reduced[height \div ReductionInterval]

MinerShare(height) == (CalcBlockSubsidy(height) * MinerRewardPercent) \div 100
ProjectShare(height) == CalcBlockSubsidy(height) - MinerShare(height)

\* What the outputs of a block's coinbase add up to, without fees.
Coinbase(height) == MinerShare(height) + ProjectShare(height)

\* The first era is a block shorter: the genesis block has no subsidy.  The loop's early
\* return for a sum that exceeds an int64 is left out: the networks' schedule stays three
\* orders of magnitude below.
EstimateFrom[k \in Nat] ==
    IF Reduced[k] = 0 THEN 0
    ELSE Reduced[k] * (IF k = 0 THEN ReductionInterval - 1 ELSE ReductionInterval) + EstimateFrom[k+1]

EstimateTotalSubsidy == EstimateFrom[0]

-----------------------------------------------------------------------------
(* Time.  now, and the results but one, are in half seconds. *)

MaxAllowedBlockTime(prevTime, now) ==
    IF MaxFuture <= 0 THEN 2 * (prevTime + TargetSpacing)
    ELSE IF 2 * prevTime > now + 2 * MaxFuture THEN 2 * (prevTime + 1)
    ELSE now + 2 * MaxFuture

CheckBlockTimestamp(prevTime, blockTime, now) ==
    blockTime > prevTime /\ 2 * blockTime <= MaxAllowedBlockTime(prevTime, now)

LesserOf(a, b) == IF a < b THEN a ELSE b

\* Mutant: the time is not moved past the tip's.
NextBlockTimeNow(prevTime, now) == LesserOf(now, MaxAllowedBlockTime(prevTime, now))

NextBlockTime(prevTime, now) ==
    LesserOf(IF now > 2 * prevTime THEN now ELSE 2 * (prevTime + 1),
             MaxAllowedBlockTime(prevTime, now))

\* Of getblocktemplate; 0 for no requested time.
TemplateTime(prevTime, requested, now) ==
    LET next == IF requested > 0 THEN 2 * requested ELSE NextBlockTime(prevTime, now)
    IN LesserOf(IF next > 2 * prevTime THEN next ELSE 2 * (prevTime + 1),
                MaxAllowedBlockTime(prevTime, now))

\* time.Time.Unix
Unix(halfSeconds) == halfSeconds \div 2

=============================================================================
