------------------------------ MODULE Backoff ------------------------------
(***************************************************************************)
(* restartBackoff.duration (internal/s/restart_tolerance.go): how long a   *)
(* supervisor waits before a restart.  The arithmetic is Go's: a Duration  *)
(* is a signed word of Bits bits that wraps, the counter an unsigned one;  *)
(* the code has 64 and 32 bits.                                            *)
(***************************************************************************)
EXTENDS Integers, Tolerance

CONSTANT Bits  \* width of a time.Duration

ASSUME BackoffAssumption == Bits \in Nat \ {0} /\ CountLimit > Bits

Duration == -(2^(Bits - 1)) .. 2^(Bits - 1) - 1

\* The word that the integer n leaves in a Duration.
Wrap(n) == ((n + 2^(Bits - 1)) % 2^Bits) - 2^(Bits - 1)

\* 1 << n: bits shifted out are lost.
ShiftOne(n) == IF n >= Bits THEN 0 ELSE Wrap(2^n)

\* Fault: the exponent is kept from wrapping at zero.
ExponentSaturated(count) == IF count = 0 THEN 0 ELSE count - 1
\* Fault: the wait lags one restart behind.
ExponentLate(count) == (count - 2 + CountLimit) % CountLimit
\* restartCount - 1, a uint32
Exponent(count) == (count - 1 + CountLimit) % CountLimit

duration(base, max, count) ==
    LET dur == Wrap(ShiftOne(Exponent(count)) * base) IN
    IF base = 0 THEN 0
    ELSE IF dur > max THEN max
    ELSE dur
=============================================================================
