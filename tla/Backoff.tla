------------------------------ MODULE Backoff ------------------------------
(***************************************************************************)
(* internal/peers.go: how long the node waits after the nth failure of a   *)
(* call (backoff), of the comparison with a peer or of the push of a       *)
(* message (msgLoop).  The code computes (base + random) << n in an int,   *)
(* multiplies by a unit of nanoseconds in an int64 and takes the minimum   *)
(* with maxBackoff, in the arithmetic of the machine.                      *)
(*                                                                         *)
(* A word is four limbs of 16 bits, the lowest first.                      *)
(***************************************************************************)
EXTENDS Integers, Sequences

CONSTANTS
    MaxAttempt  \* bound: the last attempt

ASSUME BackoffAssumption == MaxAttempt \in Nat \ {0}

Kinds == {"call", "diff", "push"}

IntSizes == {32, 64}    \* the bits of an int: 32 on ARM

\* base, unit in units of 10^6 ns, maxBackoff in units.
Base == [call |-> 100, diff |-> 5, push |-> 10]
Millis == [call |-> 1, diff |-> 1000, push |-> 1000]
maxBackoff == [call |-> 60000, diff |-> 300, push |-> 300]

\* rand.Intn(base) for the call, the comparison and the push alike.
Intn(k) == 0 .. Base[k] - 1

-----------------------------------------------------------------------------
(* Words.                                                                  *)

Limb == 65536
Limbs == 1 .. 4
Word == [Limbs -> 0 .. Limb - 1]

\* The word of a natural number below Limb^2.
WordOf(x) == <<x % Limb, x \div Limb, 0, 0>>

\* w * x modulo 2^64, for a small x.
Times(w, x) ==
    LET p1 == w[1] * x
        p2 == w[2] * x + p1 \div Limb
        p3 == w[3] * x + p2 \div Limb
        p4 == w[4] * x + p3 \div Limb
    IN  <<p1 % Limb, p2 % Limb, p3 % Limb, p4 % Limb>>

\* x << k in an int64, where everything is shifted out at last.
Shift(x, k) ==
    LET w[i \in 0 .. k] == IF i = 0 THEN WordOf(x) ELSE Times(w[i - 1], 2)
    IN  w[k]

Negative(w) == w[4] >= Limb \div 2

\* The int as an int64: the sign of a 32-bit int is extended.
SignExtend(bits, w) ==
    IF bits = 64 THEN w
    ELSE LET sign == IF w[2] >= Limb \div 2 THEN Limb - 1 ELSE 0
         IN  <<w[1], w[2], sign, sign>>

\* v < w, for int64s.
Less(v, w) ==
    \/ Negative(v) /\ ~ Negative(w)
    \/ /\ Negative(v) <=> Negative(w)
       /\ \E i \in Limbs : v[i] < w[i] /\ \A j \in Limbs : j > i => v[j] = w[j]

\* x units of the delay k in nanoseconds.
Nanos(w, k) == Times(Times(Times(w, Millis[k]), 1000), 1000)

-----------------------------------------------------------------------------
\* A plausible slip: the delay is not limited.
Delay_Unlimited(bits, k, x, n) == Nanos(SignExtend(bits, Shift(Base[k] + x, n)), k)

\* time.Duration((base + rand.Intn(base)) << n) * unit, at most maxBackoff.
Delay(bits, k, x, n) ==
    LET d == Nanos(SignExtend(bits, Shift(Base[k] + x, n)), k)
        max == Nanos(WordOf(maxBackoff[k]), k)
    IN  IF Less(max, d) THEN max ELSE d

\* The delay in units that the comments announce, "(100 to 200) * 2^n ms" and
\* "(10 to 20) * 2^n sec", and at most maxBackoff.
Announced(k, x, n) ==
    LET d == (Base[k] + x) * 2 ^ (IF n < 10 THEN n ELSE 10)
    IN  IF d > maxBackoff[k] THEN maxBackoff[k] ELSE d

\* The last attempt whose delay stays in its word, whatever rand returns.  After
\* it the product overflows: the delay may be negative, and is zero once
\* all bits are shifted out, so the node no longer waits (peers.go:393).
LastSafe(bits) ==
    IF bits = 64 THEN [call |-> 35, diff |-> 29, push |-> 28]
    ELSE [call |-> 23, diff |-> 27, push |-> 26]

\* For every attempt: is the delay the announced one, unless it overflows?
AsAnnounced ==
    [n \in 0 .. MaxAttempt |->
        \A bits \in IntSizes, k \in Kinds : n <= LastSafe(bits)[k] =>
            \A x \in Intn(k) :
                Delay(bits, k, x, n) = Nanos(WordOf(Announced(k, x, n)), k)]
=============================================================================
