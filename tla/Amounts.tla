------------------------------ MODULE Amounts -------------------------------
(***************************************************************************)
(* prepareAmount: from an amount as TokenD writes it to the integer given  *)
(* to the token contract, and the test for "too small" that follows it.    *)
(* WordSize is the number of values of a 64-bit word; the runs use a       *)
(* smaller word, the definitions are the same.                             *)
(***************************************************************************)
EXTENDS Integers

CONSTANT WordSize

\* The conversion int64(am) of an unsigned word.
ToSigned(am) == IF 2 * am < WordSize THEN am ELSE am - WordSize

Abs(x) == IF x < 0 THEN -x ELSE x

\* Mutant: the division rounds up.
QuoUp(x, y) == (x + y - 1) \div y

\* big.Int.Quo truncates towards zero.
Quo(x, y) == IF x < 0 THEN -((-x) \div y) ELSE x \div y

\* Mutant: an asset with fewer digits than its contract is not scaled up.
ScaledDownOnly(trailingDigits, decimals, am) ==
  IF trailingDigits > decimals
  THEN Quo(ToSigned(am), 10 ^ (trailingDigits - decimals))
  ELSE ToSigned(am)

PrepareAmount(trailingDigits, decimals, am) ==
  IF trailingDigits > decimals
  THEN Quo(ToSigned(am), 10 ^ (trailingDigits - decimals))
  ELSE ToSigned(am) * 10 ^ (decimals - trailingDigits)

\* big.Int.Uint64: the low word of the magnitude.
LowWord(x) == Abs(x) % WordSize

\* Mutant: the amount is tested before it is scaled.
TestedUnscaled(trailingDigits, decimals, am) == LowWord(am) = 0

IsTooSmall(trailingDigits, decimals, am) ==
  LowWord(PrepareAmount(trailingDigits, decimals, am)) = 0
=============================================================================
