------------------------------ MODULE MCAmounts ------------------------------
(***************************************************************************)
(* prepareAmount over all small inputs: two amounts of one asset, with     *)
(* every pair of digit counts up to MaxDigits.  A behaviour picks an input *)
(* and keeps it.                                                           *)
(***************************************************************************)
EXTENDS Amounts

CONSTANTS
  Ams,        \* the amounts tried
  MaxDigits   \* bound on trailing digits and decimals

ASSUME InputsAssumption ==
  MaxDigits \in Nat /\ Ams \subseteq Nat /\ WordSize \in Nat

\* The law of powers, for the powers these inputs have.
ASSUME PowersAssumption ==
  \A n \in 0 .. MaxDigits :
    /\ 10 ^ n \in Nat \ {0}
    /\ \A m \in 0 .. n : 10 ^ n = 10 ^ (n - m) * 10 ^ m

VARIABLES trailingDigits, decimals, am, more

inputs == <<trailingDigits, decimals, am, more>>

Init ==
  /\ trailingDigits \in 0 .. MaxDigits
  /\ decimals \in 0 .. MaxDigits
  /\ am \in Ams
  /\ more \in Ams

Next == UNCHANGED inputs

Spec == Init /\ [][Next]_inputs

Paid(x) == PrepareAmount(trailingDigits, decimals, x)

\* The transfer is worth no more than what was withdrawn, and less than one
\* unit of the token short of it.
WorthTheSame ==
  LET withdrawn == am * 10 ^ decimals
      sent == Paid(am) * 10 ^ trailingDigits
  IN sent <= withdrawn /\ withdrawn < sent + 10 ^ trailingDigits

\* Splitting a withdrawal in two never pays more than the whole.
SplitPaysNoMore ==
  am + more < WordSize \div 2 => Paid(am) + Paid(more) <= Paid(am + more)
=============================================================================
