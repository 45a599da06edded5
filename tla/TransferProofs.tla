--------------------------- MODULE TransferProofs ---------------------------
(***************************************************************************)
(* What prepareAmount pays, and what the verifier then takes for that      *)
(* transfer, for any number of digits, amounts below half a word, as those *)
(* of TokenD are, and receipts of any length.                              *)
(*                                                                         *)
(* The states are inputs that nothing changes, so the arguments are about  *)
(* the operators.  The amounts: TokenD and the token count in units that   *)
(* are a power of ten apart, so what prepareAmount divides by, times the   *)
(* smaller unit, is the larger one.  The receipts: the first log that      *)
(* decides gives the verdict, and a text reads as an address that writes   *)
(* the same text back exactly when it is canonical.                        *)
(***************************************************************************)
EXTENDS MCTransfers, WellFoundedInduction, TLAPS

\* Amounts of the ledger are signed words that are not negative.
LedgerAmounts == \A x \in Ams : 2 * x < WordSize

AmountsType ==
  /\ trailingDigits \in 0 .. MaxDigits /\ decimals \in 0 .. MaxDigits
  /\ am \in Ams /\ more \in Ams

LEMMA AmountsTyped == TransferSpec => []AmountsType
<1>1. TransferInit => AmountsType
  BY DEF TransferInit, Init, AmountsType
<1>2. AmountsType /\ [TransferNext]_transfer => AmountsType'
  BY DEF AmountsType, TransferNext, transfer, inputs
<1>3. QED
  BY <1>1, <1>2, PTL DEF TransferSpec

LEMMA DivBounds ==
  ASSUME NEW x \in Nat, NEW k \in Nat \ {0}
  PROVE  /\ x \div k \in Nat
         /\ (x \div k) * k <= x
         /\ x < (x \div k) * k + k
BY SMT

LEMMA DivSplits ==
  ASSUME NEW x \in Nat, NEW y \in Nat, NEW k \in Nat \ {0}
  PROVE  (x \div k) + (y \div k) <= (x + y) \div k
BY DivBounds, SMT

LEMMA ScaleBounds ==
  ASSUME NEW x \in Nat, NEW y \in Nat, NEW k \in Nat \ {0}
  PROVE  /\ x <= y => x * k <= y * k
         /\ x < y <=> x * k < y * k
         /\ x * k \in Nat
BY SMT

\* Below half a word the conversion changes nothing, and the two digit counts
\* decide between a division and a multiplication.
LEMMA PreparedDown ==
  ASSUME NEW t \in 0 .. MaxDigits, NEW d \in 0 .. MaxDigits, NEW x \in Nat,
         2 * x < WordSize, t > d
  PROVE  /\ PrepareAmount(t, d, x) = x \div (10 ^ (t - d))
         /\ 10 ^ (t - d) \in Nat \ {0}
         /\ 10 ^ t = 10 ^ (t - d) * 10 ^ d
         /\ 10 ^ d \in Nat \ {0}
<1>1. t - d \in 0 .. MaxDigits /\ d \in 0 .. t
  BY InputsAssumption
<1>2. ToSigned(x) = x
  BY DEF ToSigned
<1>3. QED
  BY <1>1, <1>2, PowersAssumption DEF PrepareAmount, Quo

LEMMA PreparedUp ==
  ASSUME NEW t \in 0 .. MaxDigits, NEW d \in 0 .. MaxDigits, NEW x \in Nat,
         2 * x < WordSize, ~(t > d)
  PROVE  /\ PrepareAmount(t, d, x) = x * 10 ^ (d - t)
         /\ 10 ^ (d - t) \in Nat \ {0}
         /\ 10 ^ d = 10 ^ (d - t) * 10 ^ t
         /\ 10 ^ t \in Nat \ {0}
<1>1. d - t \in 0 .. MaxDigits /\ t \in 0 .. d
  BY InputsAssumption
<1>2. ToSigned(x) = x
  BY DEF ToSigned
<1>3. QED
  BY <1>1, <1>2, PowersAssumption DEF PrepareAmount

\* The transfer is worth no more than what was withdrawn and less than a unit of
\* the token short of it, for all digit counts (prepareAmount).
THEOREM AlwaysWorthTheSame ==
  ASSUME LedgerAmounts
  PROVE  TransferSpec => []WorthTheSame
<1>1. ASSUME AmountsType PROVE WorthTheSame
  <2>1. /\ trailingDigits \in 0 .. MaxDigits /\ decimals \in 0 .. MaxDigits
        /\ am \in Nat /\ 2 * am < WordSize
    BY <1>1, InputsAssumption DEF AmountsType, LedgerAmounts
  <2>2. CASE trailingDigits > decimals
    <3> DEFINE k == 10 ^ (trailingDigits - decimals)
               m == 10 ^ decimals
               q == am \div k
    <3>1. /\ Paid(am) = q /\ 10 ^ trailingDigits = k * m
          /\ k \in Nat \ {0} /\ m \in Nat \ {0}
      BY <2>1, <2>2, PreparedDown DEF Paid
    <3>2. q \in Nat /\ q * k <= am /\ am < q * k + k
      BY <2>1, <3>1, DivBounds
    <3> HIDE DEF k, m, q
    <3>3. /\ (q * k) * m <= am * m
          /\ am * m < (q * k + k) * m
      BY <2>1, <3>1, <3>2, ScaleBounds
    <3>4. (q * k) * m = q * (k * m) /\ (q * k + k) * m = q * (k * m) + k * m
      BY <3>1, <3>2
    <3>5. QED
      BY <3>1, <3>3, <3>4 DEF WorthTheSame, m
  <2>3. CASE ~(trailingDigits > decimals)
    <3> DEFINE k == 10 ^ (decimals - trailingDigits)
               m == 10 ^ trailingDigits
    <3>1. /\ Paid(am) = am * k /\ 10 ^ decimals = k * m
          /\ k \in Nat \ {0} /\ m \in Nat \ {0}
      BY <2>1, <2>3, PreparedUp DEF Paid
    <3> HIDE DEF k, m
    <3>2. (am * k) * m = am * (k * m) /\ am * (k * m) \in Nat
      BY <2>1, <3>1
    <3>3. QED
      BY <3>1, <3>2 DEF WorthTheSame, m
  <2>4. QED
    BY <2>2, <2>3
<1>2. QED
  BY AmountsTyped, <1>1, PTL

\* Splitting a withdrawal never pays more than the whole (prepareAmount rounds down).
THEOREM SplitNeverPaysMore == TransferSpec => []SplitPaysNoMore
<1>1. ASSUME AmountsType PROVE SplitPaysNoMore
  <2> SUFFICES ASSUME am + more < WordSize \div 2
               PROVE  Paid(am) + Paid(more) <= Paid(am + more)
    BY DEF SplitPaysNoMore
  <2>1. /\ trailingDigits \in 0 .. MaxDigits /\ decimals \in 0 .. MaxDigits
        /\ am \in Nat /\ more \in Nat /\ am + more \in Nat
        /\ 2 * am < WordSize /\ 2 * more < WordSize /\ 2 * (am + more) < WordSize
    BY <1>1, InputsAssumption DEF AmountsType
  <2>2. CASE trailingDigits > decimals
    <3> DEFINE k == 10 ^ (trailingDigits - decimals)
    <3>1. /\ Paid(am) = am \div k /\ Paid(more) = more \div k
          /\ Paid(am + more) = (am + more) \div k /\ k \in Nat \ {0}
      BY <2>1, <2>2, PreparedDown DEF Paid
    <3> HIDE DEF k
    <3>2. QED
      BY <2>1, <3>1, DivSplits
  <2>3. CASE ~(trailingDigits > decimals)
    <3> DEFINE k == 10 ^ (decimals - trailingDigits)
    <3>1. /\ Paid(am) = am * k /\ Paid(more) = more * k
          /\ Paid(am + more) = (am + more) * k /\ k \in Nat \ {0}
      BY <2>1, <2>3, PreparedUp DEF Paid
    <3> HIDE DEF k
    <3>2. QED
      BY <2>1, <3>1
  <2>4. QED
    BY <2>2, <2>3
<1>2. QED
  BY AmountsTyped, <1>1, PTL

\* A withdrawal whose transfer fits a word is rejected as too small exactly when it
\* is worth less than one unit of the token (sendWithdraw's test of Uint64).
THEOREM TooSmallAlwaysNothing ==
  ASSUME LedgerAmounts
  PROVE  TransferSpec => []TooSmallIsNothing
<1>1. ASSUME AmountsType PROVE TooSmallIsNothing
  <2> SUFFICES ASSUME Paid(am) < WordSize
               PROVE  IsTooSmall(trailingDigits, decimals, am)
                        <=> am * 10 ^ decimals < 10 ^ trailingDigits
    BY DEF TooSmallIsNothing
  <2>1. /\ trailingDigits \in 0 .. MaxDigits /\ decimals \in 0 .. MaxDigits
        /\ am \in Nat /\ 2 * am < WordSize
    BY <1>1, InputsAssumption DEF AmountsType, LedgerAmounts
  <2>2. ASSUME Paid(am) \in Nat
        PROVE  IsTooSmall(trailingDigits, decimals, am) <=> Paid(am) = 0
    BY <2>2, InputsAssumption DEF IsTooSmall, LowWord, Abs, Paid
  <2>3. CASE trailingDigits > decimals
    <3> DEFINE k == 10 ^ (trailingDigits - decimals)
               m == 10 ^ decimals
               q == am \div k
    <3>1. /\ Paid(am) = q /\ 10 ^ trailingDigits = k * m
          /\ k \in Nat \ {0} /\ m \in Nat \ {0}
      BY <2>1, <2>3, PreparedDown DEF Paid
    <3>2. q \in Nat /\ q * k <= am /\ am < q * k + k
      BY <2>1, <3>1, DivBounds
    <3> HIDE DEF k, m, q
    <3>3. q = 0 <=> am < k
      BY <2>1, <3>1, <3>2
    <3>4. am < k <=> am * m < k * m
      BY <2>1, <3>1, ScaleBounds
    <3>5. QED
      BY <2>2, <3>1, <3>2, <3>3, <3>4 DEF m
  <2>4. CASE ~(trailingDigits > decimals)
    <3> DEFINE k == 10 ^ (decimals - trailingDigits)
               m == 10 ^ trailingDigits
    <3>1. /\ Paid(am) = am * k /\ 10 ^ decimals = k * m
          /\ k \in Nat \ {0} /\ m \in Nat \ {0}
      BY <2>1, <2>4, PreparedUp DEF Paid
    <3> HIDE DEF k, m
    <3>2. am * k \in Nat /\ (am * k = 0 <=> am * k < 1)
      BY <2>1, <3>1
    <3>3. am * k < 1 <=> (am * k) * m < 1 * m
      BY <3>1, <3>2, ScaleBounds
    <3>4. (am * k) * m = am * (k * m)
      BY <2>1, <3>1
    <3>5. QED
      BY <2>2, <3>1, <3>2, <3>3, <3>4 DEF m
  <2>5. QED
    BY <2>3, <2>4
<1>2. QED
  BY AmountsTyped, <1>1, PTL
-----------------------------------------------------------------------------
\* Min chooses the least element of a set of naturals.
LEMMA MinIsLeast ==
  ASSUME NEW I \in SUBSET Nat, I # {}
  PROVE  Min(I) \in I /\ \A y \in I : Min(I) <= y
<1> DEFINE R == {ss \in Nat \X Nat : ss[1] < ss[2]}
<1>1. IsWellFoundedOn(R, Nat)
  BY NatLessThanWellFounded DEF OpToRel
<1> HIDE DEF R
<1>2. \E x \in I : \A y \in I : ~(<<y, x>> \in R)
  BY <1>1, WFMin
<1>3. PICK x \in I : \A y \in I : ~(<<y, x>> \in R)
  BY <1>2
<1>4. ASSUME NEW y \in I PROVE x <= y
  <2>1. x \in Nat /\ y \in Nat
    OBVIOUS
  <2>2. ~(y < x)
    BY <1>3, <2>1 DEF R
  <2>3. QED
    BY <2>1, <2>2
<1>5. QED
  BY <1>4 DEF Min

LEMMA MaxIsGreatest ==
  ASSUME NEW I \in SUBSET Nat, NEW n \in I, \A i \in I : i <= n
  PROVE  Max(I) = n
<1> DEFINE Greatest(x) == \A y \in I : x >= y
<1>1. Greatest(n)
  OBVIOUS
<1>2. ASSUME NEW x \in I, Greatest(x) PROVE x = n
  BY <1>2
<1>3. Max(I) \in I /\ Greatest(Max(I))
  BY <1>1 DEF Max
<1>4. QED
  BY <1>2, <1>3

Decisive(log, destination, amount) ==
  log.removed \/ UnpackPanics(log) \/ Matches(log, destination, amount)

\* Either no log decides, or the first that does gives the verdict.
LEMMA VerdictOfFirst ==
  ASSUME NEW s, Len(s) \in Nat, NEW d, NEW a
  PROVE  \/ /\ \A i \in 1 .. Len(s) : ~Decisive(s[i], d, a)
            /\ LogsVerdict(s, d, a) = "unsuccessful"
         \/ \E f \in 1 .. Len(s) :
              /\ Decisive(s[f], d, a)
              /\ \A j \in 1 .. f - 1 : ~Decisive(s[j], d, a)
              /\ LogsVerdict(s, d, a) =
                   IF s[f].removed THEN "unsuccessful"
                   ELSE IF UnpackPanics(s[f]) THEN "panic" ELSE "successful"
<1> DEFINE I == {i \in 1 .. Len(s) : Decisive(s[i], d, a)}
           first == IF I # {} THEN Min(I) ELSE 0
<1>1. LogsVerdict(s, d, a) =
        IF first = 0 \/ s[first].removed THEN "unsuccessful"
        ELSE IF UnpackPanics(s[first]) THEN "panic" ELSE "successful"
  BY DEF LogsVerdict, SelectInSeq, Decisive
<1>2. CASE I = {}
  BY <1>1, <1>2
<1>3. CASE I # {}
  <2>1. first = Min(I) /\ first \in I /\ \A i \in I : first <= i
    <3>1. I \in SUBSET Nat
      OBVIOUS
    <3>2. QED
      BY <1>3, <3>1, MinIsLeast
  <2> HIDE DEF first
  <2>2. first \in 1 .. Len(s) /\ Decisive(s[first], d, a)
    BY <2>1
  <2>3. \A j \in 1 .. first - 1 : ~Decisive(s[j], d, a)
    <3> SUFFICES ASSUME NEW j \in 1 .. first - 1, Decisive(s[j], d, a) PROVE FALSE
      OBVIOUS
    <3>1. j \in 1 .. Len(s) /\ j < first
      BY <2>2
    <3>2. QED
      BY <2>1, <2>2, <3>1
  <2>4. QED
    BY <1>1, <2>2, <2>3
<1>4. QED
  BY <1>2, <1>3

LEMMA OneLowered ==
  ASSUME NEW p, NEW n, NEW h, NEW v,
         NEW x \in [prefix : {p}, length : {n}, hex : {h}, value : {v}, spelling : {"lower"}],
         NEW y \in [prefix : {p}, length : {n}, hex : {h}, value : {v}, spelling : {"lower"}]
  PROVE  x = y
<1>1. x.prefix = y.prefix /\ x.length = y.length /\ x.hex = y.hex /\ x.value = y.value
      /\ x.spelling = y.spelling
  OBVIOUS
<1>2. /\ x = [prefix |-> x.prefix, length |-> x.length, hex |-> x.hex, value |-> x.value,
              spelling |-> x.spelling]
      /\ y = [prefix |-> y.prefix, length |-> y.length, hex |-> y.hex, value |-> y.value,
              spelling |-> y.spelling]
  OBVIOUS
<1>3. QED
  BY <1>1, <1>2

\* The text of the address a log was written for is the text the creator wrote
\* exactly when that one is canonical and reads as that address.
LEMMA SameTextIsCanonical ==
  ASSUME NEW t \in Texts, NEW a
  PROVE  SameText(AddressString(a), t)
           <=> /\ t.prefix /\ t.hex /\ t.length = AddressDigits
               /\ a = t.value
<1> DEFINE l == ToLower(t)
           r == ToLower(AddressString(a))
           Lowered(p, n, h, v) ==
             [prefix : {p}, length : {n}, hex : {h}, value : {v}, spelling : {"lower"}]
<1>1. l \in Lowered(t.prefix, t.length, t.hex, t.value)
  BY DEF Texts, ToLower
<1>2. r \in Lowered(TRUE, AddressDigits, TRUE, a)
  BY DEF ToLower, AddressString
<1> HIDE DEF l, r
<1>3. r = l <=> /\ t.prefix = TRUE /\ t.length = AddressDigits
                /\ t.hex = TRUE /\ t.value = a
  <2>1. /\ l.prefix = t.prefix /\ l.length = t.length /\ l.hex = t.hex /\ l.value = t.value
        /\ l.spelling = "lower"
    BY <1>1
  <2>2. /\ r.prefix = TRUE /\ r.length = AddressDigits /\ r.hex = TRUE /\ r.value = a
        /\ r.spelling = "lower"
    BY <1>2
  <2>3. ASSUME t.prefix = TRUE, t.length = AddressDigits, t.hex = TRUE, t.value = a
        PROVE  r = l
    <3>1. r \in Lowered(t.prefix, t.length, t.hex, t.value)
      BY <1>2, <2>3
    <3>2. QED
      BY <1>1, <3>1, OneLowered
  <2>4. QED
    BY <2>1, <2>2, <2>3
<1>4. t.prefix \in BOOLEAN /\ t.hex \in BOOLEAN
  BY DEF Texts
<1>5. QED
  BY <1>3, <1>4 DEF SameText, l, r

LEMMA CanonicalReads ==
  ASSUME NEW t \in Texts, t.length = AddressDigits
  PROVE  HexToAddress(t) = t.value
<1>1. t.value \in Nat /\ t.value < Base ^ AddressDigits
  BY ReceiptsAssumption DEF Texts
<1>2. Base ^ AddressDigits \in Int
  BY TextAssumption
<1>3. QED
  BY <1>1, <1>2 DEF HexToAddress

\* Reviews of others carry no hash, so the details are those of the sender's review.
LEMMA SentIsRead ==
  ASSUME reviews \in Seq(Earlier), Paid(am) \in Nat
  PROVE  Details.amount = Paid(am)
<1> DEFINE data == Append(reviews, Sent)
           n == Len(reviews) + 1
           I == {i \in 1 .. Len(data) : data[i].hash # NoHash}
           given == {i \in 1 .. n : data[i].amount # NoAmount}
<1>1. /\ n \in Nat \ {0} /\ Len(data) = n /\ data[n] = Sent
      /\ \A i \in 1 .. n - 1 : data[i] = reviews[i] /\ reviews[i] \in Earlier
  OBVIOUS
<1>2. Sent.hash = "sent" /\ Sent.amount = Paid(am) /\ \A e \in Earlier : e.hash = NoHash
  BY DEF Sent, Earlier
<1> HIDE DEF data, n
<1>3. "sent" # NoHash /\ Paid(am) # NoAmount
  BY DEF NoHash, NoAmount
<1>4. I = {n}
  BY <1>1, <1>2, <1>3
<1>5. Min(I) = n
  BY <1>1, <1>4 DEF Min
<1>6. Max(given) = n /\ given # {}
  <2>1. given \in SUBSET Nat /\ n \in given /\ \A i \in given : i <= n
    BY <1>1, <1>2, <1>3
  <2>2. QED
    BY <2>1, MaxIsGreatest
<1>7. WithdrawDetails(data) = [hash |-> data[n].hash, amount |-> data[n].amount]
  <2>1. SelectInSeq(data, LAMBDA d : d.hash # NoHash) = n
    BY <1>4, <1>5 DEF SelectInSeq
  <2>2. QED
    BY <1>1, <1>6, <2>1 DEF WithdrawDetails
<1>8. QED
  BY <1>1, <1>2, <1>7 DEF Details, data

LEMMA PaidIsNat ==
  ASSUME LedgerAmounts, AmountsType
  PROVE  Paid(am) \in Nat
<1>1. /\ trailingDigits \in 0 .. MaxDigits /\ decimals \in 0 .. MaxDigits
      /\ am \in Nat /\ 2 * am < WordSize
  BY InputsAssumption DEF AmountsType, LedgerAmounts
<1>2. CASE trailingDigits > decimals
  <2>1. PICK k \in Nat \ {0} : Paid(am) = am \div k
    BY <1>1, <1>2, PreparedDown DEF Paid
  <2>2. QED
    BY <1>1, <2>1, DivBounds
<1>3. CASE ~(trailingDigits > decimals)
  <2>1. PICK k \in Nat : Paid(am) = am * k
    BY <1>1, <1>3, PreparedUp DEF Paid
  <2>2. QED
    BY <1>1, <2>1
<1>4. QED
  BY <1>2, <1>3

\* What a receipt is read with, as long as it is the receipt of a sampled transfer.
LogSet == LogsTo(HexToAddress(text)) \cup LogsTo(3)

ReceiptType ==
  /\ AmountsType
  /\ \/ /\ text \in Texts
        /\ reviews \in Seq(Earlier)
        /\ logs \in Seq(LogSet)
     \/ logs = << >>

LEMMA BoundedIsSeq ==
  ASSUME NEW S, NEW n, NEW s \in BoundedSeq(S, n)
  PROVE  n \in Nat => s \in Seq(S)
BY DEF BoundedSeq, SeqOf

LEMMA ReceiptsTyped == TransferSpec => []ReceiptType
<1>1. TransferInit => ReceiptType
  BY BoundedIsSeq, ReceiptsAssumption DEF TransferInit, Init, AmountsType, ReceiptType, LogSet
<1>2. ReceiptType /\ [TransferNext]_transfer => ReceiptType'
  BY DEF ReceiptType, AmountsType, LogSet, LogsTo, Earlier, Paid, TransferNext, transfer, inputs
<1>3. QED
  BY <1>1, <1>2, PTL DEF TransferSpec

\* A log that decides a reading without being removed or panicking looks like the
\* transfer that was made.
LEMMA MatchLooksOwn ==
  ASSUME LedgerAmounts, ReceiptType, NEW i \in DOMAIN logs,
         Matches(logs[i], text, Details.amount), ~logs[i].removed
  PROVE  LooksOwn(logs[i]) /\ Canonical
<1> DEFINE log == logs[i]
<1>1. /\ text \in Texts /\ log \in LogSet
      /\ Details.amount = Paid(am)
  BY PaidIsNat, SentIsRead DEF ReceiptType
<1>2. /\ log.topics = 3 /\ log.data = "word" /\ log.value = Paid(am)
      /\ SameText(AddressString(log.to), text)
  BY <1>1 DEF Matches, Unpacks
<1>3. Canonical /\ log.to = HexToAddress(text)
  BY <1>1, <1>2, SameTextIsCanonical, CanonicalReads DEF Canonical
<1>4. log.removed = FALSE
  BY <1>1 DEF LogSet, LogsTo
<1>5. QED
  BY <1>2, <1>3, <1>4 DEF LooksOwn, Shape, Own

\* What the verifier recognises has the shape of a Transfer of the prepared amount to
\* the paid address, and nothing before it in the receipt was removed: no two
\* addresses are written alike (getWithdrawDetails, LogsSuccessful).
THEOREM RecognisedAlwaysLooksMoved ==
  ASSUME LedgerAmounts
  PROVE  TransferSpec => []RecognisedLooksMoved
<1>1. ASSUME ReceiptType PROVE RecognisedLooksMoved
  <2> SUFFICES ASSUME Verdict = "successful"
               PROVE  \E i \in DOMAIN logs :
                        LooksOwn(logs[i]) /\ \A j \in 1 .. i : ~logs[j].removed
    BY DEF RecognisedLooksMoved
  <2>1. Len(logs) \in Nat /\ DOMAIN logs = 1 .. Len(logs)
    BY <1>1 DEF ReceiptType
  <2>2. PICK f \in 1 .. Len(logs) :
          /\ Decisive(logs[f], text, Details.amount)
          /\ \A j \in 1 .. f - 1 : ~Decisive(logs[j], text, Details.amount)
          /\ ~logs[f].removed /\ ~UnpackPanics(logs[f])
    BY <2>1, VerdictOfFirst DEF Verdict
  <2>3. LooksOwn(logs[f])
    BY <1>1, <2>1, <2>2, MatchLooksOwn DEF Decisive
  <2>4. \A j \in 1 .. f : ~logs[j].removed
    BY <2>2 DEF Decisive
  <2>5. QED
    BY <2>1, <2>3, <2>4
<1>2. QED
  BY ReceiptsTyped, <1>1, PTL

\* The receipt of a transfer of the service is taken for one exactly when the creator
\* wrote the address in its canonical form, unless a log before it is removed or
\* cannot be unpacked (sendWithdraw, getWithdrawDetails, LogsSuccessful).
THEOREM OwnTransferAlwaysRecognised ==
  ASSUME LedgerAmounts
  PROVE  TransferSpec => []OwnTransferRecognised
<1>1. ASSUME ReceiptType PROVE OwnTransferRecognised
  <2> SUFFICES ASSUME NEW i \in DOMAIN logs, logs[i] = Own,
                      \A j \in 1 .. i - 1 : ~logs[j].removed /\ ~UnpackPanics(logs[j])
               PROVE  Verdict = "successful" <=> Canonical
    BY DEF OwnTransferRecognised
  <2>1. Len(logs) \in Nat /\ DOMAIN logs = 1 .. Len(logs) /\ text \in Texts
        /\ Details.amount = Paid(am)
    BY <1>1, PaidIsNat, SentIsRead DEF ReceiptType
  <2>2. ~Own.removed /\ ~UnpackPanics(Own) /\ Unpacks(Own) /\ Own.data = "word"
        /\ Own.value = Paid(am) /\ Own.to = HexToAddress(text)
    BY DEF Own, UnpackPanics, Unpacks
  <2>3. ASSUME Verdict = "successful" PROVE Canonical
    <3>1. PICK f \in 1 .. Len(logs) :
            /\ Decisive(logs[f], text, Details.amount)
            /\ ~logs[f].removed /\ ~UnpackPanics(logs[f])
      BY <2>1, <2>3, VerdictOfFirst DEF Verdict
    <3>2. QED
      BY <1>1, <2>1, <3>1, MatchLooksOwn DEF Decisive
  <2>4. ASSUME Canonical PROVE Verdict = "successful"
    <3>1. Own.to = text.value
      BY <2>1, <2>2, <2>4, CanonicalReads DEF Canonical
    <3>2. SameText(AddressString(Own.to), text)
      BY <2>1, <2>4, <3>1, SameTextIsCanonical DEF Canonical
    <3>3. Decisive(logs[i], text, Details.amount)
      BY <2>1, <2>2, <3>2 DEF Decisive, Matches
    <3>4. PICK f \in 1 .. Len(logs) :
            /\ \A j \in 1 .. f - 1 : ~Decisive(logs[j], text, Details.amount)
            /\ Verdict = IF logs[f].removed THEN "unsuccessful"
                         ELSE IF UnpackPanics(logs[f]) THEN "panic" ELSE "successful"
      BY <2>1, <3>3, VerdictOfFirst DEF Verdict
    <3>5. f \in 1 .. i
      BY <2>1, <3>3, <3>4
    <3>6. ~logs[f].removed /\ ~UnpackPanics(logs[f])
      BY <2>1, <2>2, <3>5
    <3>7. QED
      BY <3>4, <3>6
  <2>5. QED
    BY <2>3, <2>4
<1>2. QED
  BY ReceiptsTyped, <1>1, PTL
=============================================================================
