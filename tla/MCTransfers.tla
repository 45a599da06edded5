---------------------------- MODULE MCTransfers ------------------------------
(***************************************************************************)
(* From an amount of TokenD to the log the verifier looks for: the inputs  *)
(* of MCAmounts, and for some of them every small text of an address,      *)
(* every history of reviews and every receipt of up to MaxLogs logs.       *)
(***************************************************************************)
EXTENDS MCAmounts, Receipts

CONSTANTS
  TextDigits,   \* the lengths of addresses tried
  TextValues,   \* the numbers they may read as
  MaxReviews,   \* bound on the reviews before the sender's second
  MaxLogs,      \* bound on the logs of a receipt
  Sampled       \* the amounts whose transfer is followed to its receipt

ASSUME ReceiptsAssumption ==
  TextValues \subseteq Nat /\ MaxReviews \in Nat /\ MaxLogs \in Nat

VARIABLES
  text,      \* the address the creator wrote
  reviews,   \* the external details of the reviews before the sender's second
  logs       \* the logs of the receipt

transfer == <<inputs, text, reviews, logs>>

Texts ==
  {t \in [prefix : BOOLEAN, length : TextDigits, hex : BOOLEAN, value : TextValues,
          spelling : {"lower", "checksum"}] : t.value < Base ^ t.length}

\* Reviews of others: they may name an amount, the hash is the sender's alone.
Earlier == [hash : {NoHash}, amount : {NoAmount, more}]

\* Logs of the token about address a, and foreign ones of a Transfer's shape.
LogsTo(a) ==
  [contract : {"token"}, event : {"Transfer"}, removed : {FALSE}, topics : {3},
   data : {"word", "empty", "short"}, to : {a}, value : {Paid(am), Paid(more)}]
    \cup [contract : {"token"}, event : {"Transfer"}, removed : BOOLEAN,
          topics : {0, 2, 3}, data : {"word"}, to : {a}, value : {Paid(am)}]
    \cup [contract : {"token", "other"}, event : {"Transfer", "Approval"},
          removed : {FALSE}, topics : {3}, data : {"word"}, to : {a}, value : {Paid(am)}]

TransferInit ==
  /\ Init
  /\ IF am \in Sampled /\ more \in Sampled
     THEN /\ text \in Texts
          /\ reviews \in BoundedSeq(Earlier, MaxReviews)
          /\ logs \in BoundedSeq(LogsTo(HexToAddress(text)) \cup LogsTo(3), MaxLogs)
     ELSE /\ text = AddressString(1)
          /\ reviews = << >> /\ logs = << >>

TransferNext == UNCHANGED transfer

TransferSpec == TransferInit /\ [][TransferNext]_transfer

\* sendWithdraw's record, and what getWithdrawDetails makes of it.
Sent == [hash |-> "sent", amount |-> Paid(am)]
Details == WithdrawDetails(Append(reviews, Sent))

Verdict == LogsVerdict(logs, text, Details.amount)

Own ==
  [contract |-> "token", event |-> "Transfer", removed |-> FALSE, topics |-> 3,
   data |-> "word", to |-> HexToAddress(text), value |-> Paid(am)]

Canonical == text.prefix /\ text.hex /\ text.length = AddressDigits

\* A transfer the service made is recognised exactly when the creator wrote the
\* address in its canonical form, whatever its letters, whatever other reviews said
\* and whatever logs stand around it (sendWithdraw, getWithdrawDetails,
\* LogsSuccessful).
OwnTransferRecognised ==
  \A i \in DOMAIN logs :
    /\ logs[i] = Own
    /\ \A j \in 1 .. i - 1 : ~logs[j].removed /\ ~UnpackPanics(logs[j])
    => (Verdict = "successful" <=> Canonical)

\* What LogsSuccessful can see of a log: all but its contract and its event.
Shape(log) == <<log.removed, log.topics, log.data, log.to, log.value>>

LooksOwn(log) == Shape(log) = Shape(Own)

\* What is recognised has the shape of a Transfer of the prepared amount to the
\* address that was paid, and nothing before it was taken back: equal texts never
\* stand for two addresses or two amounts (getWithdrawDetails, LogsSuccessful).
RecognisedLooksMoved ==
  Verdict = "successful" =>
    \E i \in DOMAIN logs : LooksOwn(logs[i]) /\ \A j \in 1 .. i : ~logs[j].removed

\* As long as the transfer fits a word, a withdrawal is rejected as too small
\* exactly when its value is below one unit of the token (sendWithdraw's test of
\* Uint64; beyond a word a multiple of 2^64 is rejected too).
TooSmallIsNothing ==
  Paid(am) < WordSize =>
    (IsTooSmall(trailingDigits, decimals, am)
       <=> am * 10 ^ decimals < 10 ^ trailingDigits)
=============================================================================
