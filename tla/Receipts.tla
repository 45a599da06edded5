------------------------------ MODULE Receipts -------------------------------
(***************************************************************************)
(* What the verifier reads once a transfer has succeeded: the external     *)
(* details of the request, the address its creator wrote, and the logs of  *)
(* the receipt.  The oracle sends to the number the address reads as; the  *)
(* verifier compares texts.                                                *)
(*                                                                         *)
(* A text that stands for an address is a record                           *)
(*   prefix    it begins with 0x                                           *)
(*   length    its digits after the prefix                                 *)
(*   hex       whether all of them are digits                              *)
(*   value     the number that decoding them gives (of what precedes the   *)
(*             first character that is no digit)                           *)
(*   spelling  which digits are capital letters                            *)
(* and a log is a record                                                   *)
(*   contract  "token" if the token wrote it                               *)
(*   event     the name of its event                                       *)
(*   removed   taken back by a switch of branch                            *)
(*   topics    how many; Transfer has three, with sender and receiver      *)
(*   data      "empty", "short" of one word, or a "word"                   *)
(*   to, value the receiver and the amount, where topics and data give them*)
(* UnpackLog is told the name of the event, but reads neither it nor the   *)
(* contract that wrote the log.                                            *)
(***************************************************************************)
EXTENDS Integers, SequencesExt

CONSTANTS
  Base,           \* values of a digit; 16
  AddressDigits   \* digits of an address; 40

ASSUME TextAssumption == Base \in Nat \ {0, 1} /\ AddressDigits \in Nat \ {0}

NoHash == "none"
NoAmount == -1

Addresses == 0 .. Base ^ AddressDigits - 1

\* Too many digits are cropped from the left, too few padded with zeros.
HexToAddress(text) == text.value % Base ^ AddressDigits

AddressString(a) ==
  [prefix |-> TRUE, length |-> AddressDigits, hex |-> TRUE, value |-> a,
   spelling |-> "checksum"]

ToLower(text) == [text EXCEPT !.spelling = "lower"]

\* Mutant: the texts are compared as they are.
SameSpelling(s, t) == s = t

SameText(s, t) == ToLower(s) = ToLower(t)

\* Mutant: a log that does not unpack is compared all the same.
UnpackErrorIgnored(log) == log.topics # 0

\* UnpackLog reads the data, if there are any, and then all topics but the first.
Unpacks(log) == log.data # "short" /\ log.topics = 3
UnpackPanics(log) == log.data # "short" /\ log.topics = 0

\* With empty data the amount stays nil, which no text of an amount equals.
Matches(log, destination, amount) ==
  /\ Unpacks(log)
  /\ SameText(AddressString(log.to), destination)
  /\ log.data = "word" /\ log.value = amount

\* The first log that is removed, panics or matches decides.
LogsVerdict(logs, destination, amount) ==
  LET Decides(log) ==
        log.removed \/ UnpackPanics(log) \/ Matches(log, destination, amount)
      first == SelectInSeq(logs, Decides)
  IN IF first = 0 \/ logs[first].removed THEN "unsuccessful"
     ELSE IF UnpackPanics(logs[first]) THEN "panic" ELSE "successful"

\* The details of the first review with a hash; one record is read into again and
\* again, so an amount of an earlier review stays if this one has none.
WithdrawDetails(data) ==
  LET first == SelectInSeq(data, LAMBDA d : d.hash # NoHash)
      given == {i \in 1 .. first : data[i].amount # NoAmount}
  IN IF first = 0 THEN [hash |-> NoHash, amount |-> NoAmount]
     ELSE [hash |-> data[first].hash,
           amount |-> IF given = {} THEN NoAmount ELSE data[Max(given)].amount]
=============================================================================
