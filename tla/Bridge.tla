------------------------------- MODULE Bridge -------------------------------
(***************************************************************************)
(* The data the parts of the ERC-20 withdraw service share.                *)
(*                                                                         *)
(* A withdraw request is a number (TokenD numbers requests, and pages list *)
(* them in that order).  An instance is one oracle and one verifier, the   *)
(* two goroutines Service.spawn starts for one asset; a worker is one of   *)
(* the two.                                                                *)
(*                                                                         *)
(* A transfer (Tx) is one transaction some oracle built for a request.  Its*)
(* hash says less: contract, receiver, amount and nonce (gas price and     *)
(* limit come from the configuration).  Transfers of two requests that pay *)
(* the same have the same hash once they have the same nonce, and the hash *)
(* is all that the ledger and the verifier ever see.                       *)
(***************************************************************************)
EXTENDS Integers, FiniteSets

CONSTANTS
  Requests,        \* identifiers of withdraw requests, positive naturals
  Oracles,         \* worker identifiers of the oracle goroutines
  Verifiers,       \* worker identifiers of the verifier goroutines
  Instances,       \* identifiers of spawned (oracle, verifier) pairs
  Inst,            \* [Oracles \cup Verifiers -> Instances]
  Asset,           \* [Instances \cup Requests -> assets]
  InitialTasks,    \* [Requests -> SUBSET Tasks], the withdrawal_tasks of the asset
  CreatorDetails,  \* [Requests -> AddressForms], what the creator wrote
  Payment,         \* [Requests -> positive naturals], what the transfer of a
                   \* request says: its contract, receiver and amount
  Faults           \* the kinds of fault a run enables, a subset of FaultKinds

Workers == Oracles \cup Verifiers

taskTryTransfer        == 2048
taskCheckTxSentSuccess == 4096
taskCheckTxConfirmed   == 8192
Tasks == {taskTryTransfer, taskCheckTxSentSuccess, taskCheckTxConfirmed}

\* The address of a request's creator details: JSON that does not parse, an
\* empty address, the text HexToAddress(text).String() gives back up to case,
\* or a text HexToAddress also accepts (no 0x, too short, too long).
AddressForms == {"malformed", "missing", "canonical", "alias"}

\* What may go wrong around the service:
\*   timeout  a review is answered by an error though it was or will be applied
\*   refuse   the ledger refuses a review it could have applied
\*   list     a request for a page fails
\*   rpc      a call to the Ethereum node fails, its effect unknown or late
\*   cancel   the asset leaves the watch list and its instance is cancelled
\*   crash    the process stops and is started again
\*   panic    an answer of the ledger makes the client panic
\*   drop     the node forgets a transaction of its pool
\*   revert   the token contract reverts a transfer
\*   logs     a transfer leaves no Transfer log the verifier recognises
\*   lookalike  it moves nothing, but another log has the shape of its Transfer
\*   anonymous  its receipt has a log without topics, on which UnpackLog panics
\*   reorg    the Ethereum chain switches to another branch
FaultKinds == {"timeout", "refuse", "list", "rpc", "cancel", "crash", "panic",
               "drop", "revert", "logs", "lookalike", "anonymous", "reorg"}

Tx == [req : Requests, nonce : Nat]

Payments  == {Payment[r] : r \in Requests}
Hash      == [pay : Payments, nonce : Nat]
HashOf(t) == [pay |-> Payment[t.req], nonce |-> t.nonce]

\* No transaction is on record.
NoTx == [pay |-> 0, nonce |-> 0]

Reasons == {"Invalid creator details", "Invalid target address",
            "Withdrawn amount too small", "Transfer failed",
            "Invalid ethereum transaction hash", "Transaction failed"}

ASSUME RequestsAssumption == Requests \subseteq Nat \ {0}
ASSUME InstAssumption     == Inst \in [Workers -> Instances]
ASSUME WorkersAssumption  == Oracles \cap Verifiers = {}
ASSUME TasksAssumption    == InitialTasks \in [Requests -> (SUBSET Tasks) \ {{}}]
ASSUME DetailsAssumption  == CreatorDetails \in [Requests -> AddressForms]
ASSUME PaymentAssumption  == Payment \in [Requests -> Nat \ {0}]
=============================================================================
