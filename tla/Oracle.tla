------------------------------- MODULE Oracle -------------------------------
(***************************************************************************)
(* The sender: for each listed request it moves the ledger from task 2048  *)
(* to 4096, sends the ERC-20 transfer, and moves the ledger from 4096 to   *)
(* 8192 with the transaction hash (oracle.sendWithdraw, callTransfer).     *)
(*                                                                         *)
(*   page --FirstReview--> approving1 --> reserved --GetNonce--> send      *)
(*     send --SendTransaction--> sent --SendReturns--> approving2 --> page *)
(*     any failure of the transfer: --> rejecting --> page                 *)
(*                                                                         *)
(* A reply is an error whenever something went wrong, also when the node   *)
(* had already accepted the transaction: the code cannot tell.             *)
(***************************************************************************)
EXTENDS Runner, Ethereum, Amounts

CONSTANTS
  Amount,          \* [Requests -> Nat], as TokenD writes it
  TrailingDigits,  \* [assets -> Nat]
  Decimals         \* [assets -> Nat], of the token contract

VARIABLE nonce     \* [Workers -> the nonce callTransfer got]

OracleInit == nonce = [w \in Workers |-> 0]

OracleStates == {"approving1", "reserved", "send", "sent", "approving2", "rejecting"}

TransferOf(o) == [req |-> cur[o], nonce |-> nonce[o]]

\* eth_tx_hash, what sendWithdraw records.
SentHash(o) == HashOf(TransferOf(o))

TooSmall(r) ==
  IsTooSmall(TrailingDigits[Asset[r]], Decimals[Asset[r]], Amount[r])
-----------------------------------------------------------------------------
OracleFetch(o) ==
  /\ Fetch(o, Filter(o, {taskTryTransfer}, {taskCheckTxSentSuccess}))
  /\ UNCHANGED <<ledgerVars, ethVars, nonce>>

\* Creator details whose JSON does not parse, or that name no address.
RejectDetails(o, r) ==
  /\ \/ /\ CreatorDetails[r] = "malformed"
        /\ Submit(o, PermanentReject(r, "Invalid creator details"))
     \/ /\ CreatorDetails[r] = "missing"
        /\ Submit(o, PermanentReject(r, "Invalid target address"))
  /\ StartItem(o, r, "rejecting")
  /\ UNCHANGED <<ethVars, nonce>>

\* Mutant: the first review leaves the request open to every other reader.
FirstReviewKeepsTask(o, r) ==
  /\ CreatorDetails[r] \notin {"malformed", "missing"}
  /\ StartItem(o, r, "approving1")
  /\ Submit(o, Approve(r, {taskCheckTxSentSuccess}, {}, NoTx))
  /\ UNCHANGED <<ethVars, nonce>>

\* Mutant: the first review forgets to reserve the request for the second.
FirstReviewAddsNone(o, r) ==
  /\ CreatorDetails[r] \notin {"malformed", "missing"}
  /\ StartItem(o, r, "approving1")
  /\ Submit(o, Approve(r, {}, {taskTryTransfer}, NoTx))
  /\ UNCHANGED <<ethVars, nonce>>

FirstReview(o, r) ==
  /\ CreatorDetails[r] \notin {"malformed", "missing"}
  /\ StartItem(o, r, "approving1")
  /\ Submit(o, Approve(r, {taskCheckTxSentSuccess}, {taskTryTransfer}, NoTx))
  /\ UNCHANGED <<ethVars, nonce>>

\* Mutant: the error of the first review is logged and the transfer made.
FirstErrorIgnored(o) ==
  /\ pc[o] = "approving1"
  /\ Succeeded(o) \/ Failed(o)
  /\ Goto(o, "reserved")
  /\ UNCHANGED <<ethVars, nonce>>

FirstReviewReply(o) ==
  /\ pc[o] = "approving1"
  /\ \/ Succeeded(o) /\ Goto(o, "reserved")
     \/ Failed(o) /\ EndItem(o)
  /\ UNCHANGED <<ethVars, nonce>>

RejectTooSmall(o) ==
  /\ pc[o] = "reserved"
  /\ TooSmall(cur[o])
  /\ Goto(o, "rejecting")
  /\ Submit(o, PermanentReject(cur[o], "Withdrawn amount too small"))
  /\ UNCHANGED <<ethVars, nonce>>

\* PendingNonceAt, under a context of its own.
GetNonce(o) ==
  /\ pc[o] = "reserved"
  /\ ~TooSmall(cur[o])
  /\ \E n \in 0 .. Cardinality(txs) : IsPendingNonce(n) /\ nonce' = [nonce EXCEPT ![o] = n]
  /\ Goto(o, "send")
  /\ UNCHANGED <<ledgerVars, ethVars>>

\* The node takes the signed transaction; its answer is still under way.
SendTransaction(o) ==
  /\ pc[o] = "send"
  /\ NodeAccepts(TransferOf(o))
  /\ Goto(o, "sent")
  /\ UNCHANGED <<ledgerVars, late, nonce>>

\* callTransfer returned an error: sendWithdraw rejects for good.
RejectTransferFailed(o) ==
  /\ Goto(o, "rejecting")
  /\ Submit(o, PermanentReject(cur[o], "Transfer failed"))
  /\ nonce' = [nonce EXCEPT ![o] = 0]

\* Mutant: the error is returned like that of a review, without a rejection.
NonceErrorReturned(o) ==
  /\ pc[o] = "reserved"
  /\ ~TooSmall(cur[o])
  /\ "rpc" \in Faults
  /\ EndItem(o)
  /\ UNCHANGED <<ledgerVars, ethVars, nonce>>

NonceFails(o) ==
  /\ pc[o] = "reserved"
  /\ ~TooSmall(cur[o])
  /\ "rpc" \in Faults
  /\ RejectTransferFailed(o)
  /\ UNCHANGED ethVars

\* The call ends before the node has the transaction: a broken connection, a
\* cancelled context.  What was written to the connection may still arrive.
SendFails(o) ==
  /\ pc[o] = "send"
  /\ "rpc" \in Faults \/ Cancelled(o)
  /\ RejectTransferFailed(o)
  /\ late' = late \cup {TransferOf(o)}
  /\ UNCHANGED <<txs, pool, mined, head, reorgs>>

\* Mutant: a transaction the node refused is recorded as sent.
RefusalRecorded(o) ==
  /\ pc[o] = "send"
  /\ nonce[o] \in UsedNonces
  /\ Goto(o, "approving2")
  /\ Submit(o, Approve(cur[o], {taskCheckTxConfirmed}, {taskCheckTxSentSuccess}, SentHash(o)))
  /\ nonce' = [nonce EXCEPT ![o] = 0]
  /\ UNCHANGED ethVars

\* The nonce was taken since it was read.
NodeRefuses(o) ==
  /\ pc[o] = "send"
  /\ nonce[o] \in UsedNonces
  /\ RejectTransferFailed(o)
  /\ UNCHANGED ethVars

\* The node has the transaction, but its answer does not arrive, or the
\* context is cancelled first.
SendReplyLost(o) ==
  /\ pc[o] = "sent"
  /\ "rpc" \in Faults \/ Cancelled(o)
  /\ RejectTransferFailed(o)
  /\ UNCHANGED ethVars

\* Mutant: the second review sets the task after the verifier's.
WrongTaskAdded(o) ==
  /\ pc[o] = "sent"
  /\ Goto(o, "approving2")
  /\ Submit(o, Approve(cur[o], {2 * taskCheckTxConfirmed}, {taskCheckTxSentSuccess}, SentHash(o)))
  /\ nonce' = [nonce EXCEPT ![o] = 0]
  /\ UNCHANGED ethVars

SendReturns(o) ==
  /\ pc[o] = "sent"
  /\ Goto(o, "approving2")
  /\ Submit(o, Approve(cur[o], {taskCheckTxConfirmed}, {taskCheckTxSentSuccess}, SentHash(o)))
  /\ nonce' = [nonce EXCEPT ![o] = 0]
  /\ UNCHANGED ethVars

\* The second approval, or a rejection: its error is only logged.
LastReviewReply(o) ==
  /\ pc[o] \in {"approving2", "rejecting"}
  /\ Succeeded(o) \/ Failed(o)
  /\ EndItem(o)
  /\ UNCHANGED <<ethVars, nonce>>

OraclePanics(o) ==
  /\ ReplyPanics(o)
  /\ AbandonPage(o)
  /\ UNCHANGED <<ethVars, nonce>>

OracleLoop(o) ==
  /\ FetchFails(o) \/ NilPagePanics(o) \/ Stop(o)
  /\ UNCHANGED <<ledgerVars, ethVars, nonce>>

OracleNext(o) ==
  \/ OracleFetch(o)
  \/ \E r \in todo[o] : RejectDetails(o, r) \/ FirstReview(o, r)
  \/ FirstReviewReply(o)
  \/ RejectTooSmall(o)
  \/ GetNonce(o)
  \/ SendTransaction(o)
  \/ NonceFails(o)
  \/ SendFails(o)
  \/ NodeRefuses(o)
  \/ SendReplyLost(o)
  \/ SendReturns(o)
  \/ LastReviewReply(o)
  \/ OraclePanics(o)
  \/ OracleLoop(o)
=============================================================================
