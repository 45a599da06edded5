------------------------------ MODULE Verifier ------------------------------
(***************************************************************************)
(* The confirmer: for each request with task 8192 it reads the receipt of  *)
(* the recorded transaction and, when the transfer shows in its logs and   *)
(* enough blocks follow, removes the task, which approves the request      *)
(* (verifier.confirmWithdrawSuccessful).                                   *)
(*                                                                         *)
(* The receipt and the height are read by two calls: the chain may change  *)
(* between them.  The external details come from the page; the first       *)
(* transaction recorded for a request never changes, so reading them from  *)
(* the ledger at the time of the step is the same.                         *)
(***************************************************************************)
EXTENDS Runner, Ethereum

VARIABLE block    \* [Workers -> the block of the receipt being confirmed]

VerifierInit == block = [w \in Workers |-> 0]

VerifierStates == {"confirming", "approving", "rejecting"}
-----------------------------------------------------------------------------
\* The verifier's two reviews.
Approves(v)           == Submit(v, Approve(cur[v], {}, {taskCheckTxConfirmed}, NoTx))
Rejects(v, r, reason) == Submit(v, PermanentReject(r, reason))

\* Mutant: the verifier lists what the oracle is still sending.
ListsReserved(v) ==
  /\ Fetch(v, Filter(v, {taskCheckTxSentSuccess}, {taskTryTransfer}))
  /\ UNCHANGED <<ledgerVars, ethVars, block>>

VerifierFetch(v) ==
  /\ Fetch(v, Filter(v, {taskCheckTxConfirmed},
                        {taskTryTransfer, taskCheckTxSentSuccess}))
  /\ UNCHANGED <<ledgerVars, ethVars, block>>

\* Mutant: any successful receipt will do.
StatusIsEnough(m, r) == m.outcome \in {"moved", "unmatched", "lookalike"}

\* LogsSuccessful looks for a log with the shape of the Transfer to the address
\* the creator wrote, compared as text.
LogsSuccessful(m, r) ==
  m.outcome \in {"moved", "lookalike"} /\ CreatorDetails[r] = "canonical"

RejectNoHash(v, r) ==
  /\ requests[r].ext = NoTx
  /\ StartItem(v, r, "rejecting")
  /\ Rejects(v, r, "Invalid ethereum transaction hash")
  /\ UNCHANGED <<ethVars, block>>

\* No receipt yet, or none of the expected logs: tried again on a later page.
\* A call that fails ends the same way.
LeaveForLater(v, r) ==
  /\ requests[r].ext # NoTx
  /\ \/ ReceiptsOf(requests[r].ext) = {}
     \/ "rpc" \in Faults \/ Cancelled(v)
     \/ \E m \in ReceiptsOf(requests[r].ext) :
          m.outcome \notin {"failed", "anonymous"} /\ ~LogsSuccessful(m, r)
  /\ SkipItem(v, r)
  /\ UNCHANGED <<ledgerVars, ethVars, block>>

\* Mutant: a receipt without the expected log is rejected too.
RejectUnmatched(v, r) ==
  /\ \E m \in ReceiptsOf(requests[r].ext) : m.outcome # "moved"
  /\ StartItem(v, r, "rejecting")
  /\ Rejects(v, r, "Transaction failed")
  /\ UNCHANGED <<ethVars, block>>

\* Mutant: a failed receipt is an error of this tick, like a missing log.
FailedIsLeft(v, r) ==
  /\ \E m \in ReceiptsOf(requests[r].ext) : m.outcome = "failed"
  /\ SkipItem(v, r)
  /\ UNCHANGED <<ledgerVars, ethVars, block>>

\* A receipt with status failed is rejected at once, whatever follows it.
RejectFailedTx(v, r) ==
  /\ \E m \in ReceiptsOf(requests[r].ext) : m.outcome = "failed"
  /\ StartItem(v, r, "rejecting")
  /\ Rejects(v, r, "Transaction failed")
  /\ UNCHANGED <<ethVars, block>>

\* UnpackLog slices the topics of a log that has none.
LogPanics(v, r) ==
  /\ First(v, r)
  /\ \E m \in ReceiptsOf(requests[r].ext) : m.outcome = "anonymous"
  /\ AbandonPage(v)
  /\ UNCHANGED <<ledgerVars, ethVars, block>>

\* Mutant: the block of the receipt counts as its first confirmation.
OwnBlockCounts(v, r) ==
  /\ \E m \in ReceiptsOf(requests[r].ext) :
       /\ LogsSuccessful(m, r)
       /\ block' = [block EXCEPT ![v] = m.block - 1]
  /\ StartItem(v, r, "confirming")
  /\ UNCHANGED <<ledgerVars, ethVars>>

ReceiptFound(v, r) ==
  /\ \E m \in ReceiptsOf(requests[r].ext) :
       /\ LogsSuccessful(m, r)
       /\ block' = [block EXCEPT ![v] = m.block]
  /\ StartItem(v, r, "confirming")
  /\ UNCHANGED <<ledgerVars, ethVars>>

NotConfirmed(v) ==
  /\ pc[v] = "confirming"
  /\ ~EnoughConfirmations(block[v]) \/ "rpc" \in Faults \/ Cancelled(v)
  /\ EndItem(v)
  /\ block' = [block EXCEPT ![v] = 0]
  /\ UNCHANGED <<ledgerVars, ethVars>>

\* Mutant: the last review removes a task that is no longer set.
ConfirmsWrongTask(v) ==
  /\ pc[v] = "confirming"
  /\ EnoughConfirmations(block[v])
  /\ Goto(v, "approving")
  /\ Submit(v, Approve(cur[v], {}, {taskCheckTxSentSuccess}, NoTx))
  /\ block' = [block EXCEPT ![v] = 0]
  /\ UNCHANGED ethVars

Confirmed(v) ==
  /\ pc[v] = "confirming"
  /\ EnoughConfirmations(block[v])
  /\ Goto(v, "approving")
  /\ Approves(v)
  /\ block' = [block EXCEPT ![v] = 0]
  /\ UNCHANGED ethVars

ReviewReply(v) ==
  /\ pc[v] \in {"approving", "rejecting"}
  /\ Succeeded(v) \/ Failed(v)
  /\ EndItem(v)
  /\ UNCHANGED <<ethVars, block>>

VerifierPanics(v) ==
  /\ ReplyPanics(v)
  /\ AbandonPage(v)
  /\ UNCHANGED <<ethVars, block>>

VerifierLoop(v) ==
  /\ FetchFails(v) \/ NilPagePanics(v) \/ Stop(v)
  /\ UNCHANGED <<ledgerVars, ethVars, block>>

VerifierItem(v, r) ==
  \/ RejectNoHash(v, r)
  \/ LeaveForLater(v, r)
  \/ RejectFailedTx(v, r)
  \/ LogPanics(v, r)
  \/ ReceiptFound(v, r)

VerifierNext(v) ==
  \/ VerifierFetch(v)
  \/ \E r \in todo[v] : VerifierItem(v, r)
  \/ NotConfirmed(v)
  \/ Confirmed(v)
  \/ ReviewReply(v)
  \/ VerifierPanics(v)
  \/ VerifierLoop(v)
=============================================================================
