----------------------------- MODULE PaymentProofs -----------------------------
(***************************************************************************)
(* An approved withdrawal was paid, as long as the chain does not switch   *)
(* branch and no other log passes for a Transfer: proofs for every set of  *)
(* requests, workers, instances and other faults, and every number of      *)
(* confirmations.                                                          *)
(*                                                                         *)
(* Only the verifier's review can empty the task mask, and it travels late *)
(* and twice like any other; so whatever review under way could approve a  *)
(* request must be about one whose payment already is in the chain.        *)
(***************************************************************************)
EXTENDS RecordProofs

\* A transaction of the recorded hash moved the tokens and has its confirmations.
PaidRequests ==
  {r \in Requests : \E m \in ReceiptsOf(requests[r].ext) :
                      m.outcome = "moved" /\ EnoughConfirmations(m.block)}

ApprovedPaid == \A r \in Requests : requests[r].state = "approved" => r \in PaidRequests

Truthful == {e \in Envelope : e.kind = "reject" \/ e.add # {} \/ e.req \in PaidRequests}

EnvelopesTruthful ==
  /\ \A w \in Workers : reply[w] # "none" => call[w] \in Truthful
  /\ delayed \subseteq Truthful

\* A verifier between its two reads of the node has found the receipt.
HoldsReceipt(v) ==
  \E m \in ReceiptsOf(requests[cur[v]].ext) : m.outcome = "moved" /\ m.block = block[v]

ReceiptsHeld == \A v \in Verifiers : pc[v] = "confirming" => HoldsReceipt(v)

OutcomesPossible == \A m \in mined : m.outcome \in PossibleOutcomes

PaymentInv == ApprovedPaid /\ EnvelopesTruthful /\ ReceiptsHeld /\ OutcomesPossible

\* The chain keeps its branch, and its logs are what they look like.
Plain == MaxReorgs = 0 /\ "lookalike" \notin Faults
-----------------------------------------------------------------------------
(* What is paid stays paid. *)

LEMMA ReviewedKeepsExt ==
  ASSUME NEW q \in RequestRecord, NEW e, q.ext # NoTx
  PROVE  Reviewed(q, e).ext = q.ext
<1>1. CASE e.kind = "reject"
  BY <1>1 DEF Reviewed, RequestRecord
<1>2. CASE e.kind # "reject"
  <2> DEFINE left == (q.tasks \ e.remove) \cup e.add
             state == IF left = {} THEN "approved" ELSE "pending"
             ext == IF q.ext = NoTx THEN e.ext ELSE q.ext
  <2>1. Reviewed(q, e) = [q EXCEPT !.tasks = left, !.state = state, !.ext = ext]
    BY <1>2 DEF Reviewed
  <2> HIDE DEF left, state
  <2>2. QED
    BY <2>1 DEF RequestRecord
<1>3. QED
  BY <1>1, <1>2

LEMMA ReviewedRecords ==
  ASSUME NEW q \in RequestRecord, NEW e, e.kind # "reject", q.ext = NoTx
  PROVE  Reviewed(q, e).ext = e.ext
<1> DEFINE left == (q.tasks \ e.remove) \cup e.add
           state == IF left = {} THEN "approved" ELSE "pending"
<1>1. Reviewed(q, e) = [q EXCEPT !.tasks = left, !.state = state, !.ext = e.ext]
  BY DEF Reviewed
<1> HIDE DEF left, state
<1>2. QED
  BY <1>1 DEF RequestRecord

\* Only a review that adds no task can approve.
LEMMA ReviewedApproves ==
  ASSUME NEW q \in RequestRecord, NEW e, Reviewed(q, e).state = "approved"
  PROVE  e.kind # "reject" /\ e.add = {}
<1>1. e.kind # "reject"
  BY ReviewedFields
<1> DEFINE left == (q.tasks \ e.remove) \cup e.add
           state == IF left = {} THEN "approved" ELSE "pending"
           ext == IF q.ext = NoTx THEN e.ext ELSE q.ext
<1>2. Reviewed(q, e) = [q EXCEPT !.tasks = left, !.state = state, !.ext = ext]
  BY <1>1 DEF Reviewed
<1>3. Reviewed(q, e).state = state
  <2> HIDE DEF left, state, ext
  <2>1. QED
    BY <1>2 DEF RequestRecord
<1>4. left = {}
  BY <1>3
<1>5. QED
  BY <1>1, <1>4

\* The ledger never changes a transaction it has recorded.
LEMMA ExtStays ==
  ASSUME TypeInv, [Next]_vars
  PROVE  \A r \in Requests : requests[r].ext # NoTx => requests'[r].ext = requests[r].ext
<1> DEFINE Kept == \A r \in Requests :
                     requests[r].ext # NoTx => requests'[r].ext = requests[r].ext
<1>1. requests \in [Requests -> RequestRecord]
  BY DEF TypeInv, LedgerOK, LedgerTypeOK
<1>2. CASE requests' = requests
  BY <1>2
<1>3. ASSUME NEW e \in Envelope, requests' = [requests EXCEPT ![e.req] = Reviewed(@, e)]
      PROVE  Kept
  BY <1>1, <1>3, ReviewedKeepsExt
<1>4. ASSUME NEW r \in Requests, CreateRequest(r) PROVE Kept
  BY <1>1, <1>4 DEF CreateRequest, RequestRecord
<1>5. ASSUME LedgerNext PROVE Kept
  BY <1>2, <1>3, <1>4, <1>5
  DEF LedgerNext, LedgerApply, LedgerRefuse, LateApply, TypeInv, LedgerOK, LedgerTypeOK,
      CallsOK
<1>6. QED
  BY <1>2, <1>5, OracleIsLocal, VerifierIsLocal
  DEF Next, Work, LocalStep, Spawn, Start, Cancel, Crash, vars, ledgerVars

\* Without a switch of branch the chain only grows.
LEMMA ChainGrows ==
  ASSUME TypeInv, MaxReorgs = 0, [Next]_vars
  PROVE  /\ mined \subseteq mined'
         /\ head' \in Int /\ head' >= head
<1>1. head \in Nat /\ reorgs \in Nat
  BY DEF TypeInv, EthTypeOK
<1>2. ASSUME EthNext PROVE mined \subseteq mined' /\ head' \in Int /\ head' >= head
  BY <1>1, <1>2 DEF EthNext, ChainNext, MineTransfer, MineOther, Drop, Reorg,
     LateAccept, NodeAccepts
<1>3. ASSUME NEW o \in Oracles, OracleNext(o) PROVE mined' = mined /\ head' = head
  BY <1>3 DEF OracleNext, OracleFetch, RejectDetails, FirstReview, FirstReviewReply,
     RejectTooSmall, GetNonce, SendTransaction, NodeAccepts, NonceFails, SendFails,
     NodeRefuses, SendReplyLost, RejectTransferFailed, SendReturns, LastReviewReply,
     OraclePanics, OracleLoop, ethVars
<1>4. ASSUME NEW v \in Verifiers, VerifierNext(v) PROVE mined' = mined /\ head' = head
  BY <1>4 DEF VerifierNext, VerifierItem, VerifierFetch, RejectNoHash, LeaveForLater,
     RejectFailedTx, LogPanics, ReceiptFound, NotConfirmed, Confirmed, ReviewReply,
     VerifierPanics, VerifierLoop, ethVars
<1>5. QED
  BY <1>1, <1>2, <1>3, <1>4 DEF Next, Work, Spawn, Start, Cancel, Crash, vars, ethVars

\* What is in the chain has the hash of a transaction.
LEMMA MinedAreSent ==
  ASSUME TypeInv
  PROVE  \A m \in mined : m.block \in Nat /\ HashOf(m.tx) # NoTx
<1>1. mined \subseteq Receipt
  BY DEF TypeInv, EthTypeOK
<1>2. \A t \in Tx : HashOf(t) # NoTx
  BY PaymentAssumption DEF Tx, HashOf, NoTx
<1>3. QED
  BY <1>1, <1>2 DEF Receipt

LEMMA PaidStays ==
  ASSUME TypeInv, MaxReorgs = 0, [Next]_vars
  PROVE  PaidRequests \subseteq PaidRequests' /\ Truthful \subseteq Truthful'
<1>1. head \in Nat /\ Confirmations \in Nat
  BY ConfirmationsAssumption DEF TypeInv, EthTypeOK
<1>2. PaidRequests \subseteq PaidRequests'
  BY <1>1, ExtStays, ChainGrows, MinedAreSent
  DEF PaidRequests, ReceiptsOf, EnoughConfirmations
<1>3. QED
  BY <1>2 DEF Truthful
-----------------------------------------------------------------------------
(* The ledger approves what is paid. *)

LEMMA AppliedIsPaid ==
  ASSUME TypeInv, PaymentInv, PaidRequests \subseteq PaidRequests',
         NEW e \in Truthful, requests' = [requests EXCEPT ![e.req] = Reviewed(@, e)]
  PROVE  ApprovedPaid'
<1>1. requests \in [Requests -> RequestRecord] /\ e \in Envelope /\ e.req \in Requests
  BY DEF TypeInv, LedgerOK, LedgerTypeOK, Truthful, Envelope
<1>2. \A r \in Requests : requests[r].state = "approved" => r \in PaidRequests
  BY DEF PaymentInv, ApprovedPaid
<1>3. \A r \in Requests : requests'[r].state = "approved" => r \in PaidRequests'
  <2> SUFFICES ASSUME NEW r \in Requests, requests'[r].state = "approved"
               PROVE  r \in PaidRequests'
    OBVIOUS
  <2>1. CASE r # e.req
    BY <1>1, <1>2, <2>1
  <2>2. CASE r = e.req
    <3>1. Reviewed(requests[r], e).state = "approved"
      BY <1>1, <2>2
    <3>2. e.kind # "reject" /\ e.add = {}
      BY <1>1, <3>1, ReviewedApproves
    <3>3. QED
      BY <2>2, <3>2 DEF Truthful
  <2>3. QED
    BY <2>1, <2>2
<1>4. QED
  BY <1>3 DEF ApprovedPaid

\* Whatever leaves the ledger's records alone keeps the approved ones paid.
LEMMA UnreviewedIsPaid ==
  ASSUME PaymentInv, PaidRequests \subseteq PaidRequests', requests' = requests
  PROVE  ApprovedPaid'
<1>1. \A r \in Requests : requests'[r].state = "approved" => r \in PaidRequests'
  BY DEF PaymentInv, ApprovedPaid
<1>2. QED
  BY <1>1 DEF ApprovedPaid

LEMMA LedgerNextPayment ==
  ASSUME TypeInv, PaymentInv, LedgerNext, PaidRequests \subseteq PaidRequests',
         Truthful \subseteq Truthful'
  PROVE  ApprovedPaid' /\ EnvelopesTruthful'
<1>1. /\ requests \in [Requests -> RequestRecord]
      /\ reply \in [Workers -> {"none", "sent", "applied", "refused"}]
  BY DEF TypeInv, LedgerOK, LedgerTypeOK
<1>2. EnvelopesTruthful'
  <2>1. /\ call' = call /\ delayed' \subseteq delayed
        /\ \A u \in Workers : reply'[u] # "none" => reply[u] # "none"
    BY <1>1 DEF LedgerNext, CreateRequest, LedgerApply, LedgerRefuse, LateApply
  <2>2. QED
    BY <2>1 DEF PaymentInv, EnvelopesTruthful
<1>3. ASSUME NEW r \in Requests, CreateRequest(r) PROVE ApprovedPaid'
  <2>1. \A q \in Requests : requests'[q].state = "approved" => q \in PaidRequests'
    <3>1. \A q \in Requests : requests'[q].state = "approved" => requests[q].state = "approved"
      BY <1>1, <1>3 DEF CreateRequest, RequestRecord
    <3>2. QED
      BY <3>1 DEF PaymentInv, ApprovedPaid
  <2>2. QED
    BY <2>1 DEF ApprovedPaid
<1>4. ASSUME NEW w \in Workers, LedgerApply(w) PROVE ApprovedPaid'
  <2>1. call[w] \in Truthful
    BY <1>4 DEF LedgerApply, PaymentInv, EnvelopesTruthful
  <2>2. QED
    BY <1>4, <2>1, AppliedIsPaid DEF LedgerApply
<1>5. ASSUME NEW w \in Workers, LedgerRefuse(w) PROVE ApprovedPaid'
  BY <1>5, UnreviewedIsPaid DEF LedgerRefuse
<1>6. ASSUME NEW e \in delayed, LateApply(e) PROVE ApprovedPaid'
  <2>1. e \in Truthful
    BY DEF PaymentInv, EnvelopesTruthful
  <2>2. QED
    BY <1>6, <2>1, AppliedIsPaid DEF LateApply
<1>7. QED
  BY <1>2, <1>3, <1>4, <1>5, <1>6 DEF LedgerNext
-----------------------------------------------------------------------------
(* The workers. *)

TruthfulStep(w) ==
  UNCHANGED ledgerVars \/ Forget(w) \/ \E e \in Truthful' : Submit(w, e)

LEMMA TruthfulStepKeeps ==
  ASSUME TypeInv, PaymentInv, Truthful \subseteq Truthful', NEW w \in Workers,
         TruthfulStep(w)
  PROVE  EnvelopesTruthful'
<1>1. /\ \A u \in Workers : reply[u] # "none" => call[u] \in Truthful
      /\ delayed \subseteq Truthful
  BY DEF PaymentInv, EnvelopesTruthful
<1>2. /\ \A u \in Workers : reply'[u] # "none" => call'[u] \in Truthful'
      /\ delayed' \subseteq Truthful'
  BY <1>1, EnvelopesStay DEF TruthfulStep
<1>3. QED
  BY <1>2 DEF EnvelopesTruthful

LEMMA TruthfulRejection ==
  ASSUME NEW w \in Workers, NEW r \in Requests, NEW reason \in Reasons,
         Submit(w, PermanentReject(r, reason))
  PROVE  TruthfulStep(w)
<1> DEFINE e == PermanentReject(r, reason)
<1>1. e \in Envelope /\ e.kind = "reject"
  BY RejectType DEF PermanentReject
<1> HIDE DEF e
<1>2. e \in Truthful'
  BY <1>1 DEF Truthful
<1>3. QED
  BY <1>2 DEF TruthfulStep, e

LEMMA TruthfulApproval ==
  ASSUME NEW w \in Workers, NEW r \in Requests, NEW add \in SUBSET Tasks,
         NEW remove \in SUBSET Tasks, NEW ext \in Hash \cup {NoTx},
         Submit(w, Approve(r, add, remove, ext)), add # {} \/ r \in PaidRequests'
  PROVE  TruthfulStep(w)
<1> DEFINE e == Approve(r, add, remove, ext)
<1>1. e \in Envelope /\ e.req = r /\ e.add = add
  BY ApproveType, ApproveFields
<1> HIDE DEF e
<1>2. e \in Truthful'
  BY <1>1 DEF Truthful
<1>3. QED
  BY <1>2 DEF TruthfulStep, e

\* The oracle's two reviews add a task each.
LEMMA OracleTruthful ==
  ASSUME TypeInv, RecordInv, NEW o \in Oracles, OracleNext(o)
  PROVE  TruthfulStep(o)
<1> o \in Workers
  BY WorkersAre
<1>1. /\ todo[o] \subseteq Requests
      /\ pc[o] \notin LoopStates => cur[o] \in Requests
  BY DEF TypeInv, RunnerOK, RunnerTypeOK, ItemsOK
<1>2. ASSUME NEW r \in todo[o], RejectDetails(o, r) PROVE TruthfulStep(o)
  <2>1. \E reason \in Reasons : Submit(o, PermanentReject(r, reason))
    BY <1>2 DEF RejectDetails, Reasons
  <2>2. QED
    BY <1>1, <2>1, TruthfulRejection
<1>3. ASSUME NEW r \in todo[o], FirstReview(o, r) PROVE TruthfulStep(o)
  BY <1>1, <1>3, TruthfulApproval DEF FirstReview, Tasks
<1>4. ASSUME RejectTooSmall(o) \/ NonceFails(o) \/ SendFails(o) \/ NodeRefuses(o)
             \/ SendReplyLost(o)
      PROVE  TruthfulStep(o)
  <2>1. pc[o] \in {"reserved", "send", "sent"}
    BY <1>4 DEF RejectTooSmall, NonceFails, SendFails, NodeRefuses, SendReplyLost
  <2>2. \E reason \in Reasons : Submit(o, PermanentReject(cur[o], reason))
    BY <1>4 DEF RejectTooSmall, NonceFails, SendFails, NodeRefuses, SendReplyLost,
       RejectTransferFailed, Reasons
  <2>3. QED
    BY <1>1, <2>1, <2>2, TruthfulRejection DEF LoopStates
<1>5. ASSUME SendReturns(o) PROVE TruthfulStep(o)
  <2>1. cur[o] \in Requests
    BY <1>1, <1>5 DEF SendReturns, LoopStates
  <2>2. SentHash(o) \in Hash
    BY <1>5, HashType DEF SendReturns, SentHash, RecordInv, SentIsTransfer, TypeInv, EthTypeOK
  <2>3. QED
    BY <1>5, <2>1, <2>2, TruthfulApproval DEF SendReturns, Tasks
<1>6. QED
  BY <1>2, <1>3, <1>4, <1>5, RepliesForget
  DEF OracleNext, OracleFetch, FirstReviewReply, GetNonce, SendTransaction,
      LastReviewReply, OraclePanics, OracleLoop, TruthfulStep

\* The verifier's review comes after its second read of the node.
LEMMA VerifierTruthful ==
  ASSUME TypeInv, RecordInv, PaymentInv, PaidRequests \subseteq PaidRequests',
         NEW v \in Verifiers, VerifierNext(v)
  PROVE  TruthfulStep(v)
<1> v \in Workers
  BY WorkersAre
<1>1. todo[v] \subseteq Requests
  BY DEF TypeInv, RunnerOK, RunnerTypeOK
<1>2. ASSUME NEW r \in todo[v], RejectNoHash(v, r) \/ RejectFailedTx(v, r)
      PROVE  TruthfulStep(v)
  <2>1. \E reason \in Reasons : Submit(v, PermanentReject(r, reason))
    BY <1>2 DEF RejectNoHash, RejectFailedTx, Rejects, Reasons
  <2>2. QED
    BY <1>1, <2>1, TruthfulRejection
<1>3. ASSUME Confirmed(v) PROVE TruthfulStep(v)
  <2>1. PICK r \in Requests : r = cur[v]
    BY <1>3 DEF Confirmed, TypeInv, RunnerOK, ItemsOK, LoopStates
  <2>2. r \in PaidRequests
    BY <1>3, <2>1 DEF Confirmed, PaymentInv, ReceiptsHeld, HoldsReceipt, PaidRequests
  <2>3. QED
    BY <1>3, <2>1, <2>2, TruthfulApproval DEF Confirmed, Approves, Tasks
<1>4. QED
  BY <1>2, <1>3, RepliesForget
  DEF VerifierNext, VerifierItem, VerifierFetch, LeaveForLater, LogPanics, ReceiptFound,
      NotConfirmed, ReviewReply, VerifierPanics, VerifierLoop, TruthfulStep

LEMMA ReceiptStays ==
  ASSUME TypeInv, PaymentInv, MaxReorgs = 0, [Next]_vars, NEW v \in Verifiers,
         pc[v] = "confirming", cur'[v] = cur[v], block'[v] = block[v]
  PROVE  HoldsReceipt(v)'
<1>1. PICK r \in Requests : r = cur[v]
  BY WorkersAre DEF TypeInv, RunnerOK, ItemsOK, LoopStates
<1>2. PICK m \in ReceiptsOf(requests[r].ext) : m.outcome = "moved" /\ m.block = block[v]
  BY <1>1 DEF PaymentInv, ReceiptsHeld, HoldsReceipt
<1>3. requests'[r].ext = requests[r].ext /\ m \in mined'
  BY <1>2, ExtStays, ChainGrows, MinedAreSent DEF ReceiptsOf
<1>4. QED
  BY <1>1, <1>2, <1>3 DEF HoldsReceipt, ReceiptsOf

\* A verifier reads its receipt before it waits for the height, of the same request.
LEMMA VerifierReceipt ==
  ASSUME TypeInv, PaymentInv, Plain, [Next]_vars, NEW v \in Verifiers,
         VerifierNext(v), pc'[v] = "confirming"
  PROVE  HoldsReceipt(v)'
<1> v \in Workers
  BY WorkersAre
<1>1. /\ pc \in [Workers -> States] /\ cur \in [Workers -> Requests \cup {0}]
      /\ block \in [Workers -> Nat]
  BY DEF TypeInv, RunnerOK, RunnerTypeOK, States
<1>2. ASSUME NEW r \in todo[v], ReceiptFound(v, r) PROVE HoldsReceipt(v)'
  <2>1. PICK m \in ReceiptsOf(requests[r].ext) :
          LogsSuccessful(m, r) /\ block' = [block EXCEPT ![v] = m.block]
    BY <1>2 DEF ReceiptFound
  <2>2. /\ cur'[v] = r /\ requests' = requests /\ mined' = mined
        /\ block'[v] = m.block
    BY <1>1, <1>2, <2>1 DEF ReceiptFound, StartItem, ledgerVars, ethVars
  <2>3. m.outcome = "moved"
    BY <2>1 DEF LogsSuccessful, ReceiptsOf, PaymentInv, OutcomesPossible, PossibleOutcomes,
       Plain
  <2>4. QED
    BY <2>1, <2>2, <2>3 DEF HoldsReceipt, ReceiptsOf
<1>3. CASE \A r \in todo[v] : ~ReceiptFound(v, r)
  <2>1. pc'[v] # "confirming"
    BY <1>1, <1>3, AfterItemType DEF VerifierNext, VerifierItem, VerifierFetch, Fetch,
       FetchShortPage, FetchFullPage, RejectNoHash, LeaveForLater, RejectFailedTx,
       LogPanics, StartItem, SkipItem, NotConfirmed, Confirmed, Goto, ReviewReply, EndItem,
       VerifierPanics, AbandonPage, VerifierLoop, FetchFails, NilPagePanics, Stop,
       runnerVars, LoopStates
  <2>2. QED
    BY <2>1
<1>4. QED
  BY <1>2, <1>3

LEMMA BlockIsLocal ==
  ASSUME TypeInv, NEW v \in Verifiers, VerifierNext(v)
  PROVE  \A u \in Workers \ {v} : block'[u] = block[u]
<1>1. block \in [Workers -> Nat]
  BY DEF TypeInv
<1>2. QED
  BY <1>1 DEF VerifierNext, VerifierItem, VerifierFetch, RejectNoHash, LeaveForLater,
     RejectFailedTx, LogPanics, ReceiptFound, NotConfirmed, Confirmed, ReviewReply,
     VerifierPanics, VerifierLoop

LEMMA ReceiptsStay ==
  ASSUME TypeInv, PaymentInv, Plain, Next
  PROVE  ReceiptsHeld'
<1> SUFFICES ASSUME NEW v \in Verifiers, pc'[v] = "confirming" PROVE HoldsReceipt(v)'
  BY DEF ReceiptsHeld
<1> v \in Workers /\ v \notin Oracles
  BY WorkersAssumption DEF Workers
<1>1. CASE pc[v] = "confirming" /\ cur'[v] = cur[v] /\ block'[v] = block[v]
  BY <1>1, ReceiptStays DEF Plain
<1>2. ASSUME \/ LedgerNext /\ UNCHANGED <<ethVars, runnerVars, nonce, block>>
             \/ EthNext /\ UNCHANGED <<ledgerVars, runnerVars, nonce, block>>
      PROVE  HoldsReceipt(v)'
  BY <1>1, <1>2 DEF runnerVars
<1>3. ASSUME NEW o \in Oracles, OracleNext(o), UNCHANGED block PROVE HoldsReceipt(v)'
  BY <1>1, <1>3, OracleIsLocal DEF LocalStep
<1>4. ASSUME NEW u \in Verifiers, VerifierNext(u) PROVE HoldsReceipt(v)'
  <2>1. CASE u = v
    BY <1>4, <2>1, VerifierReceipt
  <2>2. CASE u # v
    BY <1>1, <1>4, <2>2, VerifierIsLocal, BlockIsLocal DEF LocalStep
  <2>3. QED
    BY <2>1, <2>2
<1>5. ASSUME Crash \/ \E i \in Instances : Spawn(i) \/ Cancel(i) PROVE HoldsReceipt(v)'
  <2>1. pc[v] = "confirming" /\ cur'[v] = cur[v] /\ block'[v] = block[v]
    BY <1>5 DEF Crash, Spawn, Start, Cancel, TypeInv, RunnerOK, RunnerTypeOK
  <2>2. QED
    BY <1>1, <2>1
<1>6. QED
  BY <1>2, <1>3, <1>4, <1>5 DEF Next, Work

LEMMA NextOutcomes ==
  ASSUME TypeInv, OutcomesPossible, [Next]_vars
  PROVE  OutcomesPossible'
<1>1. ASSUME NEW t \in pool, NEW outcome \in Outcomes, MineTransfer(t, outcome)
      PROVE  OutcomesPossible'
  <2> DEFINE m == [tx |-> t, block |-> head + 1, outcome |-> outcome]
  <2>1. m.outcome = outcome
    OBVIOUS
  <2>2. outcome \in PossibleOutcomes /\ mined' = mined \cup {m}
    BY <1>1 DEF MineTransfer
  <2> HIDE DEF m
  <2>3. QED
    BY <2>1, <2>2 DEF OutcomesPossible, PossibleOutcomes
<1>2. ASSUME mined' \subseteq mined PROVE OutcomesPossible'
  BY <1>2 DEF OutcomesPossible, PossibleOutcomes
<1>3. ASSUME NEW o \in Oracles, OracleNext(o) PROVE mined' = mined
  BY <1>3 DEF OracleNext, OracleFetch, RejectDetails, FirstReview, FirstReviewReply,
     RejectTooSmall, GetNonce, SendTransaction, NodeAccepts, NonceFails, SendFails,
     NodeRefuses, SendReplyLost, SendReturns, LastReviewReply,
     OraclePanics, OracleLoop, ethVars
<1>4. ASSUME NEW v \in Verifiers, VerifierNext(v) PROVE mined' = mined
  BY <1>4, VerifierIsLocal DEF ethVars
<1>5. ASSUME EthNext PROVE OutcomesPossible'
  BY <1>1, <1>2, <1>5
  DEF EthNext, ChainNext, MineOther, Drop, Reorg, LateAccept, NodeAccepts
<1>6. QED
  BY <1>2, <1>3, <1>4, <1>5 DEF Next, Work, Spawn, Start, Cancel, Crash, vars, ethVars
-----------------------------------------------------------------------------
LEMMA InitPayment == Init => PaymentInv
<1> SUFFICES ASSUME Init PROVE PaymentInv
  OBVIOUS
<1>1. ApprovedPaid
  BY DEF Init, LedgerInit, ApprovedPaid
<1>2. EnvelopesTruthful
  BY DEF Init, LedgerInit, EnvelopesTruthful
<1>3. ReceiptsHeld
  BY WorkersAre DEF Init, RunnerInit, ReceiptsHeld
<1>4. OutcomesPossible
  BY DEF Init, EthInit, OutcomesPossible
<1>5. QED
  BY <1>1, <1>2, <1>3, <1>4 DEF PaymentInv

LEMMA NextPayment ==
  ASSUME TypeInv, RecordInv, PaymentInv, Plain, [Next]_vars
  PROVE  PaymentInv'
<1>1. PaidRequests \subseteq PaidRequests' /\ Truthful \subseteq Truthful'
  BY PaidStays DEF Plain
<1>2. ASSUME Next PROVE ReceiptsHeld'
  BY <1>2, ReceiptsStay
<1>3. ASSUME LedgerNext PROVE ApprovedPaid' /\ EnvelopesTruthful'
  BY <1>1, <1>3, LedgerNextPayment
<1>4. ASSUME NEW o \in Oracles, OracleNext(o) PROVE ApprovedPaid' /\ EnvelopesTruthful'
  <2>1. requests' = requests /\ TruthfulStep(o) /\ o \in Workers
    BY <1>4, OracleIsLocal, OracleTruthful, WorkersAre DEF LocalStep
  <2>2. QED
    BY <1>1, <2>1, UnreviewedIsPaid, TruthfulStepKeeps
<1>5. ASSUME NEW v \in Verifiers, VerifierNext(v) PROVE ApprovedPaid' /\ EnvelopesTruthful'
  <2>1. requests' = requests /\ TruthfulStep(v) /\ v \in Workers
    BY <1>1, <1>5, VerifierIsLocal, VerifierTruthful, WorkersAre DEF LocalStep
  <2>2. QED
    BY <1>1, <2>1, UnreviewedIsPaid, TruthfulStepKeeps
<1>6. ASSUME Crash PROVE ApprovedPaid' /\ EnvelopesTruthful'
  <2>1. /\ requests' = requests /\ \A w \in Workers : reply'[w] = "none"
        /\ \A e \in delayed' : e \in delayed \/ \E w \in Workers : reply[w] # "none" /\ e = call[w]
    BY <1>6 DEF Crash
  <2>2. EnvelopesTruthful'
    BY <1>1, <2>1 DEF PaymentInv, EnvelopesTruthful
  <2>3. QED
    BY <1>1, <2>1, <2>2, UnreviewedIsPaid
<1>7. ASSUME UNCHANGED ledgerVars PROVE ApprovedPaid' /\ EnvelopesTruthful'
  <2>1. EnvelopesTruthful'
    BY <1>1, <1>7 DEF ledgerVars, PaymentInv, EnvelopesTruthful
  <2>2. QED
    BY <1>1, <1>7, <2>1, UnreviewedIsPaid DEF ledgerVars
<1>8. ASSUME UNCHANGED vars PROVE ReceiptsHeld'
  BY <1>8 DEF vars, ledgerVars, ethVars, runnerVars, PaymentInv, ReceiptsHeld,
     HoldsReceipt, ReceiptsOf
<1>9. OutcomesPossible'
  BY NextOutcomes DEF PaymentInv
<1>10. QED
  BY <1>2, <1>3, <1>4, <1>5, <1>6, <1>7, <1>8, <1>9
  DEF Next, Work, Spawn, Start, Cancel, vars, PaymentInv

\* What moves the tokens of an approved request is its own transaction, unless the
\* node lost that.
LEMMA PaidIsOwn ==
  ASSUME TypeInv, RecordInv, NoncesUnique, PaymentInv
  PROVE  ApprovedIsPaid
<1> SUFFICES ASSUME NEW r \in Requests, requests[r].state = "approved"
             PROVE  \E m \in ReceiptsOf(requests[r].ext) :
                      /\ m.outcome = "moved" /\ EnoughConfirmations(m.block)
                      /\ m.tx.req = r \/ LostTransfer(r)
  BY DEF ApprovedIsPaid
<1>1. PICK m \in ReceiptsOf(requests[r].ext) :
        m.outcome = "moved" /\ EnoughConfirmations(m.block)
  BY DEF PaymentInv, ApprovedPaid, PaidRequests
<1>2. /\ m \in mined /\ m.tx \in Mined /\ HashOf(m.tx) = requests[r].ext
      /\ requests[r].ext # NoTx
  BY MinedAreSent DEF ReceiptsOf, Mined
<1>3. m.tx.req = r \/ LostTransfer(r)
  BY <1>2, HashIsOwn DEF RecordInv
<1>4. QED
  BY <1>1, <1>3

\* As long as the chain keeps its branch and only transfers look like transfers, an
\* approved request was paid: a transaction of the recorded hash moved the tokens, in
\* a block with the configured number of blocks on top, whatever reviews were lost,
\* repeated or late; and it is the request's own, or the node lost that.
THEOREM ApprovedAlwaysPaid ==
  ASSUME MaxReorgs = 0, "lookalike" \notin Faults
  PROVE  Spec => []ApprovedIsPaid
<1> DEFINE Inv == TypeInv /\ RecordInv /\ NoncesUnique /\ PaymentInv
<1>1. Init => Inv
  BY InitTypes, InitRecord, InitNonces, InitPayment
<1>2. Inv /\ [Next]_vars => Inv'
  BY NextTypes, NextRecord, NextNonces, NextPayment DEF Plain
<1>3. Inv => ApprovedIsPaid
  BY PaidIsOwn
<1>4. QED
  BY <1>1, <1>2, <1>3, PTL DEF Spec
=============================================================================
