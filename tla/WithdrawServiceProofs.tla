------------------------ MODULE WithdrawServiceProofs ------------------------
(***************************************************************************)
(* Proofs, for every set of requests, workers, instances, faults and every *)
(* page limit, that the service keeps its types and sends a withdrawal at  *)
(* most once.                                                              *)
(***************************************************************************)
EXTENDS WithdrawService, TLAPS

LedgerOK == LedgerTypeOK /\ CallsOK
RunnerOK == RunnerTypeOK /\ ItemsOK

\* The part of the invariant that is about types.
TypeInv == LedgerOK /\ RunnerOK /\ EthTypeOK
           /\ nonce \in [Workers -> Nat] /\ block \in [Workers -> Nat]

States == LoopStates \cup OracleStates \cup VerifierStates
-----------------------------------------------------------------------------
(* The ledger. *)

\* The envelopes the code builds are envelopes.
LEMMA ApproveType ==
  ASSUME NEW r \in Requests, NEW add \in SUBSET Tasks, NEW remove \in SUBSET Tasks,
         NEW ext \in Hash \cup {NoTx}
  PROVE  Approve(r, add, remove, ext) \in Envelope
BY DEF Approve, Envelope

LEMMA ApproveFields ==
  ASSUME NEW r, NEW add, NEW remove, NEW ext
  PROVE  LET e == Approve(r, add, remove, ext) IN
         /\ e.kind = "approve" /\ e.req = r /\ e.add = add /\ e.remove = remove
         /\ e.ext = ext
BY DEF Approve

LEMMA RejectType ==
  ASSUME NEW r \in Requests, NEW reason \in Reasons
  PROVE  /\ PermanentReject(r, reason) \in Envelope
         /\ taskTryTransfer \notin PermanentReject(r, reason).add
BY DEF PermanentReject, Envelope

\* A review gives a request record back.
LEMMA ReviewedType ==
  ASSUME NEW q \in RequestRecord, NEW e \in Envelope
  PROVE  Reviewed(q, e) \in RequestRecord
BY DEF Reviewed, RequestRecord, Envelope

LEMMA ReviewedFields ==
  ASSUME NEW q \in RequestRecord, NEW e
  PROVE  /\ e.kind = "reject" => /\ Reviewed(q, e).state = "rejected"
                                 /\ Reviewed(q, e).tasks = q.tasks
         /\ e.kind # "reject" => /\ Reviewed(q, e).state \in {"approved", "pending"}
                                 /\ Reviewed(q, e).tasks = (q.tasks \ e.remove) \cup e.add
<1>1. CASE e.kind = "reject"
  BY <1>1 DEF Reviewed, RequestRecord
<1>2. CASE e.kind # "reject"
  <2> DEFINE left == (q.tasks \ e.remove) \cup e.add
             state == IF left = {} THEN "approved" ELSE "pending"
             ext == IF q.ext = NoTx THEN e.ext ELSE q.ext
  <2>1. Reviewed(q, e) = [q EXCEPT !.tasks = left, !.state = state, !.ext = ext]
    BY <1>2 DEF Reviewed
  <2>2. state \in {"approved", "pending"}
    OBVIOUS
  <2> HIDE DEF left, state, ext
  <2>3. Reviewed(q, e).tasks = left /\ Reviewed(q, e).state = state
    BY <2>1 DEF RequestRecord
  <2>4. QED
    BY <1>2, <2>2, <2>3 DEF left
<1>3. QED
  BY <1>1, <1>2

\* Sending a well-formed envelope keeps the ledger's side well formed.
LEMMA SubmitOK ==
  ASSUME LedgerOK, NEW w \in Workers, NEW e \in Envelope, taskTryTransfer \notin e.add,
         Submit(w, e)
  PROVE  LedgerOK'
BY DEF LedgerOK, LedgerTypeOK, CallsOK, Submit

\* So does giving up a call.
LEMMA ForgetOK ==
  ASSUME LedgerOK, NEW w \in Workers, Forget(w)
  PROVE  LedgerOK'
<1>1. delayed' \subseteq Envelope /\ \A e \in delayed' : taskTryTransfer \notin e.add
  BY DEF LedgerOK, LedgerTypeOK, CallsOK, Forget
<1>2. QED
  BY <1>1 DEF LedgerOK, LedgerTypeOK, CallsOK, Forget

\* What the ledger does on its own keeps it well formed.
LEMMA LedgerNextOK ==
  ASSUME LedgerOK, LedgerNext
  PROVE  LedgerOK'
<1>1. ASSUME NEW r \in Requests, CreateRequest(r) PROVE LedgerOK'
  <2>1. InitialTasks[r] \in SUBSET Tasks
    BY TasksAssumption
  <2>2. [requests[r] EXCEPT !.state = "pending", !.tasks = InitialTasks[r]] \in RequestRecord
    BY <2>1 DEF LedgerOK, LedgerTypeOK, RequestRecord
  <2>3. requests' \in [Requests -> RequestRecord]
    BY <1>1, <2>2 DEF CreateRequest, LedgerOK, LedgerTypeOK
  <2>4. QED
    BY <1>1, <2>3 DEF CreateRequest, LedgerOK, LedgerTypeOK, CallsOK
<1>2. ASSUME NEW w \in Workers, LedgerApply(w) PROVE LedgerOK'
  <2>1. call[w] \in Envelope /\ call[w].req \in Requests
    BY <1>2 DEF LedgerApply, LedgerOK, CallsOK, Envelope
  <2>2. requests' \in [Requests -> RequestRecord]
    BY <1>2, <2>1, ReviewedType DEF LedgerApply, LedgerOK, LedgerTypeOK
  <2>3. QED
    BY <1>2, <2>2 DEF LedgerApply, LedgerOK, LedgerTypeOK, CallsOK
<1>3. ASSUME NEW w \in Workers, LedgerRefuse(w) PROVE LedgerOK'
  BY <1>3 DEF LedgerRefuse, LedgerOK, LedgerTypeOK, CallsOK
<1>4. ASSUME NEW e \in delayed, LateApply(e) PROVE LedgerOK'
  <2>1. e \in Envelope /\ e.req \in Requests
    BY DEF LedgerOK, LedgerTypeOK, Envelope
  <2>2. requests' \in [Requests -> RequestRecord]
    BY <1>4, <2>1, ReviewedType DEF LateApply, LedgerOK, LedgerTypeOK
  <2>3. QED
    BY <1>4, <2>2 DEF LateApply, LedgerOK, LedgerTypeOK, CallsOK
<1>5. QED
  BY <1>1, <1>2, <1>3, <1>4 DEF LedgerNext
-----------------------------------------------------------------------------
(* The chain. *)

LEMMA HashType ==
  ASSUME NEW t \in Tx
  PROVE  HashOf(t) \in Hash
BY DEF HashOf, Hash, Payments, Tx

LEMMA NodeAcceptsOK ==
  ASSUME EthTypeOK, NEW t \in Tx, NodeAccepts(t), late' \subseteq late
  PROVE  EthTypeOK'
BY DEF EthTypeOK, NodeAccepts, Mined

LEMMA EthNextOK ==
  ASSUME EthTypeOK, EthNext
  PROVE  EthTypeOK'
<1>1. ASSUME NEW t \in pool, NEW outcome \in Outcomes, MineTransfer(t, outcome)
      PROVE  EthTypeOK'
  <2>1. [tx |-> t, block |-> head + 1, outcome |-> outcome] \in Receipt
    BY DEF EthTypeOK, Receipt
  <2>2. QED
    BY <1>1, <2>1 DEF EthTypeOK, MineTransfer, Mined
<1>2. ASSUME MineOther PROVE EthTypeOK'
  BY <1>2 DEF EthTypeOK, MineOther, Mined
<1>3. ASSUME NEW t \in pool, Drop(t) PROVE EthTypeOK'
  BY <1>3 DEF EthTypeOK, Drop, Mined
<1>4. ASSUME NEW b \in 1 .. head, Reorg(b) PROVE EthTypeOK'
  <2>1. mined' \subseteq mined /\ txs' = txs /\ late' = late
    BY <1>4 DEF Reorg
  <2>2. pool' \subseteq txs
    BY <1>4 DEF Reorg, EthTypeOK, Mined
  <2>3. head' \in Nat /\ reorgs' \in Nat
    BY <1>4 DEF Reorg, EthTypeOK
  <2>4. QED
    BY <2>1, <2>2, <2>3 DEF EthTypeOK, Mined
<1>5. ASSUME NEW t \in late, LateAccept(t) PROVE EthTypeOK'
  BY <1>5, NodeAcceptsOK DEF LateAccept, EthTypeOK
<1>6. QED
  BY <1>1, <1>2, <1>3, <1>4, <1>5 DEF EthNext, ChainNext
-----------------------------------------------------------------------------
(* The loop. *)

LEMMA WorkersAre == Oracles \subseteq Workers /\ Verifiers \subseteq Workers
BY DEF Workers

\* A page holds requests only, and moves the cursor to one of them or back.
LEMMA FetchOK ==
  ASSUME RunnerOK, NEW w \in Workers, NEW matching \in SUBSET Requests,
         Fetch(w, matching)
  PROVE  RunnerOK'
<1>1. Page(w, matching) \subseteq Requests
  BY DEF Page
<1>2. ASSUME FetchShortPage(w, matching) PROVE RunnerOK'
  BY <1>1, <1>2 DEF FetchShortPage, RunnerOK, RunnerTypeOK, ItemsOK, LoopStates
<1>3. ASSUME FetchFullPage(w, matching) PROVE RunnerOK'
  BY <1>1, <1>3 DEF FetchFullPage, RunnerOK, RunnerTypeOK, ItemsOK, LoopStates
<1>4. QED
  BY <1>2, <1>3 DEF Fetch

LEMMA FilterType ==
  ASSUME NEW w, NEW set, NEW notSet
  PROVE  Filter(w, set, notSet) \in SUBSET Requests
BY DEF Filter, TaskFilter

LEMMA LoopOK ==
  ASSUME RunnerOK, NEW w \in Workers,
         FetchFails(w) \/ NilPagePanics(w) \/ Stop(w)
  PROVE  RunnerOK'
BY DEF FetchFails, NilPagePanics, Stop, runnerVars, RunnerOK, RunnerTypeOK, ItemsOK,
       LoopStates

\* Starting, continuing and ending items keeps the loop's variables typed.
LEMMA StartItemOK ==
  ASSUME RunnerOK, NEW w \in Workers, NEW r, NEW next \in States, StartItem(w, r, next)
  PROVE  RunnerOK' /\ r \in Requests
BY DEF StartItem, First, RunnerOK, RunnerTypeOK, ItemsOK, States

LEMMA GotoOK ==
  ASSUME RunnerOK, NEW w \in Workers, NEW next \in States, pc[w] \notin LoopStates,
         Goto(w, next)
  PROVE  RunnerOK' /\ cur[w] \in Requests
BY DEF Goto, RunnerOK, RunnerTypeOK, ItemsOK, States

LEMMA AfterItemType ==
  ASSUME NEW left PROVE AfterItem(left) \in LoopStates
BY DEF AfterItem, LoopStates

LEMMA EndItemOK ==
  ASSUME RunnerOK, NEW w \in Workers, EndItem(w)
  PROVE  RunnerOK'
BY AfterItemType DEF EndItem, RunnerOK, RunnerTypeOK, ItemsOK

LEMMA SkipItemOK ==
  ASSUME RunnerOK, NEW w \in Workers, NEW r, SkipItem(w, r)
  PROVE  RunnerOK'
BY AfterItemType DEF SkipItem, RunnerOK, RunnerTypeOK, ItemsOK

LEMMA AbandonPageOK ==
  ASSUME RunnerOK, NEW w \in Workers, AbandonPage(w)
  PROVE  RunnerOK'
BY DEF AbandonPage, RunnerOK, RunnerTypeOK, ItemsOK, LoopStates

LEMMA StatesAre ==
  /\ {"approving1", "reserved", "send", "sent", "approving2", "rejecting",
      "confirming", "approving"} \subseteq States
  /\ \A s \in {"approving1", "reserved", "send", "sent", "approving2", "rejecting",
               "confirming", "approving"} : s \notin LoopStates
BY DEF States, OracleStates, VerifierStates, LoopStates

LEMMA RepliesForget ==
  ASSUME NEW w, Succeeded(w) \/ Failed(w) \/ ReplyPanics(w)
  PROVE  Forget(w)
BY DEF Succeeded, Failed, ReplyPanics

\* Reviews and rejections the workers ask for.
LEMMA SubmittedOK ==
  ASSUME LedgerOK, NEW w \in Workers, NEW r \in Requests,
         \/ Submit(w, FirstReviewOf(r))
         \/ \E h \in Hash :
              Submit(w, Approve(r, {taskCheckTxConfirmed}, {taskCheckTxSentSuccess}, h))
         \/ Submit(w, Approve(r, {}, {taskCheckTxConfirmed}, NoTx))
         \/ \E reason \in Reasons : Submit(w, PermanentReject(r, reason))
  PROVE  LedgerOK'
<1> DEFINE Good(e) == e \in Envelope /\ taskTryTransfer \notin e.add
<1>1. ASSUME NEW add \in SUBSET Tasks, NEW remove \in SUBSET Tasks,
             NEW ext \in Hash \cup {NoTx}, taskTryTransfer \notin add
      PROVE  Good(Approve(r, add, remove, ext))
  <2>1. Approve(r, add, remove, ext).add = add
    BY DEF Approve
  <2>2. QED
    BY <1>1, <2>1, ApproveType
<1>2. /\ {} \in SUBSET Tasks /\ {taskTryTransfer} \in SUBSET Tasks
      /\ {taskCheckTxSentSuccess} \in SUBSET Tasks
      /\ {taskCheckTxConfirmed} \in SUBSET Tasks
      /\ taskTryTransfer \notin {taskCheckTxSentSuccess, taskCheckTxConfirmed}
  BY DEF Tasks, taskTryTransfer, taskCheckTxSentSuccess, taskCheckTxConfirmed
<1>3. /\ Good(FirstReviewOf(r))
      /\ Good(Approve(r, {}, {taskCheckTxConfirmed}, NoTx))
      /\ \A h \in Hash :
           Good(Approve(r, {taskCheckTxConfirmed}, {taskCheckTxSentSuccess}, h))
  BY <1>1, <1>2 DEF FirstReviewOf
<1>4. ASSUME NEW reason \in Reasons PROVE Good(PermanentReject(r, reason))
  BY RejectType
<1>5. ASSUME NEW e, Good(e), Submit(w, e) PROVE LedgerOK'
  BY <1>5, SubmitOK
<1>6. QED
  BY <1>3, <1>4, <1>5
-----------------------------------------------------------------------------
(* Type correctness. *)

\* Every step of an oracle keeps the types, one case for each action.
LEMMA OracleTypes ==
  ASSUME TypeInv, NEW o \in Oracles, OracleNext(o), UNCHANGED block
  PROVE  TypeInv'
<1> o \in Workers
  BY WorkersAre
<1> USE DEF TypeInv
<1>1. ASSUME OracleFetch(o) PROVE TypeInv'
  <2>1. RunnerOK'
    BY <1>1, FilterType, FetchOK DEF OracleFetch
  <2>2. QED
    BY <1>1, <2>1 DEF OracleFetch, ledgerVars, ethVars, LedgerOK, LedgerTypeOK, CallsOK,
       EthTypeOK, Mined
<1>2. ASSUME NEW r \in todo[o], RejectDetails(o, r) PROVE TypeInv'
  <2>1. RunnerOK' /\ r \in Requests
    BY <1>2, StartItemOK, StatesAre DEF RejectDetails
  <2>2. \E reason \in Reasons : Submit(o, PermanentReject(r, reason))
    BY <1>2 DEF RejectDetails, Reasons
  <2>3. LedgerOK'
    BY <2>1, <2>2, SubmittedOK
  <2>4. QED
    BY <1>2, <2>1, <2>3 DEF RejectDetails, ethVars, EthTypeOK, Mined
<1>3. ASSUME NEW r \in todo[o], FirstReview(o, r) PROVE TypeInv'
  <2>1. RunnerOK' /\ r \in Requests
    BY <1>3, StartItemOK, StatesAre DEF FirstReview
  <2>2. LedgerOK'
    BY <1>3, <2>1, SubmittedOK DEF FirstReview, FirstReviewOf
  <2>3. QED
    BY <1>3, <2>1, <2>2 DEF FirstReview, ethVars, EthTypeOK, Mined
<1>4. ASSUME FirstReviewReply(o) PROVE TypeInv'
  <2>1. LedgerOK'
    BY <1>4, RepliesForget, ForgetOK DEF FirstReviewReply
  <2>2. RunnerOK'
    BY <1>4, GotoOK, EndItemOK, StatesAre DEF FirstReviewReply
  <2>3. QED
    BY <1>4, <2>1, <2>2 DEF FirstReviewReply, ethVars, EthTypeOK, Mined
<1>5. ASSUME RejectTooSmall(o) PROVE TypeInv'
  <2>1. RunnerOK' /\ cur[o] \in Requests
    BY <1>5, GotoOK, StatesAre DEF RejectTooSmall
  <2>2. LedgerOK'
    BY <1>5, <2>1, SubmittedOK DEF RejectTooSmall, Reasons
  <2>3. QED
    BY <1>5, <2>1, <2>2 DEF RejectTooSmall, ethVars, EthTypeOK, Mined
<1>6. ASSUME GetNonce(o) PROVE TypeInv'
  <2>1. RunnerOK'
    BY <1>6, GotoOK, StatesAre DEF GetNonce
  <2>2. nonce' \in [Workers -> Nat]
    BY <1>6 DEF GetNonce
  <2>3. QED
    BY <1>6, <2>1, <2>2 DEF GetNonce, ledgerVars, ethVars, LedgerOK, LedgerTypeOK,
       CallsOK, EthTypeOK, Mined
<1>7. ASSUME SendTransaction(o) PROVE TypeInv'
  <2>1. RunnerOK' /\ cur[o] \in Requests
    BY <1>7, GotoOK, StatesAre DEF SendTransaction
  <2>2. TransferOf(o) \in Tx
    BY <2>1 DEF TransferOf, Tx
  <2>3. EthTypeOK'
    BY <1>7, <2>2, NodeAcceptsOK DEF SendTransaction
  <2>4. QED
    BY <1>7, <2>1, <2>3 DEF SendTransaction, ledgerVars, LedgerOK, LedgerTypeOK, CallsOK
<1>8. ASSUME pc[o] \in {"reserved", "send", "sent"}, RejectTransferFailed(o),
             \/ UNCHANGED ethVars
             \/ /\ late' = late \cup {TransferOf(o)}
                /\ UNCHANGED <<txs, pool, mined, head, reorgs>>
      PROVE  TypeInv'
  <2>1. RunnerOK' /\ cur[o] \in Requests
    BY <1>8, GotoOK, StatesAre DEF RejectTransferFailed
  <2>2. LedgerOK'
    BY <1>8, <2>1, SubmittedOK DEF RejectTransferFailed, Reasons
  <2>3. TransferOf(o) \in Tx
    BY <2>1 DEF TransferOf, Tx
  <2>4. EthTypeOK'
    BY <1>8, <2>3 DEF ethVars, EthTypeOK, Mined
  <2>5. QED
    BY <1>8, <2>1, <2>2, <2>4 DEF RejectTransferFailed
<1>9. ASSUME SendReturns(o) PROVE TypeInv'
  <2>1. RunnerOK' /\ cur[o] \in Requests
    BY <1>9, GotoOK, StatesAre DEF SendReturns
  <2>2. SentHash(o) \in Hash
    BY <2>1, HashType DEF SentHash, TransferOf, Tx
  <2>3. LedgerOK'
    BY <1>9, <2>1, <2>2, SubmittedOK DEF SendReturns
  <2>4. QED
    BY <1>9, <2>1, <2>3 DEF SendReturns, ethVars, EthTypeOK, Mined
<1>10. ASSUME LastReviewReply(o) PROVE TypeInv'
  <2>1. LedgerOK' /\ RunnerOK'
    BY <1>10, RepliesForget, ForgetOK, EndItemOK DEF LastReviewReply
  <2>2. QED
    BY <1>10, <2>1 DEF LastReviewReply, ethVars, EthTypeOK, Mined
<1>11. ASSUME OraclePanics(o) PROVE TypeInv'
  <2>1. LedgerOK' /\ RunnerOK'
    BY <1>11, RepliesForget, ForgetOK, AbandonPageOK DEF OraclePanics
  <2>2. QED
    BY <1>11, <2>1 DEF OraclePanics, ethVars, EthTypeOK, Mined
<1>12. ASSUME OracleLoop(o) PROVE TypeInv'
  <2>1. RunnerOK'
    BY <1>12, LoopOK DEF OracleLoop
  <2>2. QED
    BY <1>12, <2>1 DEF OracleLoop, ledgerVars, ethVars, LedgerOK, LedgerTypeOK, CallsOK,
       EthTypeOK, Mined
<1>13. QED
  BY <1>1, <1>2, <1>3, <1>4, <1>5, <1>6, <1>7, <1>8, <1>9, <1>10, <1>11, <1>12
  DEF OracleNext, NonceFails, SendFails, NodeRefuses, SendReplyLost

\* Every step of a verifier keeps the types.
LEMMA VerifierTypes ==
  ASSUME TypeInv, NEW v \in Verifiers, VerifierNext(v), UNCHANGED nonce
  PROVE  TypeInv'
<1> v \in Workers
  BY WorkersAre
<1> USE DEF TypeInv
<1>1. ASSUME VerifierFetch(v) PROVE TypeInv'
  <2>1. RunnerOK'
    BY <1>1, FilterType, FetchOK DEF VerifierFetch
  <2>2. QED
    BY <1>1, <2>1 DEF VerifierFetch, ledgerVars, ethVars, LedgerOK, LedgerTypeOK,
       CallsOK, EthTypeOK, Mined
<1>2. ASSUME NEW r \in todo[v], RejectNoHash(v, r) \/ RejectFailedTx(v, r)
      PROVE  TypeInv'
  <2>1. RunnerOK' /\ r \in Requests
    BY <1>2, StartItemOK, StatesAre DEF RejectNoHash, RejectFailedTx
  <2>2. LedgerOK'
    BY <1>2, <2>1, SubmittedOK DEF RejectNoHash, RejectFailedTx, Rejects, Reasons
  <2>3. QED
    BY <1>2, <2>1, <2>2 DEF RejectNoHash, RejectFailedTx, ethVars, EthTypeOK, Mined
<1>3. ASSUME NEW r \in todo[v], LeaveForLater(v, r) PROVE TypeInv'
  <2>1. RunnerOK'
    BY <1>3, SkipItemOK DEF LeaveForLater
  <2>2. QED
    BY <1>3, <2>1 DEF LeaveForLater, ledgerVars, ethVars, LedgerOK, LedgerTypeOK,
       CallsOK, EthTypeOK, Mined
<1>4. ASSUME NEW r \in todo[v], LogPanics(v, r) PROVE TypeInv'
  <2>1. RunnerOK'
    BY <1>4, AbandonPageOK DEF LogPanics
  <2>2. QED
    BY <1>4, <2>1 DEF LogPanics, ledgerVars, ethVars, LedgerOK, LedgerTypeOK, CallsOK,
       EthTypeOK, Mined
<1>5. ASSUME NEW r \in todo[v], ReceiptFound(v, r) PROVE TypeInv'
  <2>1. RunnerOK'
    BY <1>5, StartItemOK, StatesAre DEF ReceiptFound
  <2>2. block' \in [Workers -> Nat]
    BY <1>5 DEF ReceiptFound, ReceiptsOf, EthTypeOK, Receipt
  <2>3. QED
    BY <1>5, <2>1, <2>2 DEF ReceiptFound, ledgerVars, ethVars, LedgerOK, LedgerTypeOK,
       CallsOK, EthTypeOK, Mined
<1>6. ASSUME NotConfirmed(v) PROVE TypeInv'
  <2>1. RunnerOK'
    BY <1>6, EndItemOK DEF NotConfirmed
  <2>2. QED
    BY <1>6, <2>1 DEF NotConfirmed, ledgerVars, ethVars, LedgerOK, LedgerTypeOK,
       CallsOK, EthTypeOK, Mined
<1>7. ASSUME Confirmed(v) PROVE TypeInv'
  <2>1. RunnerOK' /\ cur[v] \in Requests
    BY <1>7, GotoOK, StatesAre DEF Confirmed
  <2>2. LedgerOK'
    BY <1>7, <2>1, SubmittedOK DEF Confirmed, Approves
  <2>3. QED
    BY <1>7, <2>1, <2>2 DEF Confirmed, ethVars, EthTypeOK, Mined
<1>8. ASSUME ReviewReply(v) PROVE TypeInv'
  <2>1. LedgerOK' /\ RunnerOK'
    BY <1>8, RepliesForget, ForgetOK, EndItemOK DEF ReviewReply
  <2>2. QED
    BY <1>8, <2>1 DEF ReviewReply, ethVars, EthTypeOK, Mined
<1>9. ASSUME VerifierPanics(v) PROVE TypeInv'
  <2>1. LedgerOK' /\ RunnerOK'
    BY <1>9, RepliesForget, ForgetOK, AbandonPageOK DEF VerifierPanics
  <2>2. QED
    BY <1>9, <2>1 DEF VerifierPanics, ethVars, EthTypeOK, Mined
<1>10. ASSUME VerifierLoop(v) PROVE TypeInv'
  <2>1. RunnerOK'
    BY <1>10, LoopOK DEF VerifierLoop
  <2>2. QED
    BY <1>10, <2>1 DEF VerifierLoop, ledgerVars, ethVars, LedgerOK, LedgerTypeOK,
       CallsOK, EthTypeOK, Mined
<1>11. QED
  BY <1>1, <1>2, <1>3, <1>4, <1>5, <1>6, <1>7, <1>8, <1>9, <1>10
  DEF VerifierNext, VerifierItem

\* Starting, cancelling and losing instances keeps the types.
LEMMA SupervisionTypes ==
  ASSUME TypeInv, Crash \/ \E i \in Instances : Spawn(i) \/ Cancel(i)
  PROVE  TypeInv'
<1> USE DEF TypeInv
<1>1. ASSUME NEW i \in Instances, Spawn(i) PROVE TypeInv'
  <2>1. RunnerOK'
    BY <1>1 DEF Spawn, Start, RunnerOK, RunnerTypeOK, ItemsOK, LoopStates
  <2>2. QED
    BY <1>1, <2>1 DEF Spawn, Start, ledgerVars, ethVars, LedgerOK, LedgerTypeOK, CallsOK,
       EthTypeOK, Mined
<1>2. ASSUME NEW i \in Instances, Cancel(i) PROVE TypeInv'
  <2>1. RunnerOK'
    BY <1>2 DEF Cancel, RunnerOK, RunnerTypeOK, ItemsOK
  <2>2. QED
    BY <1>2, <2>1 DEF Cancel, ledgerVars, ethVars, LedgerOK, LedgerTypeOK, CallsOK,
       EthTypeOK, Mined
<1>3. ASSUME Crash PROVE TypeInv'
  <2>1. RunnerOK'
    BY <1>3 DEF Crash, RunnerOK, RunnerTypeOK, ItemsOK, LoopStates
  <2>2. delayed' \subseteq Envelope /\ \A e \in delayed' : taskTryTransfer \notin e.add
    BY <1>3 DEF Crash, LedgerOK, LedgerTypeOK, CallsOK
  <2>3. LedgerOK'
    BY <1>3, <2>2 DEF Crash, LedgerOK, LedgerTypeOK, CallsOK
  <2>4. \A o \in Oracles : pc[o] = "send" => TransferOf(o) \in Tx
    BY WorkersAre, StatesAre DEF RunnerOK, ItemsOK, TransferOf, Tx
  <2>5. EthTypeOK'
    BY <1>3, <2>4 DEF Crash, EthTypeOK, Mined
  <2>6. QED
    BY <1>3, <2>1, <2>3, <2>5 DEF Crash
<1>4. QED
  BY <1>1, <1>2, <1>3

LEMMA InitTypes == Init => TypeInv
<1> SUFFICES ASSUME Init PROVE TypeInv
  OBVIOUS
<1>1. LedgerOK
  BY DEF Init, LedgerInit, LedgerOK, LedgerTypeOK, CallsOK, RequestRecord
<1>2. RunnerOK
  BY DEF Init, RunnerInit, RunnerOK, RunnerTypeOK, ItemsOK, LoopStates
<1>3. EthTypeOK
  BY DEF Init, EthInit, EthTypeOK, Mined
<1>4. QED
  BY <1>1, <1>2, <1>3 DEF Init, OracleInit, VerifierInit, TypeInv

LEMMA NextTypes ==
  ASSUME TypeInv, [Next]_vars
  PROVE  TypeInv'
<1>1. ASSUME LedgerNext, UNCHANGED <<ethVars, runnerVars, nonce, block>> PROVE TypeInv'
  BY <1>1, LedgerNextOK DEF TypeInv, ethVars, runnerVars, RunnerOK, RunnerTypeOK,
     ItemsOK, EthTypeOK, Mined
<1>2. ASSUME EthNext, UNCHANGED <<ledgerVars, runnerVars, nonce, block>> PROVE TypeInv'
  BY <1>2, EthNextOK DEF TypeInv, ledgerVars, runnerVars, RunnerOK, RunnerTypeOK,
     ItemsOK, LedgerOK, LedgerTypeOK, CallsOK
<1>3. ASSUME UNCHANGED vars PROVE TypeInv'
  BY <1>3 DEF vars, TypeInv, ledgerVars, ethVars, runnerVars, RunnerOK, RunnerTypeOK,
     ItemsOK, LedgerOK, LedgerTypeOK, CallsOK, EthTypeOK, Mined
<1>4. QED
  BY <1>1, <1>2, <1>3, OracleTypes, VerifierTypes, SupervisionTypes DEF Next, Work

\* Every variable always has its type, whatever the workers, the ledger and the
\* node do in whatever order.
THEOREM TypeCorrect == Spec => []TypeOK
<1>1. TypeInv /\ [Next]_vars => TypeInv'
  BY NextTypes
<1>2. TypeInv => TypeOK
  BY DEF TypeInv, TypeOK, LedgerOK, RunnerOK
<1>3. QED
  BY InitTypes, <1>1, <1>2, PTL DEF Spec
-----------------------------------------------------------------------------
(* Every withdrawal is sent at most once.                                  *)
(*                                                                         *)
(* A step either leaves the holders and what they hold alone (Quiet), or   *)
(* is the application of a first review, which needs task 2048 still set   *)
(* and so finds no other holder and no transfer, or is the one send of a   *)
(* holder, which stops holding.                                            *)

Core == FirstReviewsOK /\ OneHolder /\ HeldIsUnsent /\ SentIsTaken /\ AtMostOneAttempt

LEMMA AttemptTypes == ASSUME TypeInv PROVE Attempts \subseteq Tx
BY DEF TypeInv, EthTypeOK, Attempts

LEMMA SameAttempts ==
  ASSUME UNCHANGED ethVars PROVE Attempts' = Attempts
BY DEF ethVars, Attempts

LEMMA Quiet ==
  ASSUME TypeInv, Core, Attempts' \subseteq Attempts, FirstReviewsOK',
         \A o \in Oracles, r \in Requests : Holds(o, r)' => Holds(o, r),
         \A r \in Requests : Taken(r) => Taken(r)'
  PROVE  Core'
<1>1. OneHolder'
  BY DEF Core, OneHolder
<1>2. HeldIsUnsent'
  BY DEF Core, HeldIsUnsent
<1>3. \A t \in Attempts : t.req \in Requests
  BY AttemptTypes DEF Tx
<1>4. SentIsTaken'
  BY <1>3 DEF Core, SentIsTaken
<1>5. QED
  BY <1>1, <1>2, <1>4 DEF Core, AtMostOneAttempt

\* The ledger never gives a taken request back to the senders.
LEMMA TakenStays ==
  ASSUME TypeInv, NEW e \in Envelope, taskTryTransfer \notin e.add, Acceptable(e),
         requests' = [requests EXCEPT ![e.req] = Reviewed(@, e)],
         NEW r \in Requests, Taken(r)
  PROVE  Taken(r)'
<1>1. e.req \in Requests /\ requests \in [Requests -> RequestRecord]
  BY DEF Envelope, TypeInv, LedgerOK, LedgerTypeOK
<1>2. CASE r # e.req
  BY <1>1, <1>2 DEF Taken
<1>3. CASE r = e.req
  <2>1. requests'[r] = Reviewed(requests[r], e)
    BY <1>1, <1>3
  <2>2. QED
    BY <1>1, <1>3, <2>1, ReviewedFields DEF Taken
<1>4. QED
  BY <1>2, <1>3

\* Only a first review makes an oracle a holder, and only of a free request.
LEMMA LedgerApplyCore ==
  ASSUME TypeInv, Core, NEW w \in Workers, LedgerApply(w), UNCHANGED <<pc, cur, Attempts>>
  PROVE  Core'
<1>1. /\ call[w] \in Envelope /\ taskTryTransfer \notin call[w].add
      /\ Acceptable(call[w])
      /\ requests' = [requests EXCEPT ![call[w].req] = Reviewed(@, call[w])]
      /\ reply' = [reply EXCEPT ![w] = "applied"] /\ call' = call
  BY DEF LedgerApply, TypeInv, LedgerOK, CallsOK
<1>2. \A r \in Requests : Taken(r) => Taken(r)'
  BY <1>1, TakenStays
<1>3. FirstReviewsOK'
  BY <1>1 DEF Core, FirstReviewsOK
<1>4. reply \in [Workers -> {"none", "sent", "applied", "refused"}]
  BY DEF TypeInv, LedgerOK, LedgerTypeOK
<1>5. \A o \in Oracles, r \in Requests :
        Holds(o, r)' => Holds(o, r) \/ (o = w /\ pc[w] = "approving1" /\ r = cur[w])
  BY <1>1, <1>4 DEF Holds
<1>6. CASE w \notin Oracles \/ pc[w] # "approving1"
  BY <1>2, <1>3, <1>5, <1>6, Quiet
<1>7. CASE w \in Oracles /\ pc[w] = "approving1"
  <2> DEFINE q == cur[w]
  <2>1. call[w] = FirstReviewOf(q) /\ q \in Requests
    <3>1. call[w] = FirstReviewOf(q)
      BY <1>7 DEF Core, FirstReviewsOK
    <3>2. call[w].req = q
      BY <3>1, ApproveFields DEF FirstReviewOf
    <3>3. QED
      BY <1>1, <3>1, <3>2 DEF Envelope
  <2>2. requests[q].state = "pending" /\ taskTryTransfer \in requests[q].tasks
    <3>1. call[w].req = q /\ call[w].remove = {taskTryTransfer}
      BY <2>1, ApproveFields DEF FirstReviewOf
    <3>2. QED
      BY <1>1, <3>1 DEF Acceptable
  <2>3. /\ \A o \in Oracles : ~Holds(o, q)
        /\ \A t \in Attempts : t.req # q
    BY <2>1, <2>2 DEF Core, HeldIsUnsent, SentIsTaken, Taken
  <2>4. Taken(q)'
    <3>1. requests'[q] = Reviewed(requests[q], FirstReviewOf(q))
      BY <1>1, <2>1, ApproveFields DEF FirstReviewOf, TypeInv, LedgerOK, LedgerTypeOK
    <3>2. requests[q] \in RequestRecord
      BY <2>1 DEF TypeInv, LedgerOK, LedgerTypeOK
    <3>3. /\ requests'[q].state \in {"approved", "pending"}
          /\ requests'[q].tasks =
               (requests[q].tasks \ {taskTryTransfer}) \cup {taskCheckTxSentSuccess}
      BY <3>1, <3>2, ReviewedFields, ApproveFields DEF FirstReviewOf
    <3>4. QED
      BY <3>3 DEF Taken, taskTryTransfer, taskCheckTxSentSuccess
  <2>5. OneHolder'
    BY <1>5, <2>3 DEF Core, OneHolder
  <2>6. HeldIsUnsent'
    <3>1. ASSUME NEW o \in Oracles, NEW r \in Requests, Holds(o, r)'
          PROVE  Taken(r)' /\ \A t \in Attempts : t.req # r
      <4>1. CASE Holds(o, r)
        BY <1>2, <4>1 DEF Core, HeldIsUnsent
      <4>2. CASE r = q
        BY <2>3, <2>4, <4>2
      <4>3. QED
        BY <1>5, <3>1, <4>1, <4>2
    <3>2. QED
      BY <3>1 DEF HeldIsUnsent
  <2>7. SentIsTaken'
    <3>1. \A t \in Attempts : t.req \in Requests
      BY AttemptTypes DEF Tx
    <3>2. QED
      BY <1>2, <3>1 DEF Core, SentIsTaken
  <2>8. QED
    BY <1>3, <2>5, <2>6, <2>7 DEF Core, AtMostOneAttempt
<1>8. QED
  BY <1>6, <1>7

LEMMA LedgerNextCore ==
  ASSUME TypeInv, Core, LedgerNext, UNCHANGED <<pc, cur, Attempts>>
  PROVE  Core'
<1>1. requests \in [Requests -> RequestRecord]
  BY DEF TypeInv, LedgerOK, LedgerTypeOK
<1>2. ASSUME NEW r \in Requests, CreateRequest(r) PROVE Core'
  <2>1. \A q \in Requests : Taken(q) => Taken(q)'
    BY <1>1, <1>2 DEF CreateRequest, Taken
  <2>2. FirstReviewsOK' /\ \A o \in Oracles, q \in Requests : Holds(o, q)' => Holds(o, q)
    BY <1>2 DEF CreateRequest, Core, FirstReviewsOK, Holds
  <2>3. QED
    BY <2>1, <2>2, Quiet
<1>3. ASSUME NEW w \in Workers, LedgerRefuse(w) PROVE Core'
  <2>1. reply \in [Workers -> {"none", "sent", "applied", "refused"}]
    BY DEF TypeInv, LedgerOK, LedgerTypeOK
  <2>2. FirstReviewsOK' /\ \A o \in Oracles, q \in Requests : Holds(o, q)' => Holds(o, q)
    BY <1>3, <2>1 DEF LedgerRefuse, Core, FirstReviewsOK, Holds
  <2>3. \A q \in Requests : Taken(q) => Taken(q)'
    BY <1>3 DEF LedgerRefuse, Taken
  <2>4. QED
    BY <2>2, <2>3, Quiet
<1>4. ASSUME NEW e \in delayed, LateApply(e) PROVE Core'
  <2>1. e \in Envelope /\ taskTryTransfer \notin e.add
    BY DEF TypeInv, LedgerOK, LedgerTypeOK, CallsOK
  <2>2. \A q \in Requests : Taken(q) => Taken(q)'
    BY <1>4, <2>1, TakenStays DEF LateApply
  <2>3. FirstReviewsOK' /\ \A o \in Oracles, q \in Requests : Holds(o, q)' => Holds(o, q)
    BY <1>4 DEF LateApply, Core, FirstReviewsOK, Holds
  <2>4. QED
    BY <2>2, <2>3, Quiet
<1>5. QED
  BY <1>2, <1>3, <1>4, LedgerApplyCore DEF LedgerNext

\* A step of worker w leaves the other workers and the ledger's records alone.
LocalStep(w) ==
  /\ requests' = requests
  /\ \A p \in Workers \ {w} : /\ pc'[p] = pc[p] /\ cur'[p] = cur[p]
                             /\ call'[p] = call[p] /\ reply'[p] = reply[p]

LedgerLocal(w) ==
  /\ requests' = requests
  /\ \A p \in Workers \ {w} : call'[p] = call[p] /\ reply'[p] = reply[p]

RunnerLocal(w) == \A p \in Workers \ {w} : pc'[p] = pc[p] /\ cur'[p] = cur[p]

LEMMA LedgerLocals ==
  ASSUME TypeInv, NEW w \in Workers
  PROVE  /\ \A e : Submit(w, e) => LedgerLocal(w)
         /\ Forget(w) => LedgerLocal(w)
         /\ UNCHANGED ledgerVars => LedgerLocal(w)
BY DEF TypeInv, LedgerOK, LedgerTypeOK, Submit, Forget, ledgerVars, LedgerLocal

LEMMA RunnerLocals ==
  ASSUME TypeInv, NEW w \in Workers
  PROVE  /\ \A matching : Fetch(w, matching) => RunnerLocal(w)
         /\ FetchFails(w) \/ NilPagePanics(w) \/ Stop(w) => RunnerLocal(w)
         /\ \A r, next : StartItem(w, r, next) => RunnerLocal(w)
         /\ \A next : Goto(w, next) => RunnerLocal(w)
         /\ \A r : SkipItem(w, r) => RunnerLocal(w)
         /\ EndItem(w) \/ AbandonPage(w) => RunnerLocal(w)
<1>1. pc \in [Workers -> States] /\ cur \in [Workers -> Requests \cup {0}]
  BY DEF TypeInv, RunnerOK, RunnerTypeOK, States
<1>2. \A matching : Fetch(w, matching) => RunnerLocal(w)
  BY <1>1 DEF Fetch, FetchShortPage, FetchFullPage, RunnerLocal
<1>3. FetchFails(w) \/ NilPagePanics(w) \/ Stop(w) => RunnerLocal(w)
  BY <1>1 DEF FetchFails, NilPagePanics, Stop, runnerVars, RunnerLocal
<1>4. \A r, next : StartItem(w, r, next) => RunnerLocal(w)
  BY <1>1 DEF StartItem, RunnerLocal
<1>5. /\ \A next : Goto(w, next) => RunnerLocal(w)
      /\ \A r : SkipItem(w, r) => RunnerLocal(w)
      /\ EndItem(w) \/ AbandonPage(w) => RunnerLocal(w)
  BY <1>1 DEF Goto, SkipItem, EndItem, AbandonPage, RunnerLocal
<1>6. QED
  BY <1>2, <1>3, <1>4, <1>5

LEMMA LocalsCompose ==
  ASSUME NEW w, LedgerLocal(w), RunnerLocal(w)
  PROVE  LocalStep(w)
BY DEF LedgerLocal, RunnerLocal, LocalStep

LEMMA OracleIsLocal ==
  ASSUME TypeInv, NEW o \in Oracles, OracleNext(o)
  PROVE  LocalStep(o)
<1> o \in Workers
  BY WorkersAre
<1>1. LedgerLocal(o)
  BY LedgerLocals, RepliesForget
  DEF OracleNext, OracleFetch, RejectDetails, FirstReview, FirstReviewReply,
      RejectTooSmall, GetNonce, SendTransaction, NonceFails, SendFails, NodeRefuses,
      SendReplyLost, RejectTransferFailed, SendReturns, LastReviewReply, OraclePanics,
      OracleLoop
<1>2. RunnerLocal(o)
  BY RunnerLocals
  DEF OracleNext, OracleFetch, RejectDetails, FirstReview, FirstReviewReply,
      RejectTooSmall, GetNonce, SendTransaction, NonceFails, SendFails, NodeRefuses,
      SendReplyLost, RejectTransferFailed, SendReturns, LastReviewReply, OraclePanics,
      OracleLoop
<1>3. QED
  BY <1>1, <1>2, LocalsCompose

LEMMA VerifierIsLocal ==
  ASSUME TypeInv, NEW v \in Verifiers, VerifierNext(v)
  PROVE  LocalStep(v) /\ UNCHANGED ethVars
<1> v \in Workers
  BY WorkersAre
<1>1. LedgerLocal(v)
  BY LedgerLocals, RepliesForget
  DEF VerifierNext, VerifierItem, VerifierFetch, RejectNoHash, LeaveForLater,
      RejectFailedTx, LogPanics, ReceiptFound, NotConfirmed, Confirmed, ReviewReply,
      VerifierPanics, VerifierLoop, Approves, Rejects
<1>2. RunnerLocal(v)
  BY RunnerLocals
  DEF VerifierNext, VerifierItem, VerifierFetch, RejectNoHash, LeaveForLater,
      RejectFailedTx, LogPanics, ReceiptFound, NotConfirmed, Confirmed, ReviewReply,
      VerifierPanics, VerifierLoop
<1>3. UNCHANGED ethVars
  BY DEF VerifierNext, VerifierItem, VerifierFetch, RejectNoHash, LeaveForLater,
      RejectFailedTx, LogPanics, ReceiptFound, NotConfirmed, Confirmed, ReviewReply,
      VerifierPanics, VerifierLoop
<1>4. QED
  BY <1>1, <1>2, <1>3, LocalsCompose

LEMMA VerifierCore ==
  ASSUME TypeInv, Core, NEW v \in Verifiers, VerifierNext(v)
  PROVE  Core'
<1>1. LocalStep(v) /\ Attempts' = Attempts
  BY VerifierIsLocal, SameAttempts
<1>2. Oracles \subseteq Workers \ {v}
  BY WorkersAssumption DEF Workers
<1>3. \A r \in Requests : Taken(r) => Taken(r)'
  BY <1>1 DEF LocalStep, Taken
<1>4. FirstReviewsOK' /\ \A o \in Oracles, r \in Requests : Holds(o, r)' => Holds(o, r)
  BY <1>1, <1>2 DEF LocalStep, Core, FirstReviewsOK, Holds
<1>5. QED
  BY <1>1, <1>3, <1>4, Quiet

\* Apart from a send, with or without an answer, an oracle's own step makes it
\* hold nothing new.
SelfQuiet(o) ==
  /\ Attempts' = Attempts
  /\ \A r \in Requests : Holds(o, r)' => Holds(o, r)
  /\ pc'[o] = "approving1" => call'[o] = FirstReviewOf(cur'[o])

LEMMA OracleQuiet ==
  ASSUME TypeInv, Core, NEW o \in Oracles, OracleNext(o), ~SendTransaction(o),
         ~SendFails(o)
  PROVE  SelfQuiet(o)
<1> o \in Workers
  BY WorkersAre
<1>1. /\ pc \in [Workers -> States] /\ cur \in [Workers -> Requests \cup {0}]
      /\ reply \in [Workers -> {"none", "sent", "applied", "refused"}]
      /\ call \in [Workers -> Envelope \cup {NoEnvelope}]
  BY DEF TypeInv, RunnerOK, RunnerTypeOK, States, LedgerOK, LedgerTypeOK
<1>2. Attempts' = Attempts
  BY SameAttempts
  DEF OracleNext, OracleFetch, RejectDetails, FirstReview, FirstReviewReply,
      RejectTooSmall, GetNonce, NonceFails, NodeRefuses, SendReplyLost,
      SendReturns, LastReviewReply, OraclePanics, OracleLoop
<1>3. ASSUME pc'[o] \notin {"approving1", "reserved", "send"} PROVE SelfQuiet(o)
  BY <1>2, <1>3 DEF SelfQuiet, Holds
<1>4. ASSUME OracleFetch(o) \/ OracleLoop(o) PROVE SelfQuiet(o)
  <2>1. pc'[o] \in LoopStates
    BY <1>1, <1>4 DEF OracleFetch, OracleLoop, Fetch, FetchShortPage, FetchFullPage,
       FetchFails, NilPagePanics, Stop, runnerVars, LoopStates
  <2>2. QED
    BY <1>3, <2>1 DEF LoopStates
<1>5. ASSUME NEW r \in todo[o], FirstReview(o, r) PROVE SelfQuiet(o)
  <2>1. /\ pc'[o] = "approving1" /\ cur'[o] = r
        /\ call'[o] = FirstReviewOf(r) /\ reply'[o] = "sent"
    BY <1>1, <1>5 DEF FirstReview, FirstReviewOf, StartItem, Submit
  <2>2. QED
    BY <1>2, <2>1 DEF SelfQuiet, Holds
<1>6. ASSUME FirstReviewReply(o) PROVE SelfQuiet(o)
  <2>1. ASSUME Succeeded(o), Goto(o, "reserved") PROVE SelfQuiet(o)
    <3>1. /\ pc[o] = "approving1" /\ reply[o] = "applied"
          /\ pc'[o] = "reserved" /\ cur' = cur
      BY <1>1, <1>6, <2>1 DEF FirstReviewReply, Succeeded, Goto
    <3>2. QED
      BY <1>2, <3>1 DEF SelfQuiet, Holds
  <2>2. ASSUME EndItem(o) PROVE SelfQuiet(o)
    BY <1>1, <1>3, <2>2, AfterItemType DEF EndItem, LoopStates
  <2>3. QED
    BY <1>6, <2>1, <2>2 DEF FirstReviewReply
<1>7. ASSUME GetNonce(o) PROVE SelfQuiet(o)
  BY <1>1, <1>2, <1>7 DEF GetNonce, Goto, SelfQuiet, Holds
<1>8. ASSUME \/ \E r \in todo[o] : RejectDetails(o, r)
             \/ RejectTooSmall(o) \/ RejectTransferFailed(o) \/ SendReturns(o)
      PROVE  SelfQuiet(o)
  <2>1. pc'[o] \in {"rejecting", "approving2"}
    BY <1>1, <1>8 DEF RejectDetails, StartItem, RejectTooSmall, RejectTransferFailed,
       SendReturns, Goto
  <2>2. QED
    BY <1>3, <2>1
<1>9. ASSUME LastReviewReply(o) \/ OraclePanics(o) PROVE SelfQuiet(o)
  <2>1. pc'[o] \in LoopStates
    BY <1>1, <1>9, AfterItemType DEF LastReviewReply, EndItem, OraclePanics, AbandonPage,
       LoopStates
  <2>2. QED
    BY <1>3, <2>1 DEF LoopStates
<1>10. QED
  BY <1>4, <1>5, <1>6, <1>7, <1>8, <1>9
  DEF OracleNext, NonceFails, NodeRefuses, SendReplyLost

\* The send: the one holder of an unsent request adds its one transfer, known to
\* have arrived or not.
LEMMA SendCore ==
  ASSUME TypeInv, Core, NEW o \in Oracles, SendTransaction(o) \/ SendFails(o),
         LocalStep(o)
  PROVE  Core'
<1> o \in Workers
  BY WorkersAre
<1> DEFINE q == cur[o]
           t == TransferOf(o)
<1>1. pc \in [Workers -> States] /\ pc[o] = "send" /\ q \in Requests
  BY WorkersAre DEF SendTransaction, SendFails, TypeInv, RunnerOK, RunnerTypeOK, ItemsOK,
     States, LoopStates
<1>2. t.req = q /\ Attempts' = Attempts \cup {t}
  BY DEF SendTransaction, SendFails, NodeAccepts, TransferOf, Attempts
<1>3. pc'[o] \in {"sent", "rejecting"} /\ requests' = requests
  BY <1>1 DEF SendTransaction, SendFails, RejectTransferFailed, Goto, LocalStep
<1>4. Holds(o, q)
  BY <1>1 DEF Holds
<1>5. Taken(q) /\ \A u \in Attempts : u.req # q
  BY <1>1, <1>4 DEF Core, HeldIsUnsent
<1>6. \A p \in Oracles, r \in Requests : Holds(p, r)' => Holds(p, r) /\ p # o
  BY <1>3, WorkersAre DEF Holds, LocalStep
<1>7. \A r \in Requests : Taken(r)' <=> Taken(r)
  BY <1>3 DEF Taken
<1>8. FirstReviewsOK'
  BY <1>3, WorkersAre DEF Core, FirstReviewsOK, LocalStep
<1>9. OneHolder'
  BY <1>6 DEF Core, OneHolder
<1>10. HeldIsUnsent'
  <2>1. ASSUME NEW p \in Oracles, NEW r \in Requests, Holds(p, r)'
        PROVE  Taken(r)' /\ \A u \in Attempts' : u.req # r
    <3>1. Holds(p, r) /\ p # o
      BY <1>6, <2>1
    <3>2. r # q
      BY <1>4, <3>1 DEF Core, OneHolder
    <3>3. Taken(r) /\ \A u \in Attempts : u.req # r
      BY <3>1 DEF Core, HeldIsUnsent
    <3>4. QED
      BY <1>2, <1>7, <3>2, <3>3
  <2>2. QED
    BY <2>1 DEF HeldIsUnsent
<1>11. SentIsTaken'
  <2>1. \A u \in Attempts : u.req \in Requests /\ Taken(u.req)
    BY AttemptTypes DEF Tx, Core, SentIsTaken
  <2>2. \A u \in Attempts' : u.req \in Requests /\ Taken(u.req)
    BY <1>1, <1>2, <1>5, <2>1
  <2>3. QED
    BY <1>7, <2>2 DEF SentIsTaken
<1>12. AtMostOneAttempt'
  BY <1>2, <1>5 DEF Core, AtMostOneAttempt
<1>13. QED
  BY <1>8, <1>9, <1>10, <1>11, <1>12 DEF Core

LEMMA OracleCore ==
  ASSUME TypeInv, Core, NEW o \in Oracles, OracleNext(o)
  PROVE  Core'
<1>1. LocalStep(o)
  BY OracleIsLocal
<1>2. ASSUME SendTransaction(o) \/ SendFails(o) PROVE Core'
  BY <1>1, <1>2, SendCore
<1>3. ASSUME ~SendTransaction(o), ~SendFails(o) PROVE Core'
  <2>1. SelfQuiet(o)
    BY <1>3, OracleQuiet
  <2>2. \A p \in Oracles, r \in Requests : Holds(p, r)' => Holds(p, r)
    BY <1>1, <2>1, WorkersAre DEF LocalStep, SelfQuiet, Holds
  <2>3. FirstReviewsOK'
    BY <1>1, <2>1, WorkersAre DEF LocalStep, SelfQuiet, Core, FirstReviewsOK
  <2>4. \A r \in Requests : Taken(r) => Taken(r)'
    BY <1>1 DEF LocalStep, Taken
  <2>5. QED
    BY <2>1, <2>2, <2>3, <2>4, Quiet DEF SelfQuiet
<1>4. QED
  BY <1>2, <1>3

\* A crash leaves nobody at work; every holder's send may have left it.
LEMMA CrashCore ==
  ASSUME TypeInv, Core, Crash
  PROVE  Core'
<1> DEFINE Sending == {o \in Oracles : pc[o] = "send"}
<1>1. /\ Attempts' = Attempts \cup {TransferOf(o) : o \in Sending}
      /\ requests' = requests
      /\ \A o \in Oracles : pc'[o] = "stopped"
  BY WorkersAre DEF Crash, Attempts
<1>2. \A o \in Sending : /\ cur[o] \in Requests /\ TransferOf(o).req = cur[o]
                         /\ Holds(o, cur[o])
  BY WorkersAre, StatesAre DEF TypeInv, RunnerOK, ItemsOK, TransferOf, Holds
<1>3. \A o \in Sending : /\ Taken(TransferOf(o).req)
                         /\ \A t \in Attempts : t.req # TransferOf(o).req
  BY <1>2 DEF Core, HeldIsUnsent
<1>4. \A o, p \in Sending : TransferOf(o).req = TransferOf(p).req => o = p
  BY <1>2 DEF Core, OneHolder
<1>5. FirstReviewsOK' /\ OneHolder' /\ HeldIsUnsent'
  BY <1>1 DEF FirstReviewsOK, OneHolder, HeldIsUnsent, Holds
<1>6. \A r : Taken(r)' <=> Taken(r)
  BY <1>1 DEF Taken
<1>7. SentIsTaken'
  <2>1. \A t \in Attempts' : Taken(t.req)
    BY <1>1, <1>3 DEF Core, SentIsTaken
  <2>2. QED
    BY <1>6, <2>1 DEF SentIsTaken
<1>8. AtMostOneAttempt'
  <2> SUFFICES ASSUME NEW t \in Attempts', NEW u \in Attempts', t.req = u.req
               PROVE  t = u
    BY DEF AtMostOneAttempt
  <2>1. CASE t \in Attempts /\ u \in Attempts
    BY <2>1 DEF Core, AtMostOneAttempt
  <2>2. CASE t \notin Attempts \/ u \notin Attempts
    <3>1. t \notin Attempts => \E o \in Sending : t = TransferOf(o)
      BY <1>1
    <3>2. u \notin Attempts => \E o \in Sending : u = TransferOf(o)
      BY <1>1
    <3>3. QED
      BY <1>3, <1>4, <2>2, <3>1, <3>2
  <2>3. QED
    BY <2>1, <2>2
<1>9. QED
  BY <1>5, <1>7, <1>8 DEF Core

LEMMA SupervisionCore ==
  ASSUME TypeInv, Core, NEW i \in Instances, Spawn(i) \/ Cancel(i)
  PROVE  Core'
<1>1. /\ pc \in [Workers -> States] /\ Attempts' = Attempts
      /\ UNCHANGED <<requests, cur, call, reply>>
  BY SameAttempts
  DEF TypeInv, RunnerOK, RunnerTypeOK, States, Spawn, Start, Cancel, ledgerVars
<1>2. \A w \in Oracles : pc'[w] = "wait" \/ pc'[w] = pc[w]
  BY <1>1, WorkersAre DEF Spawn, Start, Cancel
<1>3. FirstReviewsOK' /\ \A o \in Oracles, r \in Requests : Holds(o, r)' => Holds(o, r)
  BY <1>1, <1>2 DEF Core, FirstReviewsOK, Holds
<1>4. QED
  BY <1>1, <1>3, Quiet DEF Taken

LEMMA NextCore ==
  ASSUME TypeInv, Core, [Next]_vars
  PROVE  Core'
<1>1. ASSUME LedgerNext, UNCHANGED <<ethVars, runnerVars, nonce, block>> PROVE Core'
  BY <1>1, LedgerNextCore, SameAttempts DEF runnerVars
<1>2. ASSUME \/ EthNext /\ UNCHANGED <<ledgerVars, runnerVars, nonce, block>>
             \/ UNCHANGED vars
      PROVE  Core'
  <2>1. Attempts' \subseteq Attempts
    BY <1>2 DEF EthNext, ChainNext, MineTransfer, MineOther, Drop, Reorg, LateAccept,
       NodeAccepts, vars, ethVars, Attempts
  <2>2. requests' = requests /\ call' = call /\ reply' = reply /\ pc' = pc /\ cur' = cur
    BY <1>2 DEF vars, ledgerVars, runnerVars
  <2>3. QED
    BY <2>1, <2>2, Quiet DEF Core, FirstReviewsOK, Holds, Taken
<1>3. QED
  BY <1>1, <1>2, OracleCore, VerifierCore, SupervisionCore, CrashCore DEF Next, Work

LEMMA InitCore == Init => Core
BY DEF Init, LedgerInit, EthInit, RunnerInit, Core, FirstReviewsOK, OneHolder, Holds,
   HeldIsUnsent, SentIsTaken, AtMostOneAttempt, Attempts, Workers

\* The inductive invariant holds, with any number of oracles for one asset and
\* under every fault.
THEOREM SendOnceInvariant == Spec => []SendOnceInv
<1>1. Init => TypeInv /\ Core
  BY InitTypes, InitCore
<1>2. TypeInv /\ Core /\ [Next]_vars => TypeInv' /\ Core'
  BY NextTypes, NextCore
<1>3. TypeInv /\ Core => SendOnceInv
  BY DEF TypeInv, Core, SendOnceInv, TypeOK, LedgerOK, RunnerOK
<1>4. QED
  BY <1>1, <1>2, <1>3, PTL DEF Spec

\* sendWithdraw sends a withdrawal to Ethereum at most once, over all oracles,
\* cancellations, restarts, and reviews the ledger applies late.
THEOREM NeverSentTwice == Spec => []AtMostOneTransfer
<1>1. SendOnceInv => AtMostOneTransfer
  BY DEF SendOnceInv, AtMostOneAttempt, AtMostOneTransfer, Attempts
<1>2. QED
  BY SendOnceInvariant, <1>1, PTL
=============================================================================
