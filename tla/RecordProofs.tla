---------------------------- MODULE RecordProofs -----------------------------
(***************************************************************************)
(* What the ledger records of a withdrawal was really sent: proofs for     *)
(* every set of requests, workers, instances and faults.                   *)
(***************************************************************************)
EXTENDS WithdrawServiceProofs
-----------------------------------------------------------------------------
(* The recorded hash.  It travels in the second review, so every envelope  *)
(* that has a hash must have that of a transaction sent for its request,   *)
(* and an oracle between the send and that review must have sent it.       *)

SentFor(r, h) == \E t \in txs : t.req = r /\ HashOf(t) = h

EnvelopeTrue(e) == e.ext # NoTx => SentFor(e.req, e.ext)

EnvelopesTrue ==
  /\ \A w \in Workers : reply[w] # "none" => EnvelopeTrue(call[w])
  /\ \A e \in delayed : EnvelopeTrue(e)

SentIsTransfer == \A o \in Oracles : pc[o] = "sent" => TransferOf(o) \in txs

RecordInv == RecordedIsSent /\ EnvelopesTrue /\ SentIsTransfer

LEMMA ReviewedExt ==
  ASSUME NEW q \in RequestRecord, NEW e
  PROVE  Reviewed(q, e).ext \in {q.ext, e.ext}
<1>1. CASE e.kind = "reject"
  BY <1>1 DEF Reviewed, RequestRecord
<1>2. CASE e.kind # "reject"
  <2> DEFINE left == (q.tasks \ e.remove) \cup e.add
             state == IF left = {} THEN "approved" ELSE "pending"
             ext == IF q.ext = NoTx THEN e.ext ELSE q.ext
  <2>1. Reviewed(q, e) = [q EXCEPT !.tasks = left, !.state = state, !.ext = ext]
    BY <1>2 DEF Reviewed
  <2> HIDE DEF left, state
  <2>2. Reviewed(q, e).ext = ext
    BY <2>1 DEF RequestRecord
  <2>3. QED
    BY <2>2
<1>3. QED
  BY <1>1, <1>2

LEMMA SentForStays ==
  ASSUME txs \subseteq txs'
  PROVE  /\ \A r, h : SentFor(r, h) => SentFor(r, h)'
         /\ \A e : EnvelopeTrue(e) => EnvelopeTrue(e)'
BY DEF SentFor, EnvelopeTrue

LEMMA RecordsAre ==
  RecordedIsSent <=>
    \A r \in Requests : requests[r].ext # NoTx => SentFor(r, requests[r].ext)
BY DEF RecordedIsSent, SentFor

\* Nothing that was sent is forgotten.
LEMMA TxsGrow ==
  ASSUME [Next]_vars
  PROVE  txs \subseteq txs'
<1>1. ASSUME NEW o \in Oracles, OracleNext(o) PROVE txs \subseteq txs'
  BY <1>1 DEF OracleNext, OracleFetch, RejectDetails, FirstReview, FirstReviewReply,
     RejectTooSmall, GetNonce, SendTransaction, NodeAccepts, NonceFails, SendFails,
     NodeRefuses, SendReplyLost, RejectTransferFailed, SendReturns, LastReviewReply,
     OraclePanics, OracleLoop, ethVars
<1>2. ASSUME NEW v \in Verifiers, VerifierNext(v) PROVE txs \subseteq txs'
  BY <1>2 DEF VerifierNext, VerifierItem, VerifierFetch, RejectNoHash, LeaveForLater,
     RejectFailedTx, LogPanics, ReceiptFound, NotConfirmed, Confirmed, ReviewReply,
     VerifierPanics, VerifierLoop, ethVars
<1>3. ASSUME EthNext PROVE txs \subseteq txs'
  BY <1>3 DEF EthNext, ChainNext, MineTransfer, MineOther, Drop, Reorg, LateAccept,
     NodeAccepts
<1>4. QED
  BY <1>1, <1>2, <1>3 DEF Next, Work, Spawn, Start, Cancel, Crash, vars, ethVars

\* The ledger applies true envelopes, so its records stay true.
LEMMA AppliedIsTrue ==
  ASSUME TypeInv, RecordInv, NEW e \in Envelope, EnvelopeTrue(e), txs' = txs,
         requests' = [requests EXCEPT ![e.req] = Reviewed(@, e)]
  PROVE  RecordedIsSent'
<1>1. requests \in [Requests -> RequestRecord] /\ e.req \in Requests
  BY DEF TypeInv, LedgerOK, LedgerTypeOK, Envelope
<1>2. ASSUME NEW r \in Requests, requests'[r].ext # NoTx
      PROVE  SentFor(r, requests'[r].ext)
  <2>1. CASE r # e.req
    BY <1>1, <1>2, <2>1, RecordsAre DEF RecordInv
  <2>2. CASE r = e.req
    <3>1. requests'[r].ext \in {requests[r].ext, e.ext}
      BY <1>1, <2>2, ReviewedExt
    <3>2. QED
      BY <1>2, <2>2, <3>1, RecordsAre DEF RecordInv, EnvelopeTrue
  <2>3. QED
    BY <2>1, <2>2
<1>3. QED
  BY <1>2 DEF RecordedIsSent, SentFor

LEMMA LedgerNextRecord ==
  ASSUME TypeInv, RecordInv, LedgerNext, UNCHANGED <<ethVars, runnerVars, nonce>>
  PROVE  RecordInv'
<1>1. txs' = txs /\ SentIsTransfer'
  BY DEF ethVars, runnerVars, RecordInv, SentIsTransfer, TransferOf
<1>2. requests \in [Requests -> RequestRecord]
  BY DEF TypeInv, LedgerOK, LedgerTypeOK
<1>3. ASSUME NEW r \in Requests, CreateRequest(r) PROVE RecordInv'
  <2>1. \A q \in Requests : requests'[q].ext = requests[q].ext
    BY <1>2, <1>3 DEF CreateRequest, RequestRecord
  <2>2. RecordedIsSent'
    BY <1>1, <2>1 DEF RecordInv, RecordedIsSent
  <2>3. EnvelopesTrue'
    BY <1>1, <1>3, SentForStays DEF CreateRequest, RecordInv, EnvelopesTrue
  <2>4. QED
    BY <1>1, <2>2, <2>3 DEF RecordInv
<1>4. ASSUME NEW w \in Workers, LedgerApply(w) PROVE RecordInv'
  <2>1. call[w] \in Envelope /\ EnvelopeTrue(call[w])
    BY <1>4 DEF LedgerApply, TypeInv, LedgerOK, CallsOK, RecordInv, EnvelopesTrue
  <2>2. RecordedIsSent'
    BY <1>1, <1>4, <2>1, AppliedIsTrue DEF LedgerApply
  <2>3. EnvelopesTrue'
    <3>1. call' = call /\ delayed' = delayed
          /\ \A u \in Workers : reply'[u] # "none" => reply[u] # "none"
      BY <1>4 DEF LedgerApply, TypeInv, LedgerOK, LedgerTypeOK
    <3>2. QED
      BY <1>1, <3>1, SentForStays DEF RecordInv, EnvelopesTrue
  <2>4. QED
    BY <1>1, <2>2, <2>3 DEF RecordInv
<1>5. ASSUME NEW w \in Workers, LedgerRefuse(w) PROVE RecordInv'
  <2>1. call' = call /\ delayed' = delayed /\ requests' = requests
        /\ \A u \in Workers : reply'[u] # "none" => reply[u] # "none"
    BY <1>5 DEF LedgerRefuse, TypeInv, LedgerOK, LedgerTypeOK
  <2>2. QED
    BY <1>1, <2>1, SentForStays DEF RecordInv, RecordedIsSent, EnvelopesTrue
<1>6. ASSUME NEW e \in delayed, LateApply(e) PROVE RecordInv'
  <2>1. e \in Envelope /\ EnvelopeTrue(e)
    BY DEF TypeInv, LedgerOK, LedgerTypeOK, RecordInv, EnvelopesTrue
  <2>2. RecordedIsSent'
    BY <1>1, <1>6, <2>1, AppliedIsTrue DEF LateApply
  <2>3. QED
    BY <1>1, <1>6, <2>2, SentForStays DEF LateApply, RecordInv, EnvelopesTrue
<1>7. QED
  BY <1>3, <1>4, <1>5, <1>6 DEF LedgerNext

\* What is said of the envelopes under way needs a look only at the one that is
\* submitted: S holds those allowed before the step, T those allowed after it.
LEMMA EnvelopesStay ==
  ASSUME TypeInv, NEW w \in Workers, NEW S, NEW T, S \subseteq T,
         \A u \in Workers : reply[u] # "none" => call[u] \in S,
         delayed \subseteq S,
         UNCHANGED ledgerVars \/ Forget(w) \/ \E e \in T : Submit(w, e)
  PROVE  /\ \A u \in Workers : reply'[u] # "none" => call'[u] \in T
         /\ delayed' \subseteq T
<1>1. /\ call \in [Workers -> Envelope \cup {NoEnvelope}]
      /\ reply \in [Workers -> {"none", "sent", "applied", "refused"}]
  BY DEF TypeInv, LedgerOK, LedgerTypeOK
<1>2. CASE UNCHANGED ledgerVars
  BY <1>2 DEF ledgerVars
<1>3. CASE Forget(w)
  <2>1. \A u \in Workers : reply'[u] # "none" => reply[u] # "none" /\ call'[u] = call[u]
    BY <1>1, <1>3 DEF Forget
  <2>2. \A e \in delayed' : e \in delayed \/ (reply[w] # "none" /\ e = call[w])
    BY <1>3 DEF Forget
  <2>3. QED
    BY <2>1, <2>2
<1>4. ASSUME NEW e \in T, Submit(w, e)
      PROVE  /\ \A u \in Workers : reply'[u] # "none" => call'[u] \in T
             /\ delayed' \subseteq T
  <2>1. \A u \in Workers : reply'[u] # "none" =>
          call'[u] = e \/ (reply[u] # "none" /\ call'[u] = call[u])
    BY <1>1, <1>4 DEF Submit
  <2>2. delayed' = delayed
    BY <1>4 DEF Submit
  <2>3. QED
    BY <1>4, <2>1, <2>2
<1>5. QED
  BY <1>2, <1>3, <1>4

\* What a worker may do to the envelopes.
TrueStep(w) ==
  \/ UNCHANGED ledgerVars
  \/ Forget(w)
  \/ \E e \in Envelope : EnvelopeTrue(e) /\ Submit(w, e)

LEMMA TrueStepRecord ==
  ASSUME TypeInv, RecordInv, NEW w \in Workers, TrueStep(w), txs \subseteq txs'
  PROVE  RecordedIsSent' /\ EnvelopesTrue'
<1>1. requests' = requests
  BY DEF TrueStep, ledgerVars, Forget, Submit
<1>2. RecordedIsSent'
  BY <1>1, SentForStays DEF RecordInv, RecordedIsSent, SentFor
<1>3. /\ call \in [Workers -> Envelope \cup {NoEnvelope}]
      /\ reply \in [Workers -> {"none", "sent", "applied", "refused"}]
  BY DEF TypeInv, LedgerOK, LedgerTypeOK
<1>4. \A e : EnvelopeTrue(e) => EnvelopeTrue(e)'
  BY SentForStays
<1>5. CASE UNCHANGED ledgerVars
  BY <1>2, <1>4, <1>5 DEF ledgerVars, RecordInv, EnvelopesTrue
<1>6. CASE Forget(w)
  <2>1. \A u \in Workers : reply'[u] # "none" => reply[u] # "none" /\ call'[u] = call[u]
    BY <1>3, <1>6 DEF Forget
  <2>2. \A e \in delayed' : e \in delayed \/ (reply[w] # "none" /\ e = call[w])
    BY <1>6 DEF Forget
  <2>3. QED
    BY <1>2, <1>4, <2>1, <2>2 DEF RecordInv, EnvelopesTrue
<1>7. ASSUME NEW e \in Envelope, EnvelopeTrue(e), Submit(w, e)
      PROVE  EnvelopesTrue'
  <2>1. \A u \in Workers : reply'[u] # "none" =>
          call'[u] = e \/ (reply[u] # "none" /\ call'[u] = call[u])
    BY <1>3, <1>7 DEF Submit
  <2>2. delayed' = delayed
    BY <1>7 DEF Submit
  <2>3. QED
    BY <1>4, <1>7, <2>1, <2>2 DEF RecordInv, EnvelopesTrue
<1>8. QED
  BY <1>2, <1>5, <1>6, <1>7 DEF TrueStep

\* Reviews that name no transaction are true of everything.
LEMMA NoExtIsTrue ==
  ASSUME NEW r \in Requests
  PROVE  /\ FirstReviewOf(r) \in Envelope /\ EnvelopeTrue(FirstReviewOf(r))
         /\ Approve(r, {}, {taskCheckTxConfirmed}, NoTx) \in Envelope
         /\ EnvelopeTrue(Approve(r, {}, {taskCheckTxConfirmed}, NoTx))
         /\ \A reason \in Reasons : /\ PermanentReject(r, reason) \in Envelope
                                    /\ EnvelopeTrue(PermanentReject(r, reason))
<1>1. /\ {} \in SUBSET Tasks /\ {taskTryTransfer} \in SUBSET Tasks
      /\ {taskCheckTxSentSuccess} \in SUBSET Tasks
      /\ {taskCheckTxConfirmed} \in SUBSET Tasks
  BY DEF Tasks
<1>2. /\ FirstReviewOf(r) \in Envelope
      /\ Approve(r, {}, {taskCheckTxConfirmed}, NoTx) \in Envelope
  BY <1>1, ApproveType DEF FirstReviewOf
<1>3. /\ FirstReviewOf(r).ext = NoTx
      /\ Approve(r, {}, {taskCheckTxConfirmed}, NoTx).ext = NoTx
      /\ \A reason : PermanentReject(r, reason).ext = NoTx
  BY DEF FirstReviewOf, Approve, PermanentReject
<1>4. QED
  BY <1>2, <1>3, RejectType DEF EnvelopeTrue

LEMMA OracleRecord ==
  ASSUME TypeInv, RecordInv, NEW o \in Oracles, OracleNext(o), txs \subseteq txs'
  PROVE  RecordInv'
<1> o \in Workers
  BY WorkersAre
<1>1. /\ pc \in [Workers -> States] /\ cur \in [Workers -> Requests \cup {0}]
      /\ nonce \in [Workers -> Nat]
      /\ \A w \in Workers : pc[w] \notin LoopStates => cur[w] \in Requests
  BY DEF TypeInv, RunnerOK, RunnerTypeOK, ItemsOK, States
<1>2. TrueStep(o)
  <2>1. ASSUME NEW r \in todo[o], RejectDetails(o, r) \/ FirstReview(o, r)
        PROVE  TrueStep(o)
    <3>1. r \in Requests
      BY <2>1 DEF TypeInv, RunnerOK, RunnerTypeOK
    <3>2. QED
      BY <2>1, <3>1, NoExtIsTrue DEF RejectDetails, FirstReview, FirstReviewOf, TrueStep,
         Reasons
  <2>2. ASSUME \/ RejectTooSmall(o)
               \/ pc[o] \in {"reserved", "send", "sent"} /\ RejectTransferFailed(o)
        PROVE  TrueStep(o)
    <3>1. cur[o] \in Requests
      BY <1>1, <2>2 DEF RejectTooSmall, LoopStates
    <3>2. QED
      BY <2>2, <3>1, NoExtIsTrue DEF RejectTooSmall, RejectTransferFailed, TrueStep, Reasons
  <2>3. ASSUME SendReturns(o) PROVE TrueStep(o)
    <3> DEFINE e == Approve(cur[o], {taskCheckTxConfirmed}, {taskCheckTxSentSuccess},
                            SentHash(o))
    <3>1. cur[o] \in Requests /\ TransferOf(o) \in txs
      BY <1>1, <2>3 DEF SendReturns, LoopStates, RecordInv, SentIsTransfer
    <3>2. TransferOf(o) \in Tx /\ TransferOf(o).req = cur[o]
      BY <1>1, <3>1 DEF TransferOf, Tx
    <3>3. e.ext = SentHash(o) /\ e.req = cur[o]
      BY DEF Approve
    <3>4. e \in Envelope
      BY <3>1, <3>2, ApproveType, HashType DEF SentHash, Tasks
    <3> HIDE DEF e
    <3>5. EnvelopeTrue(e)
      BY <3>1, <3>2, <3>3 DEF EnvelopeTrue, SentFor, SentHash
    <3>6. Submit(o, e)
      BY <2>3 DEF SendReturns, e
    <3>7. QED
      BY <3>4, <3>5, <3>6 DEF TrueStep
  <2>4. QED
    BY <2>1, <2>2, <2>3, RepliesForget
    DEF OracleNext, OracleFetch, FirstReviewReply, GetNonce, SendTransaction, NonceFails,
        SendFails, NodeRefuses, SendReplyLost, LastReviewReply, OraclePanics, OracleLoop,
        TrueStep
<1>3. RecordedIsSent' /\ EnvelopesTrue'
  BY <1>2, TrueStepRecord
<1>4. pc'[o] = "sent" => TransferOf(o)' \in txs'
  <2>1. CASE SendTransaction(o)
    BY <2>1 DEF SendTransaction, NodeAccepts, Goto, TransferOf
  <2>2. CASE ~SendTransaction(o)
    <3>1. pc'[o] # "sent"
      BY <1>1, <2>2, AfterItemType DEF OracleNext, OracleFetch, Fetch, FetchShortPage,
         FetchFullPage, RejectDetails, FirstReview, StartItem, FirstReviewReply, Goto,
         EndItem, RejectTooSmall, GetNonce, NonceFails, SendFails, NodeRefuses,
         SendReplyLost, RejectTransferFailed, SendReturns, LastReviewReply, OraclePanics,
         AbandonPage, OracleLoop, FetchFails, NilPagePanics, Stop, runnerVars, LoopStates
    <3>2. QED
      BY <3>1
  <2>3. QED
    BY <2>1, <2>2
<1>5. ASSUME NEW p \in Oracles, p # o, pc'[p] = "sent"
      PROVE  TransferOf(p)' \in txs'
  <2>1. pc'[p] = pc[p] /\ cur'[p] = cur[p]
    BY <1>5, OracleIsLocal, WorkersAre DEF LocalStep
  <2>2. nonce'[p] = nonce[p]
    BY <1>1, <1>5, WorkersAre DEF OracleNext, OracleFetch, RejectDetails, FirstReview,
       FirstReviewReply, RejectTooSmall, GetNonce, SendTransaction, NonceFails, SendFails,
       NodeRefuses, SendReplyLost, RejectTransferFailed, SendReturns, LastReviewReply,
       OraclePanics, OracleLoop
  <2>3. QED
    BY <1>5, <2>1, <2>2 DEF RecordInv, SentIsTransfer, TransferOf
<1>6. QED
  BY <1>3, <1>4, <1>5 DEF RecordInv, SentIsTransfer

LEMMA VerifierRecord ==
  ASSUME TypeInv, RecordInv, NEW v \in Verifiers, VerifierNext(v), UNCHANGED nonce
  PROVE  RecordInv'
<1> v \in Workers
  BY WorkersAre
<1>1. LocalStep(v) /\ txs' = txs
  BY VerifierIsLocal DEF ethVars
<1>2. TrueStep(v)
  <2>1. ASSUME NEW r \in todo[v], RejectNoHash(v, r) \/ RejectFailedTx(v, r)
        PROVE  TrueStep(v)
    <3>1. r \in Requests
      BY <2>1 DEF TypeInv, RunnerOK, RunnerTypeOK
    <3>2. QED
      BY <2>1, <3>1, NoExtIsTrue DEF RejectNoHash, RejectFailedTx, Rejects, TrueStep, Reasons
  <2>2. ASSUME Confirmed(v) PROVE TrueStep(v)
    <3>1. cur[v] \in Requests
      BY <2>2 DEF Confirmed, TypeInv, RunnerOK, ItemsOK, LoopStates
    <3>2. QED
      BY <2>2, <3>1, NoExtIsTrue DEF Confirmed, Approves, TrueStep
  <2>3. QED
    BY <2>1, <2>2, RepliesForget
    DEF VerifierNext, VerifierItem, VerifierFetch, LeaveForLater, LogPanics, ReceiptFound,
        NotConfirmed, ReviewReply, VerifierPanics, VerifierLoop, TrueStep
<1>3. RecordedIsSent' /\ EnvelopesTrue'
  BY <1>1, <1>2, TrueStepRecord
<1>4. \A o \in Oracles : o \in Workers \ {v}
  BY WorkersAssumption DEF Workers
<1>5. SentIsTransfer'
  BY <1>1, <1>4 DEF LocalStep, RecordInv, SentIsTransfer, TransferOf
<1>6. QED
  BY <1>3, <1>5 DEF RecordInv

LEMMA SupervisionRecord ==
  ASSUME TypeInv, RecordInv, Crash \/ \E i \in Instances : Spawn(i) \/ Cancel(i)
  PROVE  RecordInv'
<1>1. txs' = txs /\ requests' = requests /\ pc \in [Workers -> States]
  BY DEF TypeInv, RunnerOK, RunnerTypeOK, States, Crash, Spawn, Start, Cancel, ethVars,
     ledgerVars
<1>2. RecordedIsSent'
  BY <1>1 DEF RecordInv, RecordedIsSent
<1>3. EnvelopesTrue'
  <2>1. CASE Crash
    <3>1. \A w \in Workers : reply'[w] = "none"
      BY <2>1 DEF Crash
    <3>2. \A e \in delayed' : e \in delayed \/ \E w \in Workers : reply[w] = "sent" /\ e = call[w]
      BY <2>1 DEF Crash
    <3>3. QED
      BY <1>1, <3>1, <3>2, SentForStays DEF RecordInv, EnvelopesTrue
  <2>2. CASE ~Crash
    BY <1>1, <2>2, SentForStays
    DEF Spawn, Start, Cancel, ledgerVars, RecordInv, EnvelopesTrue
  <2>3. QED
    BY <2>1, <2>2
<1>4. \A o \in Oracles : pc'[o] = "sent" => pc[o] = "sent" /\ cur' = cur /\ nonce' = nonce
  BY <1>1, WorkersAre DEF Crash, Spawn, Start, Cancel
<1>5. QED
  BY <1>1, <1>2, <1>3, <1>4 DEF RecordInv, SentIsTransfer, TransferOf

LEMMA InitRecord == Init => RecordInv
<1> SUFFICES ASSUME Init PROVE RecordInv
  OBVIOUS
<1>1. RecordedIsSent
  BY DEF Init, LedgerInit, RecordedIsSent
<1>2. EnvelopesTrue
  BY DEF Init, LedgerInit, EnvelopesTrue
<1>3. SentIsTransfer
  BY WorkersAre DEF Init, RunnerInit, SentIsTransfer
<1>4. QED
  BY <1>1, <1>2, <1>3 DEF RecordInv

LEMMA NextRecord ==
  ASSUME TypeInv, RecordInv, [Next]_vars
  PROVE  RecordInv'
<1>1. txs \subseteq txs'
  BY TxsGrow
<1>2. ASSUME LedgerNext, UNCHANGED <<ethVars, runnerVars, nonce, block>> PROVE RecordInv'
  BY <1>2, LedgerNextRecord
<1>3. ASSUME \/ EthNext /\ UNCHANGED <<ledgerVars, runnerVars, nonce, block>>
             \/ UNCHANGED vars
      PROVE  RecordInv'
  <2>1. /\ requests' = requests /\ call' = call /\ reply' = reply /\ delayed' = delayed
        /\ pc' = pc /\ cur' = cur /\ nonce' = nonce
    BY <1>3 DEF vars, ledgerVars, runnerVars
  <2>2. QED
    BY <1>1, <2>1, SentForStays
    DEF RecordInv, RecordedIsSent, EnvelopesTrue, SentIsTransfer, TransferOf
<1>4. QED
  BY <1>1, <1>2, <1>3, OracleRecord, VerifierRecord, SupervisionRecord
  DEF Next, Work

\* The transaction the ledger records for a withdrawal is one that was sent for it,
\* whatever the second review of sendWithdraw meets on its way.
THEOREM RecordedAlwaysSent == Spec => []RecordedIsSent
<1>1. Init => TypeInv /\ RecordInv
  BY InitTypes, InitRecord
<1>2. TypeInv /\ RecordInv /\ [Next]_vars => TypeInv' /\ RecordInv'
  BY NextTypes, NextRecord
<1>3. RecordInv => RecordedIsSent
  BY DEF RecordInv
<1>4. QED
  BY <1>1, <1>2, <1>3, PTL DEF Spec
-----------------------------------------------------------------------------
(* One hash on the record of two requests.  The node keeps one transaction *)
(* for each nonce, and a hash says which nonce it was.                     *)

NoncesUnique ==
  \A t, u \in pool \cup Mined : t.nonce = u.nonce => t = u

\* Nothing is mined that was not in the pool, and what enters the pool has a nonce
\* no other transaction has.
LEMMA NodeAcceptsNonces ==
  ASSUME NoncesUnique, NEW t, NodeAccepts(t)
  PROVE  NoncesUnique'
<1>1. /\ \A u \in pool \cup Mined : u.nonce # t.nonce
      /\ pool' = pool \cup {t} /\ Mined' = Mined
  BY DEF NodeAccepts, UsedNonces, Mined
<1>2. QED
  BY <1>1 DEF NoncesUnique

LEMMA EthNextNonces ==
  ASSUME NoncesUnique, EthNext
  PROVE  NoncesUnique'
<1>1. ASSUME NEW t \in pool, NEW outcome, MineTransfer(t, outcome) PROVE NoncesUnique'
  <2> DEFINE m == [tx |-> t, block |-> head + 1, outcome |-> outcome]
  <2>1. m.tx = t
    OBVIOUS
  <2>2. pool' \subseteq pool /\ mined' = mined \cup {m}
    BY <1>1 DEF MineTransfer
  <2> HIDE DEF m
  <2>3. Mined' = Mined \cup {t}
    BY <2>1, <2>2 DEF Mined
  <2>4. QED
    BY <2>2, <2>3 DEF NoncesUnique
<1>2. ASSUME MineOther \/ \E t \in pool : Drop(t) PROVE NoncesUnique'
  <2>1. pool' \subseteq pool /\ Mined' = Mined
    BY <1>2 DEF MineOther, Drop, Mined
  <2>2. QED
    BY <2>1 DEF NoncesUnique
<1>3. ASSUME NEW b, Reorg(b) PROVE NoncesUnique'
  <2>1. pool' \subseteq pool \cup Mined /\ Mined' \subseteq Mined
    BY <1>3 DEF Reorg, Mined
  <2>2. QED
    BY <2>1 DEF NoncesUnique
<1>4. QED
  BY <1>1, <1>2, <1>3, NodeAcceptsNonces DEF EthNext, ChainNext, LateAccept

LEMMA NextNonces ==
  ASSUME TypeInv, NoncesUnique, [Next]_vars
  PROVE  NoncesUnique'
<1>1. ASSUME pool' = pool, mined' = mined PROVE NoncesUnique'
  BY <1>1 DEF NoncesUnique, Mined
<1>2. ASSUME NEW o \in Oracles, OracleNext(o) PROVE NoncesUnique'
  <2>1. CASE SendTransaction(o)
    BY <2>1, NodeAcceptsNonces DEF SendTransaction
  <2>2. CASE ~SendTransaction(o)
    <3>1. pool' = pool /\ mined' = mined
      BY <1>2, <2>2 DEF OracleNext, OracleFetch, RejectDetails, FirstReview,
         FirstReviewReply, RejectTooSmall, GetNonce, NonceFails, SendFails, NodeRefuses,
         SendReplyLost, SendReturns, LastReviewReply, OraclePanics, OracleLoop, ethVars
    <3>2. QED
      BY <1>1, <3>1
  <2>3. QED
    BY <2>1, <2>2
<1>3. ASSUME NEW v \in Verifiers, VerifierNext(v) PROVE NoncesUnique'
  BY <1>1, <1>3, VerifierIsLocal DEF ethVars
<1>4. QED
  BY <1>1, <1>2, <1>3, EthNextNonces
  DEF Next, Work, Spawn, Start, Cancel, Crash, vars, ethVars

LEMMA InitNonces == Init => NoncesUnique
BY DEF Init, EthInit, NoncesUnique, Mined

\* A transaction the node still has is told by the hash on its request's record.
LEMMA HashIsOwn ==
  ASSUME RecordedIsSent, NoncesUnique, NEW r \in Requests, requests[r].ext # NoTx,
         NEW t \in pool \cup Mined, HashOf(t) = requests[r].ext
  PROVE  t.req = r \/ LostTransfer(r)
<1>1. PICK u \in txs : u.req = r /\ HashOf(u) = requests[r].ext
  BY DEF RecordedIsSent
<1>2. u.nonce = t.nonce
  BY <1>1 DEF HashOf
<1>3. QED
  BY <1>1, <1>2 DEF NoncesUnique, LostTransfer

\* Two requests share a hash on record only when the node lost a transaction that
\* it had accepted for one of them: neither two oracles with one nonce nor any late,
\* lost or repeated review gets there.
THEOREM SharedAlwaysLost == Spec => []SharedOnlyIfLost
<1>1. Init => TypeInv /\ RecordInv /\ NoncesUnique
  BY InitTypes, InitRecord, InitNonces
<1>2. TypeInv /\ RecordInv /\ NoncesUnique /\ [Next]_vars
        => TypeInv' /\ RecordInv' /\ NoncesUnique'
  BY NextTypes, NextRecord, NextNonces
<1>3. RecordInv /\ NoncesUnique => SharedOnlyIfLost
  <2> SUFFICES ASSUME RecordInv, NoncesUnique, NEW q \in Requests, NEW r \in Requests,
                      q # r, requests[q].ext = requests[r].ext, requests[q].ext # NoTx,
                      ~LostTransfer(q)
               PROVE  LostTransfer(r)
    BY DEF SharedOnlyIfLost
  <2>1. PICK t \in txs : t.req = q /\ HashOf(t) = requests[q].ext
    BY DEF RecordInv, RecordedIsSent
  <2>2. t \in pool \cup Mined
    BY <2>1 DEF LostTransfer
  <2>3. QED
    BY <2>1, <2>2, HashIsOwn DEF RecordInv
<1>4. QED
  BY <1>1, <1>2, <1>3, PTL DEF Spec
-----------------------------------------------------------------------------
(* A reserved request has an oracle at work on it, as long as the answer to *)
(* every review comes and is true and the process does not stop: there is no *)
(* way through sendWithdraw that returns between the two reviews.  The proof *)
(* must know which review a worker waits for at each place, and that the    *)
(* ledger will apply it as long as the request is as the worker left it.    *)

AnswersTrue == {"timeout", "refuse", "crash"} \cap Faults = {}

\* Oracle o is between the ledger's two changes of request r.
AtWork(o, r) ==
  /\ cur[o] = r
  /\ \/ pc[o] \in {"reserved", "send", "sent"}
     \/ pc[o] = "approving1" /\ reply[o] = "applied"
     \/ pc[o] \in {"approving2", "rejecting"} /\ reply[o] = "sent"

IsReserved(r) ==
  requests[r].state = "pending" /\ taskCheckTxSentSuccess \in requests[r].tasks

ReservedAtWork == \A r \in Requests : IsReserved(r) => \E o \in Oracles : AtWork(o, r)

\* The review w waits for, by where w is.
CallFits(w) ==
  reply[w] # "none" =>
    \/ pc[w] = "approving1" /\ w \in Oracles
    \/ /\ pc[w] = "approving2" /\ call[w].req = cur[w] /\ call[w].kind = "approve"
       /\ call[w].add = {taskCheckTxConfirmed}
       /\ call[w].remove = {taskCheckTxSentSuccess}
    \/ /\ pc[w] = "rejecting" /\ call[w].req = cur[w] /\ call[w].kind = "reject"
       /\ call[w].add = {} /\ call[w].remove = {}
    \/ pc[w] = "approving" /\ call[w].add = {}

WorkInv == ReservedAtWork /\ (\A w \in Workers : CallFits(w)) /\ delayed = {}

\* An answer that arrives leaves nothing in flight.
LEMMA AnswersLeaveNothing ==
  ASSUME TypeInv, AnswersTrue, delayed = {}, NEW w \in Workers,
         Succeeded(w) \/ Failed(w) \/ ReplyPanics(w)
  PROVE  /\ reply[w] \in {"applied", "refused"} /\ reply'[w] = "none" /\ delayed' = {}
         /\ Failed(w) => reply[w] = "refused"
BY DEF AnswersTrue, TypeInv, LedgerOK, LedgerTypeOK, Succeeded, Failed, ReplyPanics, Forget

\* What a step of worker w does to its own call and item.
WorkKept(w) ==
  /\ CallFits(w)' /\ delayed' = {}
  /\ \A r \in Requests : AtWork(w, r) => AtWork(w, r)'

LEMMA OracleWork ==
  ASSUME TypeInv, WorkInv, AnswersTrue, NEW o \in Oracles, OracleNext(o)
  PROVE  WorkKept(o)
<1> o \in Workers
  BY WorkersAre
<1>1. /\ pc \in [Workers -> States] /\ cur \in [Workers -> Requests \cup {0}]
      /\ call \in [Workers -> Envelope \cup {NoEnvelope}]
      /\ reply \in [Workers -> {"none", "sent", "applied", "refused"}]
  BY DEF TypeInv, RunnerOK, RunnerTypeOK, States, LedgerOK, LedgerTypeOK
<1>2. /\ delayed = {}
      /\ reply[o] # "none" => pc[o] \in {"approving1", "approving2", "rejecting", "approving"}
  BY DEF WorkInv, CallFits
<1>3. ASSUME OracleFetch(o) \/ OracleLoop(o) PROVE WorkKept(o)
  <2>1. pc[o] \in LoopStates /\ UNCHANGED ledgerVars
    BY <1>3 DEF OracleFetch, OracleLoop, Fetch, FetchShortPage, FetchFullPage, FetchFails,
       NilPagePanics, Stop, LoopStates
  <2>2. reply'[o] = "none" /\ delayed' = {}
    BY <1>1, <1>2, <2>1 DEF ledgerVars, LoopStates
  <2>3. QED
    BY <2>1, <2>2 DEF WorkKept, CallFits, AtWork, LoopStates
<1>4. ASSUME NEW r \in todo[o], RejectDetails(o, r) \/ FirstReview(o, r)
      PROVE  WorkKept(o)
  <2>1. pc[o] = "page" /\ cur'[o] = r /\ delayed' = {}
    BY <1>1, <1>2, <1>4 DEF RejectDetails, FirstReview, StartItem, First, Submit
  <2>2. CASE FirstReview(o, r)
    BY <1>1, <2>1, <2>2 DEF FirstReview, StartItem, WorkKept, CallFits, AtWork
  <2>3. CASE RejectDetails(o, r)
    <3>1. pc'[o] = "rejecting"
      BY <1>1, <2>3 DEF RejectDetails, StartItem
    <3>2. PICK reason : call'[o] = PermanentReject(r, reason)
      BY <1>1, <2>3 DEF RejectDetails, Submit
    <3>3. QED
      BY <2>1, <3>1, <3>2 DEF PermanentReject, WorkKept, CallFits, AtWork
  <2>4. QED
    BY <1>4, <2>2, <2>3
<1>5. ASSUME NEW reason, Submit(o, PermanentReject(cur[o], reason)), Goto(o, "rejecting")
      PROVE  WorkKept(o)
  <2>1. /\ pc'[o] = "rejecting" /\ cur' = cur /\ reply'[o] = "sent" /\ delayed' = {}
        /\ call'[o] = PermanentReject(cur[o], reason)
    BY <1>1, <1>2, <1>5 DEF Submit, Goto
  <2>2. QED
    BY <2>1 DEF WorkKept, CallFits, AtWork, PermanentReject
<1>6. ASSUME SendReturns(o) PROVE WorkKept(o)
  <2>1. /\ pc'[o] = "approving2" /\ cur' = cur /\ reply'[o] = "sent" /\ delayed' = {}
        /\ call'[o] = Approve(cur[o], {taskCheckTxConfirmed}, {taskCheckTxSentSuccess},
                              SentHash(o))
    BY <1>1, <1>2, <1>6 DEF SendReturns, Submit, Goto
  <2>2. QED
    BY <2>1, ApproveFields DEF WorkKept, CallFits, AtWork
<1>7. ASSUME GetNonce(o) \/ SendTransaction(o) PROVE WorkKept(o)
  <2>1. /\ pc'[o] \in {"send", "sent"} /\ cur' = cur /\ reply'[o] = "none" /\ delayed' = {}
    BY <1>1, <1>2, <1>7 DEF GetNonce, SendTransaction, Goto, ledgerVars
  <2>2. QED
    BY <2>1 DEF WorkKept, CallFits, AtWork
<1>8. ASSUME FirstReviewReply(o) PROVE WorkKept(o)
  <2>1. pc[o] = "approving1" /\ reply'[o] = "none" /\ delayed' = {}
    BY <1>2, <1>8, AnswersLeaveNothing DEF FirstReviewReply
  <2>2. CASE Succeeded(o) /\ Goto(o, "reserved")
    BY <1>1, <2>1, <2>2 DEF Goto, WorkKept, CallFits, AtWork
  <2>3. CASE Failed(o)
    BY <1>2, <2>1, <2>3, AnswersLeaveNothing DEF WorkKept, CallFits, AtWork
  <2>4. QED
    BY <1>8, <2>2, <2>3 DEF FirstReviewReply
<1>9. ASSUME LastReviewReply(o) \/ OraclePanics(o) PROVE WorkKept(o)
  <2>1. reply[o] \in {"applied", "refused"} /\ reply'[o] = "none" /\ delayed' = {}
    BY <1>2, <1>9, AnswersLeaveNothing DEF LastReviewReply, OraclePanics
  <2>2. reply[o] = "applied" => pc[o] \in {"approving2", "rejecting"}
    BY <1>9 DEF LastReviewReply, OraclePanics, ReplyPanics
  <2>3. QED
    BY <1>2, <2>1, <2>2 DEF WorkKept, CallFits, AtWork
<1>10. QED
  BY <1>3, <1>4, <1>5, <1>6, <1>7, <1>8, <1>9
  DEF OracleNext, RejectTooSmall, NonceFails, SendFails, NodeRefuses, SendReplyLost,
      RejectTransferFailed

LEMMA VerifierWork ==
  ASSUME TypeInv, WorkInv, AnswersTrue, NEW v \in Verifiers, VerifierNext(v)
  PROVE  CallFits(v)' /\ delayed' = {}
<1> v \in Workers
  BY WorkersAre
<1>1. /\ pc \in [Workers -> States] /\ cur \in [Workers -> Requests \cup {0}]
      /\ call \in [Workers -> Envelope \cup {NoEnvelope}]
      /\ reply \in [Workers -> {"none", "sent", "applied", "refused"}]
  BY DEF TypeInv, RunnerOK, RunnerTypeOK, States, LedgerOK, LedgerTypeOK
<1>2. /\ delayed = {}
      /\ reply[v] # "none" => pc[v] \in {"approving1", "approving2", "rejecting", "approving"}
  BY DEF WorkInv, CallFits
<1>3. ASSUME UNCHANGED ledgerVars,
             pc[v] \in {"stopped", "wait", "page", "nilPage", "confirming"}
      PROVE  CallFits(v)' /\ delayed' = {}
  BY <1>2, <1>3 DEF ledgerVars, CallFits
<1>4. ASSUME NEW r, NEW reason, Rejects(v, r, reason), StartItem(v, r, "rejecting")
      PROVE  CallFits(v)' /\ delayed' = {}
  BY <1>1, <1>2, <1>4 DEF Rejects, Submit, StartItem, PermanentReject, CallFits
<1>5. ASSUME Confirmed(v) PROVE CallFits(v)' /\ delayed' = {}
  BY <1>1, <1>2, <1>5 DEF Confirmed, Approves, Approve, Submit, Goto, CallFits
<1>6. ASSUME Succeeded(v) \/ Failed(v) \/ ReplyPanics(v)
      PROVE  CallFits(v)' /\ delayed' = {}
  BY <1>2, <1>6, AnswersLeaveNothing DEF CallFits
<1>7. ASSUME VerifierNext(v), ~(ReviewReply(v) \/ VerifierPanics(v)), ~Confirmed(v),
             ~\E r \in todo[v] : RejectNoHash(v, r) \/ RejectFailedTx(v, r)
      PROVE  /\ UNCHANGED ledgerVars
             /\ pc[v] \in {"stopped", "wait", "page", "nilPage", "confirming"}
  BY <1>7 DEF VerifierNext, VerifierItem, VerifierFetch, Fetch, FetchShortPage,
     FetchFullPage, LeaveForLater, SkipItem, LogPanics, ReceiptFound, StartItem, First,
     NotConfirmed, VerifierLoop, FetchFails, NilPagePanics, Stop
<1>8. QED
  BY <1>3, <1>4, <1>5, <1>6, <1>7
  DEF RejectNoHash, RejectFailedTx, ReviewReply, VerifierPanics

\* A step of a worker keeps the oracles at work on what is reserved.
LEMMA WorkerWork ==
  ASSUME TypeInv, WorkInv, AnswersTrue, NEW w \in Workers,
         \/ w \in Oracles /\ OracleNext(w)
         \/ w \in Verifiers /\ VerifierNext(w)
  PROVE  WorkInv'
<1>1. LocalStep(w)
  BY OracleIsLocal, VerifierIsLocal
<1>2. /\ CallFits(w)' /\ delayed' = {}
      /\ w \in Oracles => \A r \in Requests : AtWork(w, r) => AtWork(w, r)'
  BY OracleWork, VerifierWork, WorkersAssumption DEF WorkKept
<1>3. \A u \in Workers \ {w} : /\ CallFits(u) => CallFits(u)'
                                /\ \A r \in Requests : AtWork(u, r) => AtWork(u, r)'
  BY <1>1 DEF LocalStep, CallFits, AtWork
<1>4. ReservedAtWork'
  BY <1>1, <1>2, <1>3, WorkersAre DEF LocalStep, WorkInv, ReservedAtWork, IsReserved
<1>5. QED
  BY <1>2, <1>3, <1>4 DEF WorkInv

\* So does a step of the ledger: what it applies ends the reservation the worker waited
\* to end, or makes the one it waited to make.
LEMMA LedgerWork ==
  ASSUME TypeInv, Core, WorkInv, AnswersTrue, LedgerNext, UNCHANGED <<pc, cur>>,
         \A r \in Requests : taskCheckTxSentSuccess \notin InitialTasks[r]
  PROVE  WorkInv'
<1>1. /\ requests \in [Requests -> RequestRecord]
      /\ reply \in [Workers -> {"none", "sent", "applied", "refused"}]
  BY DEF TypeInv, LedgerOK, LedgerTypeOK
<1>2. call' = call /\ delayed' = {} /\ \A w \in Workers : reply'[w] # "none" => reply[w] # "none"
  BY <1>1 DEF LedgerNext, CreateRequest, LedgerApply, LedgerRefuse, LateApply, WorkInv
<1>3. \A w \in Workers : CallFits(w)'
  BY <1>2 DEF WorkInv, CallFits
<1>4. ASSUME NEW q \in Requests, CreateRequest(q) PROVE ReservedAtWork'
  <2>1. \A r \in Requests : IsReserved(r)' => IsReserved(r)
    BY <1>1, <1>4 DEF CreateRequest, IsReserved, RequestRecord
  <2>2. QED
    BY <1>4, <2>1 DEF CreateRequest, WorkInv, ReservedAtWork, AtWork
<1>5. ASSUME NEW w \in Workers, LedgerApply(w) PROVE ReservedAtWork'
  <2> DEFINE e == call[w]
  <2>1. /\ e \in Envelope /\ e.req \in Requests /\ requests[e.req].state = "pending"
        /\ requests' = [requests EXCEPT ![e.req] = Reviewed(@, e)]
        /\ CallFits(w) /\ reply[w] = "sent" /\ reply' = [reply EXCEPT ![w] = "applied"]
    BY <1>5 DEF LedgerApply, Acceptable, TypeInv, LedgerOK, CallsOK, Envelope, WorkInv
  <2>2. /\ requests'[e.req] = Reviewed(requests[e.req], e)
        /\ \A r \in Requests \ {e.req} : requests'[r] = requests[r]
    BY <1>1, <2>1
  <2> DEFINE q == requests[e.req]
  <2>9. /\ e.kind = "reject" => requests'[e.req].state = "rejected"
        /\ e.kind # "reject" => requests'[e.req].tasks = (q.tasks \ e.remove) \cup e.add
    BY <1>1, <2>1, <2>2, ReviewedFields
  <2> HIDE DEF q
  <2> SUFFICES ASSUME NEW r \in Requests, IsReserved(r)' PROVE \E o \in Oracles : AtWork(o, r)'
    BY DEF ReservedAtWork
  <2>3. CASE pc[w] = "approving1" /\ w \in Oracles
    <3>1. e = FirstReviewOf(cur[w]) /\ e.req = cur[w]
      <4>1. call[w] = FirstReviewOf(cur[w])
        BY <2>3 DEF Core, FirstReviewsOK
      <4>2. FirstReviewOf(cur[w]).req = cur[w]
        BY DEF FirstReviewOf, Approve
      <4>3. QED
        BY <4>1, <4>2
    <3>2. CASE r = e.req
      BY <1>1, <2>1, <2>3, <3>1, <3>2 DEF AtWork
    <3>3. CASE r # e.req
      <4>1. requests'[r] = requests[r]
        BY <2>2, <3>3
      <4>2. PICK o \in Oracles : AtWork(o, r)
        BY <4>1 DEF WorkInv, ReservedAtWork, IsReserved
      <4>3. o # w
        BY <3>1, <3>3, <4>2 DEF AtWork
      <4>4. QED
        BY <1>1, <2>1, <4>2, <4>3, WorkersAre DEF AtWork
    <3>4. QED
      BY <3>2, <3>3
  <2>4. CASE pc[w] # "approving1"
    <3>1. taskCheckTxSentSuccess \notin e.add
      BY <2>1, <2>4 DEF CallFits, taskCheckTxConfirmed, taskCheckTxSentSuccess
    <3>2. IsReserved(r)
      BY <2>9, <2>1, <2>2, <3>1 DEF IsReserved, q
    <3>3. PICK o \in Oracles : AtWork(o, r)
      BY <3>2 DEF WorkInv, ReservedAtWork
    <3>4. o # w
      <4>1. ASSUME o = w PROVE FALSE
        <5>1. /\ e.req = r
              /\ \/ e.kind = "reject"
                 \/ e.kind = "approve" /\ e.remove = {taskCheckTxSentSuccess}
          <6>1. cur[w] = r /\ pc[w] \in {"approving2", "rejecting"}
            BY <2>1, <2>4, <3>3, <4>1 DEF AtWork, CallFits
          <6>2. QED
            BY <2>1, <6>1 DEF CallFits
        <5>2. QED
          BY <2>9, <3>1, <5>1 DEF IsReserved
      <4>2. QED
        BY <4>1
    <3>5. QED
      BY <1>1, <2>1, <3>3, <3>4, WorkersAre DEF AtWork
  <2>5. QED
    BY <2>1, <2>3, <2>4 DEF CallFits
<1>6. ASSUME NEW w \in Workers, LedgerRefuse(w) PROVE ReservedAtWork'
  <2>1. /\ requests' = requests /\ reply[w] = "sent" /\ ~Acceptable(call[w]) /\ CallFits(w)
        /\ reply' = [reply EXCEPT ![w] = "refused"]
    BY <1>6 DEF LedgerRefuse, AnswersTrue, WorkInv
  <2> SUFFICES ASSUME NEW r \in Requests, IsReserved(r) PROVE \E o \in Oracles : AtWork(o, r)'
    BY <2>1 DEF ReservedAtWork, IsReserved
  <2>2. PICK o \in Oracles : AtWork(o, r)
    BY DEF WorkInv, ReservedAtWork
  <2>3. o # w
    BY <2>1, <2>2 DEF AtWork, CallFits, Acceptable, IsReserved
  <2>4. QED
    BY <1>1, <2>1, <2>2, <2>3, WorkersAre DEF AtWork
<1>7. QED
  BY <1>2, <1>3, <1>4, <1>5, <1>6 DEF LedgerNext, LateApply, WorkInv

LEMMA InitWork == Init => WorkInv
<1> SUFFICES ASSUME Init PROVE WorkInv
  OBVIOUS
<1>1. /\ \A r \in Requests : requests[r].state = "absent"
      /\ \A w \in Workers : reply[w] = "none"
      /\ delayed = {}
  BY DEF Init, LedgerInit
<1>2. QED
  BY <1>1 DEF WorkInv, ReservedAtWork, IsReserved, CallFits

LEMMA NextWork ==
  ASSUME TypeInv, Core, WorkInv, AnswersTrue, [Next]_vars,
         \A r \in Requests : taskCheckTxSentSuccess \notin InitialTasks[r]
  PROVE  WorkInv'
<1>1. ASSUME NEW i \in Instances, Spawn(i) PROVE WorkInv'
  <2>1. \A w \in Workers : pc[w] # "stopped" => pc'[w] = pc[w]
    BY <1>1 DEF Spawn, Start, Running
  <2>2. \A w \in Workers : CallFits(w)'
    BY <1>1, <2>1 DEF Spawn, Start, ledgerVars, WorkInv, CallFits
  <2>3. ReservedAtWork'
    <3>1. requests' = requests /\ reply' = reply /\ cur' = cur
      BY <1>1 DEF Spawn, Start, ledgerVars
    <3>2. \A o \in Oracles, r \in Requests : AtWork(o, r) => AtWork(o, r)'
      BY <2>1, <3>1, WorkersAre DEF AtWork
    <3>3. QED
      BY <3>1, <3>2 DEF WorkInv, ReservedAtWork, IsReserved
  <2>4. QED
    BY <1>1, <2>2, <2>3 DEF Spawn, Start, ledgerVars, WorkInv
<1>2. ASSUME UNCHANGED ledgerVars, UNCHANGED <<pc, cur>> PROVE WorkInv'
  BY <1>2 DEF ledgerVars, WorkInv, ReservedAtWork, IsReserved, AtWork, CallFits
<1>3. QED
  BY <1>1, <1>2, WorkerWork, LedgerWork, WorkersAre
  DEF Next, Work, Cancel, Crash, AnswersTrue, vars, runnerVars

\* A request with task 4096 always has an oracle at work on it, whatever happens to the
\* transfer, to the node and to the instance: sendWithdraw never returns between its two
\* reviews without having ended the request.  Stated where every review is answered and
\* truthfully, the process does not stop, and no request enters with the task set.
THEOREM ReservedAlwaysHeld ==
  ASSUME AnswersTrue, \A r \in Requests : taskCheckTxSentSuccess \notin InitialTasks[r]
  PROVE  Spec => []ReservedIsHeld
<1>1. Init => TypeInv /\ Core /\ WorkInv
  BY InitTypes, InitCore, InitWork
<1>2. TypeInv /\ Core /\ WorkInv /\ [Next]_vars => TypeInv' /\ Core' /\ WorkInv'
  BY NextTypes, NextCore, NextWork
<1>3. WorkInv => ReservedIsHeld
  BY DEF WorkInv, ReservedAtWork, IsReserved, AtWork, ReservedIsHeld
<1>4. QED
  BY <1>1, <1>2, <1>3, PTL DEF Spec
=============================================================================
