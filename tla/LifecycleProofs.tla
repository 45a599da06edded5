---------------------------- MODULE LifecycleProofs ----------------------------
(***************************************************************************)
(* What becomes of a withdrawal: what is rejected is not paid, and the     *)
(* service implements the life cycle of every request.  Proofs for every   *)
(* set of requests, workers and instances, and every fault but three: a    *)
(* node whose answers get lost and an instance that is cancelled make an   *)
(* oracle reject what it has sent, and a switch of branch takes back the   *)
(* receipt a verifier rejected for.                                        *)
(*                                                                         *)
(* A review may be applied, and a transfer may reach the node, long after  *)
(* it was asked for, so the proof is about what can still be in flight.    *)
(* Every envelope is one of four kinds, and the verifier's approval and any*)
(* rejection are only ever about requests for which they will be right for *)
(* ever: released for good, or unpayable for good.                         *)
(***************************************************************************)
EXTENDS ReservationProofs, PaymentProofs

\* The faults under which the code keeps its promise.
Steady == MaxReorgs = 0 /\ "rpc" \notin Faults /\ "cancel" \notin Faults

\* Task 4096 is gone, for good: only a first review could set it again.
Released == {r \in Requests : Taken(r) /\ taskCheckTxSentSuccess \notin requests[r].tasks}

Unsent(r) == \A t \in txs : t.req # r

\* Nothing of it is paid, or ever will be.
Unpayable ==
  {r \in Requests :
     \/ ~Addressed(r)
     \/ r \in PastRequests /\ Unsent(r)
     \/ r \in Released /\ \/ \E m \in mined : m.tx.req = r /\ m.outcome = "failed"
                          \/ LostTransfer(r)}

SecondReview(e) ==
  /\ e.kind = "approve" /\ e.ext # NoTx
  /\ e.add = {taskCheckTxConfirmed} /\ e.remove = {taskCheckTxSentSuccess}

LastReview(e) ==
  /\ e.kind = "approve" /\ e.req \in Released /\ requests[e.req].ext # NoTx
  /\ e.add = {} /\ e.remove = {taskCheckTxConfirmed}

Legal ==
  {e \in Envelope : \/ e = FirstReviewOf(e.req)
                    \/ SecondReview(e)
                    \/ LastReview(e)
                    \/ e.kind = "reject" /\ e.req \in Unpayable}

EnvelopesLegal ==
  /\ \A w \in Workers : reply[w] # "none" => call[w] \in Legal
  /\ delayed \subseteq Legal

VerifiersReleased ==
  \A v \in Verifiers : /\ todo[v] \subseteq Released
                       /\ pc[v] \notin LoopStates => cur[v] \in Released

RejectedUnpayable == \A r \in Requests : requests[r].state = "rejected" => r \in Unpayable

SentAddressed == \A t \in txs : Addressed(t.req)

\* What is sent and not yet recorded is still reserved.
UnrecordedReserved ==
  \A t \in txs :
    requests[t.req].ext = NoTx => taskCheckTxSentSuccess \in requests[t.req].tasks

\* A transaction is in the pool or in one block.
MinedOnce ==
  /\ pool \cap Mined = {}
  /\ \A m, n \in mined : m.tx = n.tx => m = n

\* A verifier compares heights only for a request with a transaction on record.
ConfirmersRecorded ==
  \A v \in Verifiers : pc[v] = "confirming" => requests[cur[v]].ext # NoTx

CourseInv ==
  /\ EnvelopesLegal /\ VerifiersReleased /\ ConfirmersRecorded
  /\ RejectedUnpayable /\ SentAddressed /\ UnrecordedReserved /\ MinedOnce

\* Everything known of the service so far.
Base == TypeInv /\ Core /\ RecordInv /\ ReserveInv /\ NoncesUnique
-----------------------------------------------------------------------------
(* How the ledger's records change. *)

Creation(r) ==
  /\ requests[r].state = "absent"
  /\ requests' = [requests EXCEPT ![r].state = "pending", ![r].tasks = InitialTasks[r]]

Application(e) ==
  /\ Acceptable(e)
  /\ requests' = [requests EXCEPT ![e.req] = Reviewed(@, e)]

LEMMA RequestsChange ==
  ASSUME TypeInv, EnvelopesLegal, [Next]_vars
  PROVE  \/ requests' = requests
         \/ /\ UNCHANGED <<txs, pool, mined>>
            /\ \/ \E r \in Requests : Creation(r)
               \/ \E e \in Legal : Application(e)
<1>1. ASSUME LedgerNext, UNCHANGED ethVars
      PROVE  \/ requests' = requests
             \/ /\ UNCHANGED <<txs, pool, mined>>
                /\ \/ \E r \in Requests : Creation(r)
                   \/ \E e \in Legal : Application(e)
  <2>1. ASSUME NEW w \in Workers, LedgerApply(w) PROVE \E e \in Legal : Application(e)
    <3>1. call[w] \in Legal
      BY <2>1 DEF LedgerApply, EnvelopesLegal
    <3>2. QED
      BY <2>1, <3>1 DEF LedgerApply, Application
  <2>2. ASSUME NEW e \in delayed, LateApply(e) PROVE \E d \in Legal : Application(d)
    BY <2>2 DEF LateApply, EnvelopesLegal, Application
  <2>3. ASSUME NEW r \in Requests, CreateRequest(r) PROVE Creation(r)
    BY <2>3 DEF CreateRequest, Creation
  <2>4. QED
    BY <1>1, <2>1, <2>2, <2>3 DEF LedgerNext, LedgerRefuse, ethVars
<1>2. QED
  BY <1>1, OracleIsLocal, VerifierIsLocal
  DEF Next, Work, LocalStep, Spawn, Start, Cancel, Crash, vars, ledgerVars

\* Each kind of envelope, by what it does to its request.
LEMMA Effects ==
  ASSUME TypeInv, NEW e \in Legal, Application(e)
  PROVE  LET r == e.req IN
         /\ r \in Requests /\ requests[r].state = "pending"
         /\ \A q \in Requests \ {r} : requests'[q] = requests[q]
         /\ \/ /\ e = FirstReviewOf(r)
               /\ taskTryTransfer \in requests[r].tasks
               /\ taskCheckTxSentSuccess \in requests'[r].tasks
               /\ taskTryTransfer \notin requests'[r].tasks
               /\ requests'[r].state = "pending"
            \/ /\ SecondReview(e)
               /\ taskCheckTxSentSuccess \in requests[r].tasks
               /\ requests'[r].tasks =
                    (requests[r].tasks \ {taskCheckTxSentSuccess}) \cup {taskCheckTxConfirmed}
               /\ requests'[r].state = "pending"
               /\ requests'[r].ext # NoTx
            \/ /\ LastReview(e)
               /\ taskCheckTxConfirmed \in requests[r].tasks
               /\ requests'[r].tasks = requests[r].tasks \ {taskCheckTxConfirmed}
               /\ requests'[r].state \in {"pending", "approved"}
            \/ /\ r \in Unpayable
               /\ requests'[r].tasks = requests[r].tasks
               /\ requests'[r].state = "rejected"
<1> DEFINE r == e.req
           q == requests[r]
           left == (q.tasks \ e.remove) \cup e.add
<1>1. e \in Envelope /\ r \in Requests /\ q \in RequestRecord
  BY DEF Legal, Envelope, TypeInv, LedgerOK, LedgerTypeOK
<1>2. /\ q.state = "pending" /\ e.remove \subseteq q.tasks
      /\ requests' = [requests EXCEPT ![r] = Reviewed(@, e)]
  BY DEF Application, Acceptable
<1>3. /\ requests'[r] = Reviewed(q, e)
      /\ \A p \in Requests \ {r} : requests'[p] = requests[p]
  BY <1>1, <1>2 DEF TypeInv, LedgerOK, LedgerTypeOK
<1> HIDE DEF r, q
<1>4. CASE e = FirstReviewOf(r)
  <2>1. /\ e.kind = "approve" /\ e.add = {taskCheckTxSentSuccess}
        /\ e.remove = {taskTryTransfer}
    BY <1>4, ApproveFields DEF FirstReviewOf
  <2>2. Reviewed(q, e).tasks = left
    BY <1>1, <2>1, ReviewedFields
  <2>3. taskCheckTxSentSuccess \in left /\ taskTryTransfer \notin left
    BY <2>1 DEF taskCheckTxSentSuccess, taskTryTransfer
  <2>4. Reviewed(q, e).state = "pending"
    BY <1>1, <2>1, ReviewedPending
  <2>5. QED
    BY <1>1, <1>2, <1>3, <1>4, <2>1, <2>2, <2>3, <2>4 DEF r, q
<1>5. CASE SecondReview(e)
  <2>1. Reviewed(q, e).tasks = left /\ Reviewed(q, e).state = "pending"
    BY <1>1, <1>5, ReviewedFields, ReviewedPending DEF SecondReview
  <2>2. Reviewed(q, e).ext # NoTx
    <3>1. CASE q.ext # NoTx
      BY <1>1, <3>1, ReviewedKeepsExt
    <3>2. CASE q.ext = NoTx
      BY <1>1, <1>5, <3>2, ReviewedRecords DEF SecondReview
    <3>3. QED
      BY <3>1, <3>2
  <2>3. QED
    BY <1>1, <1>2, <1>3, <1>5, <2>1, <2>2 DEF SecondReview, r, q
<1>6. CASE LastReview(e)
  <2>1. /\ Reviewed(q, e).tasks = left
        /\ Reviewed(q, e).state \in {"pending", "approved"}
    BY <1>1, <1>6, ReviewedFields DEF LastReview
  <2>2. QED
    BY <1>1, <1>2, <1>3, <1>6, <2>1 DEF LastReview, r, q
<1>7. CASE e.kind = "reject" /\ r \in Unpayable
  BY <1>1, <1>2, <1>3, <1>7, ReviewedFields DEF r, q
<1>8. QED
  BY <1>4, <1>5, <1>6, <1>7 DEF Legal, r
-----------------------------------------------------------------------------
(* What is for good. *)

\* Nobody adds task 4096 to a request that is taken.
LEMMA ReleasedStays ==
  ASSUME TypeInv, Core, EnvelopesLegal, [Next]_vars
  PROVE  Released \subseteq Released'
<1> SUFFICES ASSUME NEW r \in Released PROVE r \in Released'
  OBVIOUS
<1>1. r \in Requests /\ Taken(r) /\ taskCheckTxSentSuccess \notin requests[r].tasks
  BY DEF Released
<1>2. Taken(r)'
  BY <1>1, HoldersFrom
<1>3. CASE requests' = requests
  BY <1>1, <1>2, <1>3 DEF Released
<1>4. ASSUME NEW q \in Requests, Creation(q) PROVE requests'[r] = requests[r]
  BY <1>1, <1>4 DEF Creation, Taken, TypeInv, LedgerOK, LedgerTypeOK
<1>5. ASSUME NEW e \in Legal, Application(e)
      PROVE  taskCheckTxSentSuccess \notin requests'[r].tasks
  <2>1. CASE r # e.req
    BY <1>1, <1>5, <2>1, Effects
  <2>2. CASE r = e.req
    BY <1>1, <1>5, <2>2, Effects DEF Taken, taskCheckTxSentSuccess, taskCheckTxConfirmed
  <2>3. QED
    BY <2>1, <2>2
<1>6. QED
  BY <1>1, <1>2, <1>3, <1>4, <1>5, RequestsChange DEF Released

\* A transfer reaches the node from the oracle that holds its request or, late, from a
\* call nobody waits for; either way it is the first of its request.
LEMMA NewTransfer ==
  ASSUME TypeInv, Core, ReserveInv, [Next]_vars, NEW t \in txs' \ txs
  PROVE  /\ t.req \in Requests /\ t.req \notin PastRequests
         /\ Addressed(t.req) /\ (HeldForTransfer(t.req) \/ RejectedForCall(t.req))
         /\ Unsent(t.req) /\ txs' = txs \cup {t} /\ requests' = requests
<1>1. ASSUME NEW o \in Oracles, OracleNext(o)
      PROVE  /\ t.req \in Requests /\ Holds(o, t.req)
             /\ txs' = txs \cup {t} /\ requests' = requests
  <2>1. SendTransaction(o)
    BY <1>1 DEF OracleNext, OracleFetch, RejectDetails, FirstReview, FirstReviewReply,
       RejectTooSmall, GetNonce, NonceFails, SendFails, NodeRefuses, SendReplyLost,
       SendReturns, LastReviewReply, OraclePanics, OracleLoop, ethVars
  <2>2. /\ pc[o] = "send" /\ t = TransferOf(o)
        /\ txs' = txs \cup {t} /\ requests' = requests
    BY <2>1 DEF SendTransaction, NodeAccepts, ledgerVars
  <2>3. cur[o] \in Requests
    BY <2>2, WorkersAre DEF TypeInv, RunnerOK, ItemsOK, LoopStates
  <2>4. QED
    BY <2>2, <2>3 DEF TransferOf, Holds
<1>2. ASSUME NEW o \in Oracles, Holds(o, t.req), t.req \in Requests
      PROVE  /\ t.req \notin PastRequests /\ Addressed(t.req)
             /\ HeldForTransfer(t.req) /\ Unsent(t.req)
  BY <1>2 DEF ReserveInv, HoldersReserved, HoldersAddressed, Holds, PastRequests,
     GivenUpRequests, Core, HeldIsUnsent, Attempts, Unsent
<1>3. ASSUME EthNext, UNCHANGED ledgerVars
      PROVE  t \in late /\ txs' = txs \cup {t} /\ requests' = requests
  BY <1>3 DEF EthNext, ChainNext, MineTransfer, MineOther, Drop, Reorg, LateAccept,
     NodeAccepts, ledgerVars
<1>4. ASSUME t \in late
      PROVE  /\ t.req \in Requests /\ t.req \notin PastRequests /\ Addressed(t.req)
             /\ HeldForTransfer(t.req) \/ RejectedForCall(t.req)
             /\ Unsent(t.req)
  <2>1. \A u \in txs : u.req # t.req
    BY <1>4 DEF Core, AtMostOneAttempt, Attempts, ReserveInv, LateUnsent
  <2>2. t.req \in Requests
    BY <1>4 DEF TypeInv, EthTypeOK, Tx
  <2>3. QED
    BY <1>4, <2>1, <2>2 DEF ReserveInv, LateKept, PastRequests, Unsent
<1>5. QED
  BY <1>1, <1>2, <1>3, <1>4, VerifierIsLocal
  DEF Next, Work, Spawn, Start, Cancel, Crash, vars, ethVars

\* What is past and unsent is never sent.
LEMMA UnsentStays ==
  ASSUME TypeInv, Core, ReserveInv, [Next]_vars, NEW r \in PastRequests, Unsent(r)
  PROVE  Unsent(r)'
BY NewTransfer DEF Unsent

\* A transaction the node lost is lost for good: nothing enters the pool that was sent
\* before, but what a switch of branch takes back.
LEMMA LostStays ==
  ASSUME TypeInv, Core, ReserveInv, [Next]_vars, NEW r, LostTransfer(r)
  PROVE  LostTransfer(r)'
<1>1. PICK t \in txs : t.req = r /\ t \notin pool \cup Mined
  BY DEF LostTransfer
<1> DEFINE Pooled == pool' \cup Mined' \subseteq pool \cup Mined \cup (txs' \ txs)
<1>2. ASSUME NEW u, NodeAccepts(u), u \notin txs PROVE Pooled
  BY <1>2 DEF NodeAccepts, Mined
<1>3. ASSUME NEW u \in pool, NEW outcome \in Outcomes, MineTransfer(u, outcome)
      PROVE  Pooled
  <2>1. \A m \in mined' : m \in mined \/ m.tx = u
    BY <1>3 DEF MineTransfer
  <2>2. QED
    BY <1>3, <2>1 DEF MineTransfer, Mined
<1>4. ASSUME \/ MineOther
             \/ \E u \in pool : Drop(u)
             \/ \E b \in 1 .. head : Reorg(b)
             \/ UNCHANGED <<pool, mined>>
      PROVE  Pooled
  BY <1>4 DEF MineOther, Drop, Reorg, Mined
<1>5. ASSUME NEW o \in Oracles, OracleNext(o) PROVE Pooled
  <2>1. CASE SendTransaction(o)
    <3>1. pc[o] = "send" /\ NodeAccepts(TransferOf(o))
      BY <2>1 DEF SendTransaction
    <3>2. Holds(o, cur[o]) /\ cur[o] \in Requests
      BY <3>1, WorkersAre DEF Holds, TypeInv, RunnerOK, ItemsOK, LoopStates
    <3>3. TransferOf(o) \notin txs
      BY <3>2 DEF Core, HeldIsUnsent, Attempts, TransferOf
    <3>4. QED
      BY <1>2, <3>1, <3>3
  <2>2. CASE ~SendTransaction(o)
    <3>1. UNCHANGED <<pool, mined>>
      BY <1>5, <2>2 DEF OracleNext, OracleFetch, RejectDetails, FirstReview,
         FirstReviewReply, RejectTooSmall, GetNonce, NonceFails, SendFails, NodeRefuses,
         SendReplyLost, SendReturns, LastReviewReply, OraclePanics, OracleLoop, ethVars
    <3>2. QED
      BY <1>4, <3>1
  <2>3. QED
    BY <2>1, <2>2
<1>6. ASSUME NEW u \in late, LateAccept(u) PROVE Pooled
  BY <1>2, <1>6 DEF LateAccept, ReserveInv, LateUnsent
<1>7. ASSUME \/ LedgerNext /\ UNCHANGED ethVars
             \/ \E v \in Verifiers : VerifierNext(v)
             \/ Crash \/ \E i \in Instances : Spawn(i) \/ Cancel(i)
             \/ UNCHANGED vars
      PROVE  UNCHANGED <<pool, mined>>
  BY <1>7, VerifierIsLocal DEF Spawn, Start, Cancel, Crash, vars, ethVars
<1>8. Pooled
  <2> HIDE DEF Pooled
  <2>1. ASSUME EthNext PROVE Pooled
    BY <1>3, <1>4, <1>6, <2>1 DEF EthNext, ChainNext
  <2>2. ASSUME UNCHANGED <<pool, mined>> PROVE Pooled
    BY <1>4, <2>2
  <2>3. QED
    BY <1>5, <1>7, <2>1, <2>2 DEF Next, Work
<1>9. t \in txs'
  BY TxsGrow
<1>10. QED
  BY <1>1, <1>8, <1>9 DEF LostTransfer

LEMMA UnpayableStays ==
  ASSUME TypeInv, Core, ReserveInv, EnvelopesLegal, Steady, [Next]_vars
  PROVE  Unpayable \subseteq Unpayable'
<1> SUFFICES ASSUME NEW r \in Unpayable PROVE r \in Unpayable'
  OBVIOUS
<1>1. CASE ~Addressed(r)
  BY <1>1 DEF Unpayable, Addressed
<1>2. CASE r \in PastRequests /\ Unsent(r)
  BY <1>2, PastStays, UnsentStays DEF Unpayable
<1>3. CASE r \in Released /\ \E m \in mined : m.tx.req = r /\ m.outcome = "failed"
  BY <1>3, ReleasedStays, ChainGrows DEF Unpayable, Steady
<1>4. CASE r \in Released /\ LostTransfer(r)
  BY <1>4, ReleasedStays, LostStays DEF Unpayable
<1>5. QED
  BY <1>1, <1>2, <1>3, <1>4 DEF Unpayable

LEMMA LegalStays ==
  ASSUME TypeInv, Core, ReserveInv, EnvelopesLegal, Steady, [Next]_vars
  PROVE  Legal \subseteq Legal'
<1>1. /\ Released \subseteq Released' /\ Unpayable \subseteq Unpayable'
      /\ \A r \in Requests : requests[r].ext # NoTx => requests'[r].ext # NoTx
      /\ \A e \in Legal : e.req \in Requests
  BY ReleasedStays, UnpayableStays, ExtStays DEF Legal, Envelope
<1>2. QED
  BY <1>1 DEF Legal, FirstReviewOf, Approve, SecondReview, LastReview
-----------------------------------------------------------------------------
(* The records, the chain and the instances. *)

LEMMA RejectedStays ==
  ASSUME TypeInv, Core, ReserveInv, EnvelopesLegal, RejectedUnpayable, Steady, [Next]_vars
  PROVE  RejectedUnpayable'
<1> SUFFICES ASSUME NEW r \in Requests, requests'[r].state = "rejected"
             PROVE  r \in Unpayable
  BY UnpayableStays DEF RejectedUnpayable
<1>1. CASE requests[r].state = "rejected"
  BY <1>1 DEF RejectedUnpayable
<1>2. CASE requests[r].state # "rejected"
  <2>1. ASSUME NEW q \in Requests, Creation(q) PROVE FALSE
    BY <1>2, <2>1 DEF Creation, TypeInv, LedgerOK, LedgerTypeOK, RequestRecord
  <2>2. ASSUME NEW e \in Legal, Application(e) PROVE r \in Unpayable
    BY <1>2, <2>2, Effects
  <2>3. QED
    BY <1>2, <2>1, <2>2, RequestsChange
<1>3. QED
  BY <1>1, <1>2

LEMMA AddressedStays ==
  ASSUME TypeInv, Core, ReserveInv, SentAddressed, [Next]_vars
  PROVE  SentAddressed'
BY NewTransfer DEF SentAddressed, Addressed

LEMMA UnrecordedStays ==
  ASSUME TypeInv, Core, ReserveInv, EnvelopesLegal, UnrecordedReserved, Steady,
         [Next]_vars
  PROVE  UnrecordedReserved'
<1> SUFFICES ASSUME NEW t \in txs', requests'[t.req].ext = NoTx
             PROVE  taskCheckTxSentSuccess \in requests'[t.req].tasks
  BY DEF UnrecordedReserved
<1>1. CASE t \notin txs
  BY <1>1, NewTransfer DEF HeldForTransfer, RejectedForCall, Steady
<1>2. CASE t \in txs
  <2> DEFINE r == t.req
  <2>1. r \in Requests /\ Taken(r)
    BY <1>2 DEF TypeInv, EthTypeOK, Tx, Core, SentIsTaken, Attempts
  <2>2. requests[r].ext = NoTx
    BY <2>1, ExtStays
  <2>3. taskCheckTxSentSuccess \in requests[r].tasks
    BY <1>2, <2>2 DEF UnrecordedReserved
  <2>4. ASSUME NEW q \in Requests, Creation(q) PROVE requests'[r] = requests[r]
    BY <2>1, <2>4 DEF Creation, Taken, TypeInv, LedgerOK, LedgerTypeOK
  <2>5. ASSUME NEW e \in Legal, Application(e)
        PROVE  taskCheckTxSentSuccess \in requests'[r].tasks
    <3>1. CASE r # e.req
      BY <2>1, <2>3, <2>5, <3>1, Effects
    <3>2. CASE r = e.req
      <4>1. ~LastReview(e)
        BY <2>3, <3>2 DEF LastReview, Released
      <4>2. QED
        BY <2>3, <2>5, <3>2, <4>1, Effects
    <3>3. QED
      BY <3>1, <3>2
  <2>6. QED
    BY <2>3, <2>4, <2>5, RequestsChange
<1>3. QED
  BY <1>1, <1>2

LEMMA MinedOnceStays ==
  ASSUME TypeInv, MinedOnce, MaxReorgs = 0, [Next]_vars
  PROVE  MinedOnce'
<1>1. ASSUME NEW t, NodeAccepts(t) PROVE MinedOnce'
  <2>1. t \notin Mined
    BY <1>1 DEF NodeAccepts, UsedNonces
  <2>2. QED
    BY <1>1, <2>1 DEF NodeAccepts, MinedOnce, Mined
<1>2. ASSUME NEW t \in pool, NEW outcome \in Outcomes, MineTransfer(t, outcome)
      PROVE  MinedOnce'
  <2>1. t \notin Mined
    BY DEF MinedOnce
  <2>2. \A m \in mined' : m \in mined \/ m.tx = t
    BY <1>2 DEF MineTransfer
  <2>3. pool' \cap Mined' = {}
    BY <1>2, <2>2 DEF MineTransfer, MinedOnce, Mined
  <2>4. \A m, n \in mined' : m.tx = n.tx => m = n
    BY <1>2, <2>1 DEF MineTransfer, MinedOnce, Mined
  <2>5. QED
    BY <2>3, <2>4 DEF MinedOnce
<1>3. ASSUME \/ MineOther
             \/ \E t \in pool : Drop(t)
             \/ \E b \in 1 .. head : Reorg(b)
             \/ UNCHANGED <<pool, mined>>
      PROVE  MinedOnce'
  BY <1>3 DEF MineOther, Drop, Reorg, MinedOnce, Mined, TypeInv, EthTypeOK
<1>4. ASSUME NEW o \in Oracles, OracleNext(o) PROVE MinedOnce'
  BY <1>1, <1>3, <1>4 DEF OracleNext, OracleFetch, RejectDetails, FirstReview,
     FirstReviewReply, RejectTooSmall, GetNonce, SendTransaction, NonceFails, SendFails,
     NodeRefuses, SendReplyLost, RejectTransferFailed, SendReturns, LastReviewReply,
     OraclePanics, OracleLoop, ethVars
<1>5. ASSUME NEW t \in late, LateAccept(t) PROVE MinedOnce'
  BY <1>1, <1>5 DEF LateAccept
<1>6. QED
  BY <1>2, <1>3, <1>4, <1>5, VerifierIsLocal
  DEF Next, Work, EthNext, ChainNext, Spawn, Start, Cancel, Crash, vars, ethVars

-----------------------------------------------------------------------------
(* The workers: what they submit is legal. *)

LegalStep(w) == UNCHANGED ledgerVars \/ Forget(w) \/ \E e \in Legal' : Submit(w, e)

LEMMA LegalRejection ==
  ASSUME NEW w \in Workers, NEW r \in Requests, NEW reason \in Reasons,
         Submit(w, PermanentReject(r, reason)), r \in Unpayable'
  PROVE  LegalStep(w)
<1> DEFINE e == PermanentReject(r, reason)
<1>1. e \in Envelope /\ e.kind = "reject" /\ e.req = r
  BY RejectType DEF PermanentReject
<1> HIDE DEF e
<1>2. e \in Legal'
  BY <1>1 DEF Legal
<1>3. QED
  BY <1>2 DEF LegalStep, e

LEMMA LegalApproval ==
  ASSUME NEW w \in Workers, NEW r \in Requests, NEW add \in SUBSET Tasks,
         NEW remove \in SUBSET Tasks, NEW ext \in Hash \cup {NoTx},
         Submit(w, Approve(r, add, remove, ext)),
         \/ Approve(r, add, remove, ext) = FirstReviewOf(r)
         \/ /\ add = {taskCheckTxConfirmed} /\ remove = {taskCheckTxSentSuccess}
            /\ ext # NoTx
         \/ /\ add = {} /\ remove = {taskCheckTxConfirmed}
            /\ r \in Released' /\ requests'[r].ext # NoTx
  PROVE  LegalStep(w)
<1> DEFINE e == Approve(r, add, remove, ext)
<1>1. /\ e \in Envelope /\ e.kind = "approve"
      /\ e.req = r /\ e.add = add /\ e.remove = remove /\ e.ext = ext
  BY ApproveType, ApproveFields
<1>2. e = FirstReviewOf(r) \/ SecondReview(e) \/ LastReview(e)'
  <2> HIDE DEF e
  <2>1. QED
    BY <1>1 DEF SecondReview, LastReview, e
<1> HIDE DEF e
<1>3. e \in Legal'
  BY <1>1, <1>2 DEF Legal, FirstReviewOf, Approve, SecondReview
<1>4. QED
  BY <1>3 DEF LegalStep, e

LEMMA OracleLegal ==
  ASSUME Base, CourseInv, Steady, NEW o \in Oracles, OracleNext(o), [Next]_vars
  PROVE  LegalStep(o)
<1> USE DEF Base
<1> o \in Workers
  BY WorkersAre
<1>1. /\ pc \in [Workers -> States] /\ cur \in [Workers -> Requests \cup {0}]
      /\ todo[o] \subseteq Requests /\ nonce \in [Workers -> Nat]
      /\ pc[o] \notin LoopStates => cur[o] \in Requests
  BY DEF TypeInv, RunnerOK, RunnerTypeOK, ItemsOK, States
<1>2. ASSUME NEW r \in todo[o], RejectDetails(o, r) PROVE LegalStep(o)
  <2>1. r \in Unpayable'
    BY <1>1, <1>2 DEF RejectDetails, Unpayable, Addressed
  <2>2. \E reason \in Reasons : Submit(o, PermanentReject(r, reason))
    BY <1>2 DEF RejectDetails, Reasons
  <2>3. QED
    BY <1>1, <2>1, <2>2, LegalRejection
<1>3. ASSUME NEW r \in todo[o], FirstReview(o, r) PROVE LegalStep(o)
  BY <1>1, <1>3, LegalApproval DEF FirstReview, FirstReviewOf, Tasks
<1>4. ASSUME RejectTooSmall(o) \/ NonceFails(o) \/ NodeRefuses(o), ~SendFails(o)
      PROVE  LegalStep(o)
  <2>1. pc[o] \in {"reserved", "send"} /\ pc'[o] = "rejecting" /\ txs' = txs
    BY <1>1, <1>4 DEF RejectTooSmall, NonceFails, NodeRefuses, RejectTransferFailed,
       Goto, ethVars
  <2>2. PICK r \in Requests : r = cur[o]
    BY <1>1, <2>1 DEF LoopStates
  <2>3. \E reason \in Reasons : Submit(o, PermanentReject(r, reason))
    BY <1>4, <2>2 DEF RejectTooSmall, NonceFails, NodeRefuses, RejectTransferFailed,
       Reasons
  <2>4. r \in PastRequests'
    BY <1>4, <2>1, <2>2, GivenUpIsPast DEF ReserveInv
  <2>5. Unsent(r)'
    BY <2>1, <2>2 DEF Core, HeldIsUnsent, Attempts, Holds, Unsent
  <2>6. r \in Unpayable'
    BY <2>4, <2>5 DEF Unpayable
  <2>7. QED
    BY <2>3, <2>6, LegalRejection
<1>5. ~SendFails(o) /\ ~SendReplyLost(o)
  BY InstAssumption DEF SendFails, SendReplyLost, Cancelled, Steady, ReserveInv,
     CancelIsFault
<1>6. ASSUME SendReturns(o) PROVE LegalStep(o)
  <2>1. cur[o] \in Requests
    BY <1>1, <1>6 DEF SendReturns, LoopStates
  <2>2. SentHash(o) \in Hash /\ SentHash(o) # NoTx
    <3>1. TransferOf(o) \in Tx
      BY <1>1, <2>1 DEF TransferOf, Tx
    <3>2. QED
      BY <3>1, HashType, PaymentAssumption DEF SentHash, HashOf, NoTx, Tx
  <2>3. QED
    BY <1>6, <2>1, <2>2, LegalApproval DEF SendReturns, Tasks
<1>7. QED
  BY <1>2, <1>3, <1>4, <1>5, <1>6, RepliesForget
  DEF OracleNext, OracleFetch, FirstReviewReply, GetNonce, SendTransaction,
      LastReviewReply, OraclePanics, OracleLoop, LegalStep

\* A verifier has released requests in hand: one it finds without a transaction was
\* never sent, and one whose transaction failed has no other.
LEMMA VerifierLegal ==
  ASSUME Base, CourseInv, Steady, NEW v \in Verifiers, VerifierNext(v), [Next]_vars
  PROVE  LegalStep(v)
<1> USE DEF Base
<1> v \in Workers
  BY WorkersAre
<1>1. /\ todo[v] \subseteq Requests /\ todo[v] \subseteq Released
      /\ todo[v] \subseteq PastRequests
      /\ pc[v] \notin LoopStates => cur[v] \in Requests /\ cur[v] \in Released
      /\ pc[v] = "confirming" => requests[cur[v]].ext # NoTx
  BY DEF TypeInv, RunnerOK, RunnerTypeOK, ItemsOK, ReserveInv, VerifiersPast, CourseInv,
     VerifiersReleased, ConfirmersRecorded
<1>2. Released \subseteq Released' /\ Unpayable \subseteq Unpayable'
  BY ReleasedStays, UnpayableStays DEF CourseInv
<1>3. ASSUME NEW r \in todo[v], RejectNoHash(v, r) \/ RejectFailedTx(v, r)
      PROVE  LegalStep(v)
  <2>1. ASSUME RejectNoHash(v, r) PROVE r \in Unpayable
    <3>1. Unsent(r)
      BY <1>1, <2>1 DEF RejectNoHash, Unsent, CourseInv, UnrecordedReserved, Released
    <3>2. QED
      BY <1>1, <3>1 DEF Unpayable
  <2>2. ASSUME RejectFailedTx(v, r) PROVE r \in Unpayable
    <3>1. PICK m \in mined : HashOf(m.tx) = requests[r].ext /\ m.outcome = "failed"
      BY <2>2 DEF RejectFailedTx, ReceiptsOf
    <3>2. m.tx.req = r \/ LostTransfer(r)
      BY <1>1, <3>1, MinedAreSent, HashIsOwn DEF RecordInv, Mined
    <3>3. QED
      BY <1>1, <3>1, <3>2 DEF Unpayable
  <2>3. r \in Unpayable
    BY <1>3, <2>1, <2>2
  <2>4. \E reason \in Reasons : Submit(v, PermanentReject(r, reason))
    BY <1>3 DEF RejectNoHash, RejectFailedTx, Rejects, Reasons
  <2>5. QED
    BY <1>1, <1>2, <2>3, <2>4, LegalRejection
<1>4. ASSUME Confirmed(v) PROVE LegalStep(v)
  <2>1. /\ cur[v] \in Requests /\ cur[v] \in Released'
        /\ requests'[cur[v]].ext # NoTx
    BY <1>1, <1>2, <1>4, ExtStays DEF Confirmed, LoopStates
  <2>2. QED
    BY <1>4, <2>1, LegalApproval DEF Confirmed, Approves, Tasks
<1>5. QED
  BY <1>3, <1>4, RepliesForget
  DEF VerifierNext, VerifierItem, VerifierFetch, LeaveForLater, LogPanics, ReceiptFound,
      NotConfirmed, ReviewReply, VerifierPanics, VerifierLoop, LegalStep

LEMMA EnvelopesStayLegal ==
  ASSUME Base, CourseInv, Steady, [Next]_vars
  PROVE  EnvelopesLegal'
<1> USE DEF Base
<1>1. /\ Legal \subseteq Legal'
      /\ reply \in [Workers -> {"none", "sent", "applied", "refused"}]
  BY LegalStays DEF CourseInv, TypeInv, LedgerOK, LedgerTypeOK
<1>2. /\ \A u \in Workers : reply[u] # "none" => call[u] \in Legal
      /\ delayed \subseteq Legal
  BY DEF CourseInv, EnvelopesLegal
<1>3. ASSUME NEW w \in Workers, LegalStep(w) PROVE EnvelopesLegal'
  <2>1. /\ \A u \in Workers : reply'[u] # "none" => call'[u] \in Legal'
        /\ delayed' \subseteq Legal'
    BY <1>1, <1>2, <1>3, EnvelopesStay DEF LegalStep
  <2>2. QED
    BY <2>1 DEF EnvelopesLegal
<1>4. ASSUME LedgerNext PROVE EnvelopesLegal'
  <2>1. /\ call' = call /\ delayed' \subseteq delayed
        /\ \A u \in Workers : reply'[u] # "none" => reply[u] # "none"
    BY <1>1, <1>4 DEF LedgerNext, CreateRequest, LedgerApply, LedgerRefuse, LateApply
  <2>2. QED
    BY <1>1, <1>2, <2>1 DEF EnvelopesLegal
<1>5. ASSUME Crash PROVE EnvelopesLegal'
  <2>1. /\ \A w \in Workers : reply'[w] = "none"
        /\ \A e \in delayed' : e \in delayed \/ \E w \in Workers : reply[w] # "none" /\ e = call[w]
    BY <1>5 DEF Crash
  <2>2. QED
    BY <1>1, <1>2, <2>1 DEF EnvelopesLegal
<1>6. ASSUME UNCHANGED ledgerVars PROVE EnvelopesLegal'
  BY <1>1, <1>2, <1>6 DEF ledgerVars, EnvelopesLegal
<1>7. QED
  BY <1>3, <1>4, <1>5, <1>6, OracleLegal, VerifierLegal, WorkersAre
  DEF Next, Work, Spawn, Start, Cancel, vars
-----------------------------------------------------------------------------
(* What the verifiers have in hand. *)

LEMMA ReleasedKeep ==
  ASSUME TypeInv, Core, EnvelopesLegal, VerifiersReleased, [Next]_vars
  PROVE  VerifiersReleased'
<1>1. Released \subseteq Released'
  BY ReleasedStays
<1>2. /\ pc \in [Workers -> States] /\ cur \in [Workers -> Requests \cup {0}]
      /\ todo \in [Workers -> SUBSET Requests]
  BY DEF TypeInv, RunnerOK, RunnerTypeOK, States
<1> DEFINE Kept(v) == /\ todo'[v] \subseteq Released
                      /\ pc'[v] \notin LoopStates => cur'[v] \in Released
<1> SUFFICES ASSUME NEW v \in Verifiers PROVE Kept(v)
  BY <1>1 DEF VerifiersReleased
<1> v \in Workers /\ v \notin Oracles
  BY WorkersAssumption DEF Workers
<1>3. Filter(v, {taskCheckTxConfirmed}, {taskTryTransfer, taskCheckTxSentSuccess})
        \subseteq Released
  BY DEF Filter, TaskFilter, Released, Taken
<1>4. ASSUME VerifierNext(v) PROVE Kept(v)
  BY <1>3, <1>4, VerifierKeeps DEF VerifiersReleased
<1>5. ASSUME todo'[v] = todo[v], pc'[v] = pc[v], cur'[v] = cur[v] PROVE Kept(v)
  BY <1>5 DEF VerifiersReleased
<1>6. ASSUME NEW w \in Workers \ {v},
             \/ w \in Oracles /\ OracleNext(w)
             \/ w \in Verifiers /\ VerifierNext(w)
      PROVE  Kept(v)
  <2>1. LocalStep(w) /\ todo'[v] = todo[v]
    BY <1>6, OracleIsLocal, VerifierIsLocal, TodoIsLocal
  <2>2. pc'[v] = pc[v] /\ cur'[v] = cur[v]
    BY <2>1 DEF LocalStep
  <2>3. QED
    BY <1>5, <2>1, <2>2
<1>7. ASSUME \/ LedgerNext /\ UNCHANGED <<ethVars, runnerVars, nonce, block>>
             \/ EthNext /\ UNCHANGED <<ledgerVars, runnerVars, nonce, block>>
             \/ UNCHANGED vars
      PROVE  Kept(v)
  BY <1>5, <1>7 DEF runnerVars, vars
<1>8. ASSUME Crash \/ \E i \in Instances : Spawn(i) \/ Cancel(i) PROVE Kept(v)
  <2>1. /\ todo'[v] \subseteq todo[v]
        /\ pc'[v] \in LoopStates \/ (pc'[v] = pc[v] /\ cur'[v] = cur[v])
    BY <1>2, <1>8 DEF Crash, Spawn, Start, Cancel, LoopStates
  <2>2. QED
    BY <2>1 DEF VerifiersReleased
<1>9. QED
  BY <1>4, <1>6, <1>7, <1>8, WorkersAre DEF Next, Work

LEMMA ConfirmersKeep ==
  ASSUME TypeInv, ConfirmersRecorded, [Next]_vars
  PROVE  ConfirmersRecorded'
<1> SUFFICES ASSUME NEW v \in Verifiers, pc'[v] = "confirming"
             PROVE  requests'[cur'[v]].ext # NoTx
  BY DEF ConfirmersRecorded
<1> v \in Workers /\ v \notin Oracles
  BY WorkersAssumption DEF Workers
<1>1. /\ pc \in [Workers -> States] /\ cur \in [Workers -> Requests \cup {0}]
      /\ todo[v] \subseteq Requests
      /\ pc[v] \notin LoopStates => cur[v] \in Requests
  BY DEF TypeInv, RunnerOK, RunnerTypeOK, ItemsOK, States
<1>2. ASSUME pc[v] = "confirming", cur'[v] = cur[v] PROVE requests'[cur'[v]].ext # NoTx
  BY <1>1, <1>2, ExtStays DEF ConfirmersRecorded, LoopStates
<1>3. ASSUME NEW w \in Workers \ {v}, LocalStep(w) PROVE requests'[cur'[v]].ext # NoTx
  BY <1>2, <1>3 DEF LocalStep
<1>4. ASSUME NEW r \in todo[v], ReceiptFound(v, r) PROVE requests'[cur'[v]].ext # NoTx
  <2>1. cur'[v] = r /\ r \in Requests
    BY <1>1, <1>4 DEF ReceiptFound, StartItem
  <2>2. requests[r].ext # NoTx
    BY <1>4, MinedAreSent DEF ReceiptFound, ReceiptsOf
  <2>3. QED
    BY <2>1, <2>2, ExtStays
<1>5. ASSUME VerifierNext(v), \A r \in todo[v] : ~ReceiptFound(v, r) PROVE FALSE
  BY <1>1, <1>5, AfterItemType DEF VerifierNext, VerifierItem, VerifierFetch, Fetch,
     FetchShortPage, FetchFullPage, RejectNoHash, LeaveForLater, RejectFailedTx,
     LogPanics, StartItem, SkipItem, NotConfirmed, Confirmed, Goto, ReviewReply, EndItem,
     VerifierPanics, AbandonPage, VerifierLoop, FetchFails, NilPagePanics, Stop,
     runnerVars, LoopStates
<1>6. ASSUME Crash \/ \E i \in Instances : Spawn(i) \/ Cancel(i)
      PROVE  pc[v] = "confirming" /\ cur'[v] = cur[v]
  BY <1>1, <1>6 DEF Crash, Spawn, Start, Cancel
<1>7. QED
  BY <1>2, <1>3, <1>4, <1>5, <1>6, OracleIsLocal, VerifierIsLocal, WorkersAre
  DEF Next, Work, vars, runnerVars

LEMMA InitBase == Init => Base
BY InitTypes, InitCore, InitRecord, InitReserve, InitNonces DEF Base

LEMMA NextBase ==
  ASSUME Base, [Next]_vars
  PROVE  Base'
BY NextTypes, NextCore, NextRecord, NextReserve, NextNonces DEF Base

LEMMA InitCourse == Init => CourseInv
<1> SUFFICES ASSUME Init PROVE CourseInv
  OBVIOUS
<1>1. /\ \A w \in Workers : pc[w] = "stopped" /\ todo[w] = {} /\ reply[w] = "none"
      /\ delayed = {} /\ \A r \in Requests : requests[r].state = "absent"
      /\ txs = {} /\ pool = {} /\ mined = {}
  BY DEF Init, RunnerInit, LedgerInit, EthInit
<1>2. QED
  BY <1>1, WorkersAre DEF CourseInv, EnvelopesLegal, VerifiersReleased, LoopStates,
     ConfirmersRecorded, RejectedUnpayable, SentAddressed, UnrecordedReserved, MinedOnce,
     Mined

LEMMA NextCourse ==
  ASSUME Base, CourseInv, Steady, [Next]_vars
  PROVE  CourseInv'
BY EnvelopesStayLegal, ReleasedKeep, ConfirmersKeep, RejectedStays, AddressedStays,
   UnrecordedStays, MinedOnceStays DEF Base, CourseInv, Steady

LEMMA CourseIsSafe ==
  ASSUME Base, CourseInv
  PROVE  RejectedNotPaid
<1> SUFFICES ASSUME NEW r \in Requests, requests[r].state = "rejected"
             PROVE  /\ \A t \in pool : t.req # r
                    /\ \A m \in mined : m.tx.req = r => m.outcome = "failed"
  BY DEF RejectedNotPaid
<1>1. r \in Unpayable
  BY DEF CourseInv, RejectedUnpayable
<1>2. pool \subseteq txs /\ \A m \in mined : m.tx \in txs
  BY DEF Base, TypeInv, EthTypeOK, Mined
<1>3. CASE ~Addressed(r) \/ Unsent(r)
  BY <1>2, <1>3 DEF CourseInv, SentAddressed, Unsent
<1>4. ASSUME NEW m \in mined, m.tx.req = r, m.outcome = "failed"
      PROVE  /\ \A t \in pool : t.req # r
             /\ \A n \in mined : n.tx.req = r => n.outcome = "failed"
  <2>1. \A t \in txs : t.req = r => t = m.tx
    BY <1>2, <1>4 DEF Base, Core, AtMostOneAttempt, Attempts
  <2>2. m.tx \notin pool
    BY <1>4 DEF CourseInv, MinedOnce, Mined
  <2>3. \A n \in mined : n.tx.req = r => n = m
    BY <1>2, <2>1 DEF CourseInv, MinedOnce
  <2>4. QED
    BY <1>2, <1>4, <2>1, <2>2, <2>3
<1>5. CASE LostTransfer(r)
  <2>1. PICK u \in txs : u.req = r /\ u \notin pool \cup Mined
    BY <1>5 DEF LostTransfer
  <2>2. \A t \in txs : t.req = r => t = u
    BY <2>1 DEF Base, Core, AtMostOneAttempt, Attempts
  <2>3. QED
    BY <1>2, <2>1, <2>2 DEF Mined
<1>6. QED
  BY <1>1, <1>3, <1>4, <1>5 DEF Unpayable

\* A rejection gives the tokens back on TokenD, and nothing of them is or will be paid
\* on Ethereum: sendWithdraw rejects before it has sent, or what it never sends, and
\* confirmWithdrawSuccessful what was never sent, or has failed in the chain, or was
\* lost by the node before another transaction of the same hash failed.  It holds
\* whatever reviews are lost, late or refused and however often the process crashes,
\* also when a transfer reaches the node after the crash, as long as the answers of the
\* node arrive, no instance is cancelled and the chain keeps its branch.
THEOREM RejectedNeverPaid ==
  ASSUME Steady
  PROVE  Spec => []RejectedNotPaid
<1>1. Init => Base /\ CourseInv
  BY InitBase, InitCourse
<1>2. Base /\ CourseInv /\ [Next]_vars => Base' /\ CourseInv'
  BY NextBase, NextCourse
<1>3. Base /\ CourseInv => RejectedNotPaid
  BY CourseIsSafe
<1>4. QED
  BY <1>1, <1>2, <1>3, PTL DEF Spec
-----------------------------------------------------------------------------
(* The refinement. *)

WasSent(r) == \E t \in txs : t.req = r

LEMMA LifeMoves ==
  ASSUME NEW r \in Requests, NEW from, NEW to, txs' = txs,
         \A q \in Requests \ {r} : requests'[q] = requests[q],
         LifeOf(r) \in from, LifeOf(r)' = to
  PROVE  Lifecycle!Move(r, from, to)
<1>1. \A q \in Requests \ {r} : LifeOf(q)' = LifeOf(q)
  BY DEF LifeOf
<1>2. QED
  BY <1>1 DEF Lifecycle!Move

\* A created request waits for its transfer, or for the verifier alone.
LEMMA CreationRefines ==
  ASSUME TypeInv, NEW r \in Requests, Creation(r), txs' = txs,
         taskCheckTxSentSuccess \notin InitialTasks[r]
  PROVE  Lifecycle!Next
<1>1. /\ requests'[r].state = "pending" /\ requests'[r].tasks = InitialTasks[r]
      /\ \A q \in Requests \ {r} : requests'[q] = requests[q]
      /\ requests[r].state = "absent"
  BY DEF Creation, TypeInv, LedgerOK, LedgerTypeOK, RequestRecord
<1>2. LifeOf(r) = "absent" /\ LifeOf(r)' \in {"open", "recorded"}
  BY <1>1 DEF LifeOf
<1>3. Lifecycle!Create(r)
  BY <1>1, <1>2, LifeMoves DEF Lifecycle!Create
<1>4. QED
  BY <1>3 DEF Lifecycle!Next

\* The reviews reserve, record and settle a request; a rejection ends it.
LEMMA ApplicationRefines ==
  ASSUME Base, CourseInv, Base', NEW e \in Legal, Application(e),
         txs' = txs, mined' = mined
  PROVE  \/ Lifecycle!Next
         \/ \A q \in Requests : LifeOf(q)' = LifeOf(q)
<1> DEFINE r == e.req
<1>1. /\ r \in Requests /\ requests[r].state = "pending"
      /\ \A q \in Requests \ {r} : requests'[q] = requests[q]
  BY Effects DEF Base
<1>2. /\ requests'[r].ext # NoTx => WasSent(r)
      /\ requests[r].ext # NoTx => WasSent(r)
  BY <1>1 DEF Base, RecordInv, RecordedIsSent, WasSent
<1>3. WasSent(r) => taskTryTransfer \notin requests[r].tasks
  BY DEF Base, Core, SentIsTaken, Attempts, Taken, WasSent
<1>4. CASE /\ taskTryTransfer \in requests[r].tasks
           /\ taskCheckTxSentSuccess \in requests'[r].tasks
           /\ taskTryTransfer \notin requests'[r].tasks
           /\ requests'[r].state = "pending"
  <2>1. LifeOf(r) = "open" /\ LifeOf(r)' = "reserved"
    BY <1>1, <1>4 DEF LifeOf
  <2>2. Lifecycle!Reserve(r)
    BY <1>1, <2>1, LifeMoves DEF Lifecycle!Reserve
  <2>3. QED
    BY <1>1, <2>2 DEF Lifecycle!Next
<1>5. CASE /\ taskCheckTxSentSuccess \in requests[r].tasks
           /\ requests'[r].tasks =
                (requests[r].tasks \ {taskCheckTxSentSuccess}) \cup {taskCheckTxConfirmed}
           /\ requests'[r].state = "pending"
           /\ requests'[r].ext # NoTx
  <2>1. WasSent(r) /\ taskTryTransfer \notin requests[r].tasks
    BY <1>2, <1>3, <1>5
  <2>2. /\ taskTryTransfer \notin requests'[r].tasks
        /\ taskCheckTxSentSuccess \notin requests'[r].tasks
    BY <1>5, <2>1 DEF taskTryTransfer, taskCheckTxSentSuccess, taskCheckTxConfirmed
  <2>3. LifeOf(r) = "reserved" /\ LifeOf(r)' = "recorded"
    BY <1>1, <1>5, <2>1, <2>2 DEF LifeOf
  <2>4. Lifecycle!Record(r)
    BY <1>1, <2>1, <2>3, LifeMoves DEF Lifecycle!Record, WasSent
  <2>5. QED
    BY <1>1, <2>4 DEF Lifecycle!Next
<1>6. CASE /\ LastReview(e)
           /\ requests'[r].tasks = requests[r].tasks \ {taskCheckTxConfirmed}
           /\ requests'[r].state \in {"pending", "approved"}
  <2>1. LifeOf(r) = "recorded"
    BY <1>1, <1>6 DEF LastReview, Released, Taken, LifeOf
  <2>2. CASE requests'[r].state = "pending"
    <3>1. LifeOf(r)' = "recorded"
      BY <1>6, <2>2 DEF LastReview, Released, Taken, LifeOf
    <3>2. \A q \in Requests \ {r} : LifeOf(q)' = LifeOf(q)
      BY <1>1 DEF LifeOf
    <3>3. QED
      BY <2>1, <3>1, <3>2
  <2>3. CASE requests'[r].state = "approved"
    <3>1. LifeOf(r)' = "approved" /\ WasSent(r)
      BY <1>2, <1>6, <2>3 DEF LifeOf, LastReview
    <3>2. Lifecycle!Settle(r)
      BY <1>1, <2>1, <3>1, LifeMoves DEF Lifecycle!Settle, WasSent
    <3>3. QED
      BY <1>1, <3>2 DEF Lifecycle!Next
  <2>4. QED
    BY <1>6, <2>2, <2>3
<1>7. CASE r \in Unpayable /\ requests'[r].state = "rejected"
  <2>1. LifeOf(r)' = "rejected" /\ LifeOf(r) \in {"open", "reserved", "recorded"}
    BY <1>1, <1>7 DEF LifeOf
  <2>2. LifeOf(r) # "recorded" => ~WasSent(r)
    BY <1>1, <1>7 DEF Unpayable, Unsent, Released, Taken, LifeOf, CourseInv,
       SentAddressed, WasSent
  <2>3. Lifecycle!Reject(r)
    <3>1. CASE LifeOf(r) = "recorded"
      BY <1>1, <2>1, <3>1, LifeMoves DEF Lifecycle!Reject
    <3>2. CASE LifeOf(r) \in {"open", "reserved"}
      BY <1>1, <2>1, <2>2, <3>2, LifeMoves DEF Lifecycle!Reject, WasSent
    <3>3. QED
      BY <2>1, <3>1, <3>2
  <2>4. QED
    BY <1>1, <2>3 DEF Lifecycle!Next
<1>8. QED
  BY <1>4, <1>5, <1>6, <1>7, Effects DEF Base

\* The money leaves a reserved request, once.
LEMMA SendRefines ==
  ASSUME Base, Steady, [Next]_vars, NEW t \in txs' \ txs
  PROVE  Lifecycle!Next
<1> DEFINE r == t.req
<1>1. /\ r \in Requests /\ HeldForTransfer(r) /\ Unsent(r)
      /\ txs' = txs \cup {t} /\ requests' = requests
  BY NewTransfer DEF Base, Steady, RejectedForCall
<1>2. LifeOf(r) = "reserved"
  BY <1>1 DEF HeldForTransfer, LifeOf
<1>3. ~WasSent(r)
  BY <1>1 DEF Unsent, WasSent
<1>4. \A q \in Requests : LifeOf(q)' = LifeOf(q)
  BY <1>1 DEF LifeOf
<1>5. WasSent(r)' /\ \A q \in Requests \ {r} : WasSent(q)' = WasSent(q)
  BY <1>1 DEF WasSent
<1> HIDE DEF r
<1>6. Lifecycle!Pay(r)
  BY <1>1, <1>2, <1>3, <1>4, <1>5 DEF Lifecycle!Pay, WasSent
<1>7. QED
  BY <1>1, <1>6 DEF Lifecycle!Next

LEMMA InitLives == Init => Lifecycle!Init
<1> SUFFICES ASSUME Init PROVE Lifecycle!Init
  OBVIOUS
<1>1. /\ \A r \in Requests : LifeOf(r) = "absent"
      /\ \A r \in Requests : WasSent(r) = FALSE
  BY DEF Init, LedgerInit, EthInit, LifeOf, WasSent
<1>2. QED
  BY <1>1 DEF Lifecycle!Init, WasSent

LEMMA StepLives ==
  ASSUME Base, CourseInv, Base', Steady, [Next]_vars,
         \A r \in Requests : taskCheckTxSentSuccess \notin InitialTasks[r]
  PROVE  \/ Lifecycle!Next
         \/ /\ \A r \in Requests : LifeOf(r)' = LifeOf(r)
            /\ txs' = txs
<1>1. CASE txs' # txs
  <2>1. PICK t : t \in txs' \ txs
    BY <1>1, TxsGrow
  <2>2. QED
    BY <2>1, SendRefines
<1>2. CASE txs' = txs /\ requests' = requests
  BY <1>2 DEF LifeOf
<1>3. ASSUME NEW r \in Requests, Creation(r), txs' = txs PROVE Lifecycle!Next
  BY <1>3, CreationRefines DEF Base
<1>4. ASSUME NEW e \in Legal, Application(e), txs' = txs, mined' = mined
      PROVE  Lifecycle!Next \/ \A q \in Requests : LifeOf(q)' = LifeOf(q)
  BY <1>4, ApplicationRefines
<1>5. QED
  BY <1>1, <1>2, <1>3, <1>4, RequestsChange DEF Base, CourseInv

\* The service implements the life cycle of every request: each step of any worker,
\* of the ledger, of the chain or of a crash is a step of the life of one request or
\* changes none.  Stated where a request does not enter with task 4096 already set,
\* which no filter of the service would list, and for the faults of RejectedNeverPaid.
THEOREM ServiceImplementsLifecycle ==
  ASSUME Steady, \A r \in Requests : taskCheckTxSentSuccess \notin InitialTasks[r]
  PROVE  Spec => ImplementsLifecycle
<1>1. Init => Base /\ CourseInv
  BY InitBase, InitCourse
<1>2. Base /\ CourseInv /\ [Next]_vars => Base' /\ CourseInv'
  BY NextBase, NextCourse
<1> DEFINE lives == [r \in Requests |-> LifeOf(r)]
           sents == [r \in Requests |-> \E t \in txs : t.req = r]
<1>3. Base /\ CourseInv /\ Base' /\ [Next]_vars => [Lifecycle!Next]_<<lives, sents>>
  BY StepLives
<1>4. QED
  BY <1>1, <1>2, <1>3, InitLives, PTL DEF Spec, ImplementsLifecycle, Lifecycle!Spec
=============================================================================
