-------------------------- MODULE ReservationProofs --------------------------
(***************************************************************************)
(* Tokens leave only for a reserved request: until its transfer reaches    *)
(* the node nobody can approve or reject the request, or take its          *)
(* reservation away, except sendWithdraw itself when its call was cut off. *)
(*                                                                         *)
(* Envelopes travel late and pages are old, so the proof is about what may *)
(* still arrive.  An envelope in flight is one of four kinds: it is a      *)
(* first review, which the ledger refuses while task 2048 is gone; it is   *)
(* about a request that names no address, which nobody sends; it is about  *)
(* a request that is past: taken, held by no oracle and with no transfer   *)
(* under way, for ever; or it is the rejection of a call that was cut off. *)
(***************************************************************************)
EXTENDS RecordProofs

\* Taken, and no oracle may still send them.
GivenUpRequests == {r \in Requests : Taken(r) /\ \A o \in Oracles : ~Holds(o, r)}

\* Nor is a transfer on its way to the node.
PastRequests == {r \in GivenUpRequests : \A t \in late : t.req # r}

Addressed(r) == CreatorDetails[r] \notin {"malformed", "missing"}

HoldersReserved == \A o \in Oracles, r \in Requests : Holds(o, r) => HeldForTransfer(r)

HoldersAddressed ==
  \A o \in Oracles : pc[o] \in {"approving1", "reserved", "send"} => Addressed(cur[o])

CallRejection(e) == /\ e.kind = "reject" /\ e.reason = "Transfer failed"
                    /\ {"rpc", "cancel"} \cap Faults # {}

Harmless == {e \in Envelope : \/ taskTryTransfer \in e.remove
                              \/ ~Addressed(e.req)
                              \/ e.req \in PastRequests
                              \/ e.req \in GivenUpRequests /\ CallRejection(e)}

EnvelopesHarmless ==
  /\ \A w \in Workers : reply[w] # "none" => call[w] \in Harmless
  /\ delayed \subseteq Harmless

\* What a verifier has listed is past, however old its page is.
VerifiersPast ==
  \A v \in Verifiers : /\ todo[v] \subseteq PastRequests
                       /\ pc[v] \notin LoopStates => cur[v] \in PastRequests

\* A transfer under way is of a request held for it, or rejected for its call.
LateKept ==
  \A t \in late : /\ Addressed(t.req)
                  /\ HeldForTransfer(t.req) \/ RejectedForCall(t.req)

\* What reached the node is no longer under way.
LateUnsent == txs \cap late = {}

CancelIsFault == \A i \in Instances : cancelled[i] => "cancel" \in Faults

ReserveInv ==
  /\ HoldersReserved /\ HoldersAddressed /\ EnvelopesHarmless /\ VerifiersPast
  /\ LateKept /\ LateUnsent /\ CancelIsFault
-----------------------------------------------------------------------------
(* Who becomes a holder.  Apart from the ledger's own steps nobody does, and *)
(* no request changes.                                                     *)

QuietStep ==
  /\ requests' = requests
  /\ \A o \in Oracles, r \in Requests : Holds(o, r)' => Holds(o, r)

LEMMA OracleQuietStep ==
  ASSUME TypeInv, Core, NEW o \in Oracles, OracleNext(o)
  PROVE  QuietStep
<1>1. LocalStep(o)
  BY OracleIsLocal
<1>2. \A r \in Requests : Holds(o, r)' => Holds(o, r)
  <2>1. CASE SendTransaction(o) \/ SendFails(o)
    <3>1. pc \in [Workers -> States] /\ o \in Workers
      BY WorkersAre DEF TypeInv, RunnerOK, RunnerTypeOK, States
    <3>2. pc'[o] \in {"sent", "rejecting"}
      BY <2>1, <3>1 DEF SendTransaction, SendFails, RejectTransferFailed, Goto
    <3>3. QED
      BY <3>2 DEF Holds
  <2>2. CASE ~SendTransaction(o) /\ ~SendFails(o)
    BY <2>2, OracleQuiet DEF SelfQuiet
  <2>3. QED
    BY <2>1, <2>2
<1>3. QED
  BY <1>1, <1>2, WorkersAre DEF LocalStep, Holds, QuietStep

LEMMA OtherQuietStep ==
  ASSUME TypeInv,
         \/ \E v \in Verifiers : VerifierNext(v)
         \/ Crash \/ \E i \in Instances : Spawn(i) \/ Cancel(i)
         \/ EthNext /\ UNCHANGED <<ledgerVars, runnerVars, nonce, block>>
         \/ UNCHANGED vars
  PROVE  QuietStep
<1>1. ASSUME NEW v \in Verifiers, VerifierNext(v) PROVE QuietStep
  <2>1. LocalStep(v) /\ Oracles \subseteq Workers \ {v}
    BY <1>1, VerifierIsLocal, WorkersAssumption DEF Workers
  <2>2. QED
    BY <2>1 DEF LocalStep, QuietStep, Holds
<1>2. ASSUME Crash \/ \E i \in Instances : Spawn(i) \/ Cancel(i) PROVE QuietStep
  <2>1. pc \in [Workers -> States] /\ requests' = requests
    BY <1>2 DEF TypeInv, RunnerOK, RunnerTypeOK, States, Crash, Spawn, Start, Cancel, ledgerVars
  <2>2. \A w \in Oracles : \/ pc'[w] \in {"stopped", "wait"}
                           \/ pc'[w] = pc[w] /\ cur' = cur /\ reply' = reply
    BY <1>2, <2>1, WorkersAre DEF Crash, Spawn, Start, Cancel, ledgerVars
  <2>3. QED
    BY <2>1, <2>2 DEF QuietStep, Holds
<1>3. ASSUME \/ EthNext /\ UNCHANGED <<ledgerVars, runnerVars, nonce, block>>
             \/ UNCHANGED vars
      PROVE  QuietStep
  BY <1>3 DEF vars, ledgerVars, runnerVars, QuietStep, Holds
<1>4. QED
  BY <1>1, <1>2, <1>3

\* Only the application of a first review makes a holder, of a free request.
LEMMA NewHolder ==
  ASSUME TypeInv, Core, NEW w \in Workers, LedgerApply(w), UNCHANGED <<pc, cur>>,
         NEW o \in Oracles, NEW r \in Requests, Holds(o, r)', ~Holds(o, r)
  PROVE  /\ o = w /\ pc[w] = "approving1" /\ call[w] = FirstReviewOf(r)
         /\ requests[r].state = "pending" /\ taskTryTransfer \in requests[r].tasks
         /\ requests'[r] = Reviewed(requests[r], FirstReviewOf(r))
<1>1. reply \in [Workers -> {"none", "sent", "applied", "refused"}]
      /\ requests \in [Requests -> RequestRecord]
  BY DEF TypeInv, LedgerOK, LedgerTypeOK
<1>2. o = w /\ pc[w] = "approving1" /\ r = cur[w]
  BY <1>1, WorkersAre DEF LedgerApply, Holds
<1>3. call[w] = FirstReviewOf(r)
  BY <1>2 DEF Core, FirstReviewsOK
<1>4. call[w].req = r /\ call[w].remove = {taskTryTransfer}
  BY <1>3, ApproveFields DEF FirstReviewOf
<1>5. QED
  BY <1>1, <1>2, <1>3, <1>4 DEF LedgerApply, Acceptable

\* What is taken stays taken, and new holders are of requests that were not.
LEMMA HoldersFrom ==
  ASSUME TypeInv, Core, [Next]_vars
  PROVE  /\ \A r \in Requests : Taken(r) => Taken(r)'
         /\ \A o \in Oracles, r \in Requests : Holds(o, r)' => Holds(o, r) \/ ~Taken(r)
<1> DEFINE Goal == /\ \A r \in Requests : Taken(r) => Taken(r)'
                   /\ \A o \in Oracles, r \in Requests :
                        Holds(o, r)' => Holds(o, r) \/ ~Taken(r)
<1>1. ASSUME QuietStep PROVE Goal
  BY <1>1 DEF QuietStep, Taken
<1>2. ASSUME LedgerNext, UNCHANGED <<ethVars, runnerVars, nonce, block>> PROVE Goal
  <2>1. pc' = pc /\ cur' = cur
    BY <1>2 DEF runnerVars
  <2>2. /\ requests \in [Requests -> RequestRecord]
        /\ reply \in [Workers -> {"none", "sent", "applied", "refused"}]
    BY DEF TypeInv, LedgerOK, LedgerTypeOK
  <2>3. ASSUME NEW r \in Requests, CreateRequest(r) PROVE Goal
    BY <2>1, <2>2, <2>3 DEF CreateRequest, Taken, Holds
  <2>4. ASSUME NEW w \in Workers, LedgerApply(w) PROVE Goal
    <3>1. \A r \in Requests : Taken(r) => Taken(r)'
      <4>1. /\ call[w] \in Envelope /\ taskTryTransfer \notin call[w].add
            /\ Acceptable(call[w])
            /\ requests' = [requests EXCEPT ![call[w].req] = Reviewed(@, call[w])]
        BY <2>4 DEF LedgerApply, TypeInv, LedgerOK, CallsOK
      <4>2. QED
        BY <4>1, TakenStays
    <3>2. ASSUME NEW o \in Oracles, NEW r \in Requests, Holds(o, r)'
          PROVE  Holds(o, r) \/ ~Taken(r)
      <4>1. CASE ~Holds(o, r)
        <5>1. taskTryTransfer \in requests[r].tasks
          BY <2>1, <2>4, <3>2, <4>1, NewHolder
        <5>2. QED
          BY <5>1 DEF Taken
      <4>2. QED
        BY <4>1
    <3>3. QED
      BY <3>1, <3>2
  <2>5. ASSUME NEW w \in Workers, LedgerRefuse(w) PROVE Goal
    BY <2>1, <2>2, <2>5 DEF LedgerRefuse, Taken, Holds
  <2>6. ASSUME NEW e \in delayed, LateApply(e) PROVE Goal
    <3>1. e \in Envelope /\ taskTryTransfer \notin e.add
      BY DEF TypeInv, LedgerOK, LedgerTypeOK, CallsOK
    <3>2. \A r \in Requests : Taken(r) => Taken(r)'
      BY <2>6, <3>1, TakenStays DEF LateApply
    <3>3. \A o \in Oracles, r \in Requests : Holds(o, r)' => Holds(o, r)
      BY <2>1, <2>6 DEF LateApply, Holds
    <3>4. QED
      BY <3>2, <3>3
  <2>7. QED
    BY <1>2, <2>3, <2>4, <2>5, <2>6 DEF LedgerNext
<1>3. QED
  BY <1>1, <1>2, OracleQuietStep, OtherQuietStep DEF Next, Work

\* A transfer gets under way, with nobody waiting for it, only from a holder.
LEMMA LateFrom ==
  ASSUME TypeInv, [Next]_vars, NEW t \in late', t \notin late
  PROVE  \E o \in Oracles : /\ pc[o] = "send" /\ t = TransferOf(o)
                            /\ cur[o] \in Requests /\ t.req = cur[o]
                            /\ Holds(o, t.req)
<1>1. ASSUME NEW o \in Oracles, pc[o] = "send", t = TransferOf(o)
      PROVE  cur[o] \in Requests /\ t.req = cur[o] /\ Holds(o, t.req)
  BY <1>1, WorkersAre DEF TypeInv, RunnerOK, ItemsOK, LoopStates, TransferOf, Holds
<1>2. ASSUME NEW o \in Oracles, OracleNext(o)
      PROVE  pc[o] = "send" /\ t = TransferOf(o)
  BY <1>2 DEF OracleNext, OracleFetch, RejectDetails, FirstReview, FirstReviewReply,
     RejectTooSmall, GetNonce, SendTransaction, NonceFails, SendFails, NodeRefuses,
     SendReplyLost, SendReturns, LastReviewReply, OraclePanics, OracleLoop, ethVars
<1>3. ASSUME NEW v \in Verifiers, VerifierNext(v) PROVE FALSE
  BY <1>3, VerifierIsLocal DEF ethVars
<1>4. ASSUME EthNext PROVE FALSE
  BY <1>4 DEF EthNext, ChainNext, MineTransfer, MineOther, Drop, Reorg, LateAccept
<1>5. ASSUME Crash PROVE \E o \in Oracles : pc[o] = "send" /\ t = TransferOf(o)
  BY <1>5 DEF Crash
<1>6. QED
  BY <1>1, <1>2, <1>3, <1>4, <1>5 DEF Next, Work, Spawn, Start, Cancel, vars, ethVars

LEMMA PastStays ==
  ASSUME TypeInv, Core, [Next]_vars
  PROVE  /\ GivenUpRequests \subseteq GivenUpRequests'
         /\ PastRequests \subseteq PastRequests'
<1>1. GivenUpRequests \subseteq GivenUpRequests'
  BY HoldersFrom DEF GivenUpRequests
<1>2. ASSUME NEW r \in PastRequests, NEW t \in late' PROVE t.req # r
  <2>1. CASE t \in late
    BY <2>1 DEF PastRequests
  <2>2. CASE t \notin late
    BY <2>2, LateFrom DEF PastRequests, GivenUpRequests
  <2>3. QED
    BY <2>1, <2>2
<1>3. QED
  BY <1>1, <1>2 DEF PastRequests

LEMMA HarmlessStays ==
  ASSUME TypeInv, Core, [Next]_vars
  PROVE  Harmless \subseteq Harmless'
BY PastStays DEF Harmless, Addressed, CallRejection
-----------------------------------------------------------------------------
(* The ledger's steps: what is held stays reserved. *)

\* A review that leaves tasks leaves the request pending.
LEMMA ReviewedPending ==
  ASSUME NEW q \in RequestRecord, NEW e, e.kind # "reject",
         (q.tasks \ e.remove) \cup e.add # {}
  PROVE  Reviewed(q, e).state = "pending"
<1> DEFINE left == (q.tasks \ e.remove) \cup e.add
           ext == IF q.ext = NoTx THEN e.ext ELSE q.ext
<1>1. Reviewed(q, e) = [q EXCEPT !.tasks = left, !.state = "pending", !.ext = ext]
  BY DEF Reviewed
<1> HIDE DEF left, ext
<1>2. QED
  BY <1>1 DEF RequestRecord

\* No envelope the ledger would accept is about a held request.
LEMMA HarmlessMisses ==
  ASSUME ReserveInv, NEW e \in Harmless, Acceptable(e),
         NEW o \in Oracles, NEW r \in Requests, Holds(o, r)
  PROVE  e.req # r
<1>1. HeldForTransfer(r)
  BY DEF ReserveInv, HoldersReserved
<1>2. Addressed(r)
  BY DEF ReserveInv, HoldersAddressed, Holds
<1>3. r \notin PastRequests /\ r \notin GivenUpRequests
  BY DEF PastRequests, GivenUpRequests
<1>4. QED
  BY <1>1, <1>2, <1>3 DEF Harmless, Acceptable, HeldForTransfer

LEMMA LedgerReserve ==
  ASSUME TypeInv, Core, ReserveInv, LedgerNext, UNCHANGED <<pc, cur>>
  PROVE  HoldersReserved'
<1> SUFFICES ASSUME NEW o \in Oracles, NEW r \in Requests, Holds(o, r)'
             PROVE  HeldForTransfer(r)'
  BY DEF HoldersReserved
<1>1. /\ requests \in [Requests -> RequestRecord]
      /\ reply \in [Workers -> {"none", "sent", "applied", "refused"}]
  BY DEF TypeInv, LedgerOK, LedgerTypeOK
<1>2. ASSUME NEW e \in Harmless, Acceptable(e), Holds(o, r),
             requests' = [requests EXCEPT ![e.req] = Reviewed(@, e)]
      PROVE  HeldForTransfer(r)'
  <2>1. e.req # r /\ HeldForTransfer(r)
    BY <1>2, HarmlessMisses DEF ReserveInv, HoldersReserved
  <2>2. requests'[r] = requests[r]
    BY <1>1, <1>2, <2>1
  <2>3. QED
    BY <2>1, <2>2 DEF HeldForTransfer
<1>3. ASSUME NEW q \in Requests, CreateRequest(q) PROVE HeldForTransfer(r)'
  <2>1. Holds(o, r)
    BY <1>3 DEF CreateRequest, Holds
  <2>2. HeldForTransfer(r)
    BY <2>1 DEF ReserveInv, HoldersReserved
  <2>3. requests'[r] = requests[r]
    BY <1>1, <1>3, <2>2 DEF CreateRequest, HeldForTransfer
  <2>4. QED
    BY <2>2, <2>3 DEF HeldForTransfer
<1>4. ASSUME NEW w \in Workers, LedgerApply(w) PROVE HeldForTransfer(r)'
  <2>1. CASE Holds(o, r)
    <3>1. call[w] \in Harmless
      BY <1>4 DEF LedgerApply, ReserveInv, EnvelopesHarmless
    <3>2. QED
      BY <1>2, <1>4, <2>1, <3>1 DEF LedgerApply
  <2>2. CASE ~Holds(o, r)
    <3>1. requests'[r] = Reviewed(requests[r], FirstReviewOf(r))
      BY <1>4, <2>2, NewHolder
    <3> DEFINE e == FirstReviewOf(r)
               left == (requests[r].tasks \ {taskTryTransfer}) \cup {taskCheckTxSentSuccess}
    <3>2. e.kind = "approve" /\ e.add = {taskCheckTxSentSuccess} /\ e.remove = {taskTryTransfer}
      BY ApproveFields DEF FirstReviewOf
    <3>3. taskCheckTxSentSuccess \in left /\ taskTryTransfer \notin left
      BY DEF taskTryTransfer, taskCheckTxSentSuccess
    <3>4. (requests[r].tasks \ e.remove) \cup e.add = left
      BY <3>2
    <3> HIDE DEF e, left
    <3>5. requests'[r].tasks = left
      <4>1. e.kind # "reject" => Reviewed(requests[r], e).tasks = left
        BY <1>1, <3>4, ReviewedFields
      <4>2. QED
        BY <3>1, <3>2, <4>1 DEF e
    <3>6. requests'[r].state = "pending"
      BY <1>1, <3>1, <3>2, <3>3, <3>4, ReviewedPending DEF e
    <3>7. QED
      BY <3>3, <3>5, <3>6 DEF HeldForTransfer
  <2>3. QED
    BY <2>1, <2>2
<1>5. ASSUME NEW w \in Workers, LedgerRefuse(w) PROVE HeldForTransfer(r)'
  <2>1. Holds(o, r) /\ requests' = requests
    BY <1>1, <1>5 DEF LedgerRefuse, Holds
  <2>2. QED
    BY <2>1 DEF ReserveInv, HoldersReserved, HeldForTransfer
<1>6. ASSUME NEW e \in delayed, LateApply(e) PROVE HeldForTransfer(r)'
  <2>1. Holds(o, r) /\ e \in Harmless
    BY <1>6 DEF LateApply, Holds, ReserveInv, EnvelopesHarmless
  <2>2. QED
    BY <1>2, <1>6, <2>1 DEF LateApply
<1>7. QED
  BY <1>3, <1>4, <1>5, <1>6 DEF LedgerNext

LEMMA RejectedFields ==
  ASSUME NEW q \in RequestRecord, NEW why
  PROVE  LET p == [q EXCEPT !.state = "rejected", !.reason = why] IN
         p.state = "rejected" /\ p.reason = why
BY DEF RequestRecord

\* Of a request whose transfer is under way the ledger applies nothing but the
\* rejection of its call.
LEMMA LateReviewed ==
  ASSUME TypeInv, ReserveInv, NEW e \in Harmless, Acceptable(e),
         requests' = [requests EXCEPT ![e.req] = Reviewed(@, e)], NEW t \in late
  PROVE  HeldForTransfer(t.req)' \/ RejectedForCall(t.req)'
<1>1. /\ requests \in [Requests -> RequestRecord] /\ t.req \in Requests
      /\ e.req \in Requests
  BY DEF TypeInv, LedgerOK, LedgerTypeOK, EthTypeOK, Tx, Harmless, Envelope
<1>2. Addressed(t.req) /\ (HeldForTransfer(t.req) \/ RejectedForCall(t.req))
  BY DEF ReserveInv, LateKept
<1>3. CASE e.req # t.req
  <2>1. requests'[t.req] = requests[t.req]
    BY <1>1, <1>3
  <2>2. QED
    BY <1>2, <2>1 DEF HeldForTransfer, RejectedForCall
<1>4. CASE e.req = t.req
  <2>1. CallRejection(e)
    BY <1>2, <1>4
    DEF Harmless, Acceptable, HeldForTransfer, RejectedForCall, PastRequests
  <2> DEFINE q == requests[t.req]
             p == [q EXCEPT !.state = "rejected", !.reason = e.reason]
  <2>2. requests'[t.req] = p
    BY <1>1, <1>4, <2>1 DEF Reviewed, CallRejection
  <2>3. p.state = "rejected" /\ p.reason = e.reason
    <3>1. q \in RequestRecord
      BY <1>1
    <3> HIDE DEF q
    <3>2. QED
      BY <3>1, RejectedFields
  <2> HIDE DEF p
  <2>4. e.reason = "Transfer failed" /\ {"rpc", "cancel"} \cap Faults # {}
    BY <2>1 DEF CallRejection
  <2>5. QED
    BY <2>2, <2>3, <2>4 DEF RejectedForCall
<1>5. QED
  BY <1>3, <1>4

LEMMA LedgerLate ==
  ASSUME TypeInv, ReserveInv, LedgerNext, late' = late
  PROVE  LateKept'
<1> SUFFICES ASSUME NEW t \in late
             PROVE  HeldForTransfer(t.req)' \/ RejectedForCall(t.req)'
  BY DEF LateKept, ReserveInv, Addressed
<1>1. requests \in [Requests -> RequestRecord] /\ t.req \in Requests
  BY DEF TypeInv, LedgerOK, LedgerTypeOK, EthTypeOK, Tx
<1>2. HeldForTransfer(t.req) \/ RejectedForCall(t.req)
  BY DEF ReserveInv, LateKept
<1>3. ASSUME NEW q \in Requests, CreateRequest(q)
      PROVE  HeldForTransfer(t.req)' \/ RejectedForCall(t.req)'
  <2>1. requests'[t.req] = requests[t.req]
    BY <1>1, <1>2, <1>3 DEF CreateRequest, HeldForTransfer, RejectedForCall
  <2>2. QED
    BY <1>2, <2>1 DEF HeldForTransfer, RejectedForCall
<1>4. ASSUME NEW w \in Workers, LedgerApply(w)
      PROVE  HeldForTransfer(t.req)' \/ RejectedForCall(t.req)'
  <2>1. call[w] \in Harmless
    BY <1>4 DEF LedgerApply, ReserveInv, EnvelopesHarmless
  <2>2. QED
    BY <1>4, <2>1, LateReviewed DEF LedgerApply
<1>5. ASSUME NEW w \in Workers, LedgerRefuse(w)
      PROVE  HeldForTransfer(t.req)' \/ RejectedForCall(t.req)'
  BY <1>2, <1>5 DEF LedgerRefuse, HeldForTransfer, RejectedForCall
<1>6. ASSUME NEW e \in delayed, LateApply(e)
      PROVE  HeldForTransfer(t.req)' \/ RejectedForCall(t.req)'
  BY <1>6, LateReviewed DEF LateApply, ReserveInv, EnvelopesHarmless
<1>7. QED
  BY <1>3, <1>4, <1>5, <1>6 DEF LedgerNext

\* A send that is cut off finds its request held for it.
LEMMA QuietLate ==
  ASSUME TypeInv, ReserveInv, QuietStep, [Next]_vars
  PROVE  LateKept'
<1> SUFFICES ASSUME NEW t \in late'
             PROVE  /\ Addressed(t.req)
                    /\ HeldForTransfer(t.req) \/ RejectedForCall(t.req)
  BY DEF LateKept, Addressed, QuietStep, HeldForTransfer, RejectedForCall
<1>1. CASE t \in late
  BY <1>1 DEF ReserveInv, LateKept
<1>2. CASE t \notin late
  BY <1>2, LateFrom DEF ReserveInv, HoldersReserved, HoldersAddressed
<1>3. QED
  BY <1>1, <1>2

LEMMA NextLateUnsent ==
  ASSUME TypeInv, Core, LateUnsent, [Next]_vars
  PROVE  LateUnsent'
<1>1. ASSUME NEW o \in Oracles, NEW t \in late', t \notin late PROVE t \notin txs
  BY <1>1, LateFrom DEF Core, HeldIsUnsent, Attempts
<1>2. ASSUME NEW o \in Oracles, SendTransaction(o) PROVE LateUnsent'
  <2>1. /\ pc[o] = "send" /\ txs' = txs \cup {TransferOf(o)} /\ late' = late
    BY <1>2 DEF SendTransaction, NodeAccepts
  <2>2. Holds(o, cur[o]) /\ cur[o] \in Requests
    BY <2>1, WorkersAre DEF Holds, TypeInv, RunnerOK, ItemsOK, LoopStates
  <2>3. TransferOf(o) \notin late
    BY <2>2 DEF Core, HeldIsUnsent, Attempts, TransferOf
  <2>4. QED
    BY <2>1, <2>3 DEF LateUnsent
<1>3. ASSUME NEW t \in late, LateAccept(t) PROVE LateUnsent'
  BY <1>3 DEF LateAccept, NodeAccepts, LateUnsent
<1>4. ASSUME txs' = txs PROVE LateUnsent'
  BY <1>1, <1>4, LateFrom DEF LateUnsent, Core, HeldIsUnsent, Attempts
<1>5. ASSUME NEW o \in Oracles, OracleNext(o), ~SendTransaction(o) PROVE txs' = txs
  BY <1>5 DEF OracleNext, OracleFetch, RejectDetails, FirstReview, FirstReviewReply,
     RejectTooSmall, GetNonce, NonceFails, SendFails, NodeRefuses, SendReplyLost,
     SendReturns, LastReviewReply, OraclePanics, OracleLoop, ethVars
<1>6. ASSUME NEW v \in Verifiers, VerifierNext(v) PROVE txs' = txs
  BY <1>6, VerifierIsLocal DEF ethVars
<1>7. ASSUME ChainNext PROVE txs' = txs
  BY <1>7 DEF ChainNext, MineTransfer, MineOther, Drop, Reorg
<1>8. QED
  BY <1>2, <1>3, <1>4, <1>5, <1>6, <1>7
  DEF Next, Work, EthNext, Spawn, Start, Cancel, Crash, vars, ethVars

LEMMA NextCancelIsFault ==
  ASSUME TypeInv, CancelIsFault, [Next]_vars
  PROVE  CancelIsFault'
<1>1. cancelled \in [Instances -> BOOLEAN]
  BY DEF TypeInv, RunnerOK, RunnerTypeOK
<1>2. ASSUME NEW o \in Oracles, OracleNext(o) PROVE cancelled' = cancelled
  BY <1>2 DEF OracleNext, OracleFetch, RejectDetails, FirstReview, FirstReviewReply,
     RejectTooSmall, GetNonce, SendTransaction, NonceFails, SendFails, NodeRefuses,
     SendReplyLost, RejectTransferFailed, SendReturns, LastReviewReply, OraclePanics,
     OracleLoop, Fetch, FetchShortPage, FetchFullPage, FetchFails, NilPagePanics, Stop,
     runnerVars, StartItem, Goto, SkipItem, EndItem, AbandonPage
<1>3. ASSUME NEW v \in Verifiers, VerifierNext(v) PROVE cancelled' = cancelled
  BY <1>3 DEF VerifierNext, VerifierItem, VerifierFetch, RejectNoHash, LeaveForLater,
     RejectFailedTx, LogPanics, ReceiptFound, NotConfirmed, Confirmed, ReviewReply,
     VerifierPanics, VerifierLoop, Fetch, FetchShortPage, FetchFullPage, FetchFails,
     NilPagePanics, Stop, runnerVars, StartItem, Goto, SkipItem, EndItem, AbandonPage
<1>4. ASSUME NEW i \in Instances, Spawn(i) PROVE CancelIsFault'
  BY <1>1, <1>4 DEF Spawn, Start, CancelIsFault
<1>5. ASSUME NEW i \in Instances, Cancel(i) PROVE CancelIsFault'
  BY <1>1, <1>5 DEF Cancel, CancelIsFault
<1>6. QED
  BY <1>2, <1>3, <1>4, <1>5 DEF Next, Work, CancelIsFault, Crash, vars, runnerVars
-----------------------------------------------------------------------------
(* The workers' steps: what they submit is harmless. *)

HarmlessStep(w) ==
  \/ UNCHANGED ledgerVars
  \/ Forget(w)
  \/ \E e \in Harmless' : Submit(w, e)

LEMMA HarmlessStepKeeps ==
  ASSUME TypeInv, Core, ReserveInv, [Next]_vars, NEW w \in Workers, HarmlessStep(w)
  PROVE  EnvelopesHarmless'
<1>1. Harmless \subseteq Harmless'
  BY HarmlessStays
<1>2. /\ \A u \in Workers : reply[u] # "none" => call[u] \in Harmless
      /\ delayed \subseteq Harmless
  BY DEF ReserveInv, EnvelopesHarmless
<1>3. /\ \A u \in Workers : reply'[u] # "none" => call'[u] \in Harmless'
      /\ delayed' \subseteq Harmless'
  BY <1>1, <1>2, EnvelopesStay DEF HarmlessStep
<1>4. QED
  BY <1>3 DEF EnvelopesHarmless

LEMMA LedgerHarmless ==
  ASSUME TypeInv, Core, ReserveInv, LedgerNext, [Next]_vars
  PROVE  EnvelopesHarmless'
<1>1. reply \in [Workers -> {"none", "sent", "applied", "refused"}]
  BY DEF TypeInv, LedgerOK, LedgerTypeOK
<1>2. /\ call' = call /\ delayed' \subseteq delayed
      /\ \A u \in Workers : reply'[u] # "none" => reply[u] # "none"
  BY <1>1 DEF LedgerNext, CreateRequest, LedgerApply, LedgerRefuse, LateApply
<1>3. QED
  BY <1>2, HarmlessStays DEF ReserveInv, EnvelopesHarmless
-----------------------------------------------------------------------------
(* The oracles. *)

\* A worker's step leaves the pages of the others alone.
LEMMA TodoIsLocal ==
  ASSUME TypeInv, NEW w \in Workers,
         \/ w \in Oracles /\ OracleNext(w)
         \/ w \in Verifiers /\ VerifierNext(w)
  PROVE  \A v \in Workers \ {w} : todo'[v] = todo[v]
<1>1. todo \in [Workers -> SUBSET Requests]
  BY DEF TypeInv, RunnerOK, RunnerTypeOK
<1> DEFINE Same == \A v \in Workers \ {w} : todo'[v] = todo[v]
<1>2. /\ \A matching : Fetch(w, matching) => Same
      /\ FetchFails(w) \/ NilPagePanics(w) \/ Stop(w) => Same
      /\ \A r, next : StartItem(w, r, next) => Same
      /\ \A next : Goto(w, next) => Same
      /\ \A r : SkipItem(w, r) => Same
      /\ EndItem(w) \/ AbandonPage(w) => Same
  BY <1>1 DEF Fetch, FetchShortPage, FetchFullPage, FetchFails, NilPagePanics, Stop,
     runnerVars, StartItem, Goto, SkipItem, EndItem, AbandonPage
<1> HIDE DEF Same
<1>3. OracleNext(w) => Same
  BY <1>2 DEF OracleNext, OracleFetch, RejectDetails, FirstReview, FirstReviewReply,
     RejectTooSmall, GetNonce, SendTransaction, NonceFails, SendFails, NodeRefuses,
     SendReplyLost, RejectTransferFailed, SendReturns, LastReviewReply, OraclePanics,
     OracleLoop
<1>4. VerifierNext(w) => Same
  BY <1>2 DEF VerifierNext, VerifierItem, VerifierFetch, RejectNoHash, LeaveForLater,
     RejectFailedTx, LogPanics, ReceiptFound, NotConfirmed, Confirmed, ReviewReply,
     VerifierPanics, VerifierLoop
<1>5. QED
  BY <1>3, <1>4 DEF Same

LEMMA QuietReserved ==
  ASSUME ReserveInv, QuietStep
  PROVE  HoldersReserved'
BY DEF ReserveInv, QuietStep, HoldersReserved, HeldForTransfer

\* Only a first review leads towards a transfer, and it has an address.
LEMMA OracleAddressed ==
  ASSUME TypeInv, ReserveInv, NEW o \in Oracles, OracleNext(o)
  PROVE  HoldersAddressed'
<1> DEFINE Sending == {"approving1", "reserved", "send"}
<1>1. o \in Workers /\ LocalStep(o)
  BY WorkersAre, OracleIsLocal
<1>2. pc \in [Workers -> States] /\ cur \in [Workers -> Requests \cup {0}]
  BY DEF TypeInv, RunnerOK, RunnerTypeOK, States
<1>3. pc'[o] \in Sending => Addressed(cur'[o])
  <2>1. ASSUME NEW r \in todo[o], FirstReview(o, r) PROVE Addressed(cur'[o])
    BY <1>1, <1>2, <2>1 DEF FirstReview, StartItem, Addressed
  <2>2. CASE \A r \in todo[o] : ~FirstReview(o, r)
    <3>1. pc'[o] \in Sending => pc[o] \in Sending /\ cur'[o] = cur[o]
      BY <1>1, <1>2, <2>2, AfterItemType DEF OracleNext, OracleFetch, Fetch,
         FetchShortPage, FetchFullPage, RejectDetails, StartItem, FirstReviewReply, Goto,
         EndItem, RejectTooSmall, GetNonce, SendTransaction, NonceFails, SendFails,
         NodeRefuses, SendReplyLost, RejectTransferFailed, SendReturns, LastReviewReply,
         OraclePanics, AbandonPage, OracleLoop, FetchFails, NilPagePanics, Stop,
         runnerVars, LoopStates
    <3>2. QED
      BY <3>1 DEF ReserveInv, HoldersAddressed
  <2>3. QED
    BY <2>1, <2>2
<1>4. \A p \in Oracles \ {o} : pc'[p] = pc[p] /\ cur'[p] = cur[p]
  BY <1>1, WorkersAre DEF LocalStep
<1>5. QED
  BY <1>3, <1>4 DEF ReserveInv, HoldersAddressed, Addressed

\* What an oracle gives up, or has sent, is given up for ever; and past, unless its
\* send was cut off.
LEMMA GivenUpIsPast ==
  ASSUME TypeInv, Core, RecordInv, LateUnsent, NEW o \in Oracles, OracleNext(o),
         [Next]_vars,
         pc[o] \in {"reserved", "send", "sent"}, pc'[o] \in {"rejecting", "approving2"}
  PROVE  /\ cur[o] \in Requests /\ cur[o] \in GivenUpRequests'
         /\ SendFails(o) \/ cur[o] \in PastRequests'
<1>1. PICK r \in Requests : r = cur[o]
  BY WorkersAre DEF TypeInv, RunnerOK, ItemsOK, LoopStates
<1>2. CASE pc[o] \in {"reserved", "send"}
  <2>1. Holds(o, r) /\ ~Holds(o, r)'
    BY <1>1, <1>2 DEF Holds
  <2>2. /\ Taken(r) /\ \A p \in Oracles : Holds(p, r) => p = o
        /\ \A t \in late : t.req # r
    BY <1>1, <2>1 DEF Core, HeldIsUnsent, OneHolder, Attempts
  <2>3. QuietStep
    BY OracleQuietStep
  <2>4. r \in GivenUpRequests'
    BY <1>1, <2>1, <2>2, <2>3 DEF QuietStep, GivenUpRequests, Taken
  <2>5. SendFails(o) \/ late' = late
    BY DEF OracleNext, OracleFetch, RejectDetails, FirstReview, FirstReviewReply,
       RejectTooSmall, GetNonce, SendTransaction, NonceFails, NodeRefuses,
       SendReplyLost, SendReturns, LastReviewReply, OraclePanics, OracleLoop, ethVars
  <2>6. QED
    BY <1>1, <2>2, <2>4, <2>5 DEF PastRequests
<1>3. CASE pc[o] = "sent"
  <2>1. TransferOf(o) \in txs /\ TransferOf(o).req = r
    BY <1>1, <1>3 DEF RecordInv, SentIsTransfer, TransferOf
  <2>2. \A t \in late : t.req # r
    BY <2>1 DEF Core, AtMostOneAttempt, Attempts, LateUnsent
  <2>3. r \in PastRequests
    BY <1>1, <2>1, <2>2
    DEF Core, SentIsTaken, HeldIsUnsent, Attempts, GivenUpRequests, PastRequests
  <2>4. QED
    BY <1>1, <2>3, PastStays DEF PastRequests
<1>4. QED
  BY <1>2, <1>3

\* A review that is harmless for one of the three reasons.
LEMMA HarmlessReview ==
  ASSUME NEW w \in Workers, NEW e \in Envelope, Submit(w, e),
         \/ taskTryTransfer \in e.remove
         \/ ~Addressed(e.req)
         \/ e.req \in PastRequests'
         \/ e.req \in GivenUpRequests' /\ CallRejection(e)
  PROVE  HarmlessStep(w)
<1>1. e \in Harmless'
  BY DEF Harmless, Addressed, CallRejection
<1>2. QED
  BY <1>1 DEF HarmlessStep

LEMMA HarmlessRejection ==
  ASSUME NEW w \in Workers, NEW r \in Requests, NEW reason \in Reasons,
         Submit(w, PermanentReject(r, reason)),
         \/ ~Addressed(r)
         \/ r \in PastRequests'
         \/ /\ r \in GivenUpRequests' /\ reason = "Transfer failed"
            /\ {"rpc", "cancel"} \cap Faults # {}
  PROVE  HarmlessStep(w)
<1> DEFINE e == PermanentReject(r, reason)
<1>1. e \in Envelope /\ e.req = r /\ e.kind = "reject" /\ e.reason = reason
  BY RejectType DEF PermanentReject
<1> HIDE DEF e
<1>2. Submit(w, e)
  BY DEF e
<1>3. QED
  BY <1>1, <1>2, HarmlessReview DEF CallRejection

LEMMA HarmlessApproval ==
  ASSUME NEW w \in Workers, NEW r \in Requests, NEW add \in SUBSET Tasks,
         NEW remove \in SUBSET Tasks, NEW ext \in Hash \cup {NoTx},
         Submit(w, Approve(r, add, remove, ext)),
         taskTryTransfer \in remove \/ r \in PastRequests'
  PROVE  HarmlessStep(w)
<1> DEFINE e == Approve(r, add, remove, ext)
<1>1. e \in Envelope /\ e.req = r /\ e.remove = remove
  BY ApproveType, ApproveFields
<1> HIDE DEF e
<1>2. Submit(w, e)
  BY DEF e
<1>3. QED
  BY <1>1, <1>2, HarmlessReview

LEMMA OracleHarmless ==
  ASSUME TypeInv, Core, RecordInv, ReserveInv, NEW o \in Oracles, OracleNext(o),
         [Next]_vars
  PROVE  HarmlessStep(o)
<1> o \in Workers
  BY WorkersAre
<1>1. /\ pc \in [Workers -> States] /\ cur \in [Workers -> Requests \cup {0}]
      /\ todo[o] \subseteq Requests /\ nonce \in [Workers -> Nat]
  BY DEF TypeInv, RunnerOK, RunnerTypeOK, States
<1>2. ASSUME NEW r \in todo[o], RejectDetails(o, r) PROVE HarmlessStep(o)
  <2>1. ~Addressed(r)
    BY <1>2 DEF RejectDetails, Addressed
  <2>2. \E reason \in Reasons : Submit(o, PermanentReject(r, reason))
    BY <1>2 DEF RejectDetails, Reasons
  <2>3. QED
    BY <1>1, <2>1, <2>2, HarmlessRejection
<1>3. ASSUME NEW r \in todo[o], FirstReview(o, r) PROVE HarmlessStep(o)
  BY <1>1, <1>3, HarmlessApproval DEF FirstReview, Tasks
<1>4. ASSUME RejectTooSmall(o) \/ NonceFails(o) \/ NodeRefuses(o) \/ SendReplyLost(o),
             ~SendFails(o)
      PROVE  HarmlessStep(o)
  <2>1. pc[o] \in {"reserved", "send", "sent"} /\ pc'[o] = "rejecting"
    BY <1>1, <1>4 DEF RejectTooSmall, NonceFails, NodeRefuses, SendReplyLost,
       RejectTransferFailed, Goto
  <2>2. \E reason \in Reasons : Submit(o, PermanentReject(cur[o], reason))
    BY <1>4 DEF RejectTooSmall, NonceFails, NodeRefuses, SendReplyLost,
       RejectTransferFailed, Reasons
  <2>3. cur[o] \in Requests /\ cur[o] \in PastRequests'
    BY <1>4, <2>1, GivenUpIsPast DEF ReserveInv
  <2>4. QED
    BY <2>2, <2>3, HarmlessRejection
<1>5. ASSUME SendReturns(o) PROVE HarmlessStep(o)
  <2>1. pc[o] = "sent" /\ pc'[o] = "approving2"
    BY <1>1, <1>5 DEF SendReturns, Goto
  <2>2. cur[o] \in Requests /\ cur[o] \in PastRequests'
    BY <2>1, GivenUpIsPast DEF ReserveInv, SendFails
  <2>3. SentHash(o) \in Hash
    BY <1>1, <2>2, HashType DEF SentHash, TransferOf, Tx
  <2>4. QED
    BY <1>5, <2>2, <2>3, HarmlessApproval DEF SendReturns, Tasks
<1>6. ASSUME SendFails(o) PROVE HarmlessStep(o)
  <2>1. pc[o] = "send" /\ pc'[o] = "rejecting"
    BY <1>1, <1>6 DEF SendFails, RejectTransferFailed, Goto
  <2>2. Submit(o, PermanentReject(cur[o], "Transfer failed"))
    BY <1>6 DEF SendFails, RejectTransferFailed
  <2>3. cur[o] \in Requests /\ cur[o] \in GivenUpRequests'
    BY <2>1, GivenUpIsPast DEF ReserveInv
  <2>4. {"rpc", "cancel"} \cap Faults # {}
    BY <1>6, InstAssumption DEF SendFails, Cancelled, ReserveInv, CancelIsFault
  <2>5. QED
    BY <2>2, <2>3, <2>4, HarmlessRejection DEF Reasons
<1>7. QED
  BY <1>2, <1>3, <1>4, <1>5, <1>6, RepliesForget
  DEF OracleNext, OracleFetch, FirstReviewReply, GetNonce, SendTransaction,
      LastReviewReply, OraclePanics, OracleLoop, HarmlessStep

LEMMA OracleReserve ==
  ASSUME TypeInv, Core, RecordInv, ReserveInv, NEW o \in Oracles, OracleNext(o),
         [Next]_vars
  PROVE  ReserveInv'
<1> o \in Workers
  BY WorkersAre
<1>1. HoldersReserved'
  BY OracleQuietStep, QuietReserved
<1>2. HoldersAddressed'
  BY OracleAddressed
<1>3. EnvelopesHarmless'
  BY OracleHarmless, HarmlessStepKeeps
<1>4. VerifiersPast'
  <2>1. \A v \in Verifiers : v \in Workers \ {o}
    BY WorkersAssumption DEF Workers
  <2>2. \A v \in Verifiers : todo'[v] = todo[v] /\ pc'[v] = pc[v] /\ cur'[v] = cur[v]
    BY <2>1, OracleIsLocal, TodoIsLocal DEF LocalStep
  <2>3. QED
    BY <2>2, PastStays DEF ReserveInv, VerifiersPast
<1>5. LateKept' /\ LateUnsent' /\ CancelIsFault'
  BY OracleQuietStep, QuietLate, NextLateUnsent, NextCancelIsFault DEF ReserveInv
<1>6. QED
  BY <1>1, <1>2, <1>3, <1>4, <1>5 DEF ReserveInv
-----------------------------------------------------------------------------
(* The verifiers. *)

\* A request the verifier lists has lost task 4096, so no oracle holds it.
LEMMA ListedIsPast ==
  ASSUME ReserveInv, NEW v
  PROVE  Filter(v, {taskCheckTxConfirmed}, {taskTryTransfer, taskCheckTxSentSuccess})
           \subseteq PastRequests
BY DEF Filter, TaskFilter, ReserveInv, HoldersReserved, HeldForTransfer, LateKept,
   RejectedForCall, GivenUpRequests, PastRequests, Taken

\* Whatever a verifier has in hand after its step it had listed before, so it has what
\* every listed request has.
LEMMA VerifierKeeps ==
  ASSUME TypeInv, NEW v \in Verifiers, VerifierNext(v), NEW S,
         todo[v] \subseteq S,
         pc[v] \notin LoopStates => cur[v] \in S,
         Filter(v, {taskCheckTxConfirmed}, {taskTryTransfer, taskCheckTxSentSuccess})
           \subseteq S
  PROVE  /\ todo'[v] \subseteq S
         /\ pc'[v] \notin LoopStates => cur'[v] \in S
<1> v \in Workers
  BY WorkersAre
<1>1. /\ pc \in [Workers -> States] /\ cur \in [Workers -> Requests \cup {0}]
      /\ todo \in [Workers -> SUBSET Requests]
  BY DEF TypeInv, RunnerOK, RunnerTypeOK, States
<1> DEFINE Kept == /\ todo'[v] \subseteq S
                   /\ pc'[v] \notin LoopStates => cur'[v] \in S
<1>2. ASSUME VerifierFetch(v) PROVE Kept
  <2> DEFINE listed ==
        Filter(v, {taskCheckTxConfirmed}, {taskTryTransfer, taskCheckTxSentSuccess})
  <2>1. Fetch(v, listed)
    BY <1>2 DEF VerifierFetch
  <2> HIDE DEF listed
  <2>2. todo'[v] \subseteq listed /\ pc'[v] \in LoopStates
    BY <1>1, <2>1 DEF Fetch, FetchShortPage, FetchFullPage, Page, LoopStates
  <2>3. QED
    BY <2>2 DEF listed
<1>3. ASSUME NEW r \in todo[v], NEW next, StartItem(v, r, next) PROVE Kept
  BY <1>1, <1>3 DEF StartItem
<1>4. ASSUME NEW r \in todo[v], SkipItem(v, r) PROVE Kept
  BY <1>1, <1>4, AfterItemType DEF SkipItem
<1>5. ASSUME EndItem(v) \/ AbandonPage(v) PROVE Kept
  BY <1>1, <1>5, AfterItemType DEF EndItem, AbandonPage, LoopStates
<1>6. ASSUME NEW next, pc[v] \notin LoopStates, Goto(v, next) PROVE Kept
  BY <1>1, <1>6 DEF Goto
<1>7. ASSUME FetchFails(v) \/ NilPagePanics(v) \/ Stop(v) PROVE Kept
  BY <1>1, <1>7 DEF FetchFails, NilPagePanics, Stop, runnerVars, LoopStates
<1> HIDE DEF Kept
<1>8. Kept
  BY <1>2, <1>3, <1>4, <1>5, <1>6, <1>7
  DEF VerifierNext, VerifierItem, RejectNoHash, LeaveForLater, RejectFailedTx, LogPanics,
      ReceiptFound, NotConfirmed, Confirmed, ReviewReply, VerifierPanics, VerifierLoop,
      LoopStates
<1>9. QED
  BY <1>8 DEF Kept

LEMMA VerifierPast ==
  ASSUME TypeInv, ReserveInv, NEW v \in Verifiers, VerifierNext(v)
  PROVE  /\ todo'[v] \subseteq PastRequests
         /\ pc'[v] \notin LoopStates => cur'[v] \in PastRequests
BY VerifierKeeps, ListedIsPast DEF ReserveInv, VerifiersPast

LEMMA VerifierHarmless ==
  ASSUME TypeInv, Core, ReserveInv, NEW v \in Verifiers, VerifierNext(v), [Next]_vars
  PROVE  HarmlessStep(v)
<1> v \in Workers
  BY WorkersAre
<1>1. /\ todo[v] \subseteq Requests /\ todo[v] \subseteq PastRequests'
      /\ pc[v] \notin LoopStates => cur[v] \in Requests /\ cur[v] \in PastRequests'
  BY PastStays DEF TypeInv, RunnerOK, RunnerTypeOK, ItemsOK, ReserveInv, VerifiersPast
<1>2. ASSUME NEW r \in todo[v], RejectNoHash(v, r) \/ RejectFailedTx(v, r)
      PROVE  HarmlessStep(v)
  <2>1. \E reason \in Reasons : Submit(v, PermanentReject(r, reason))
    BY <1>2 DEF RejectNoHash, RejectFailedTx, Rejects, Reasons
  <2>2. QED
    BY <1>1, <2>1, HarmlessRejection
<1>3. ASSUME Confirmed(v) PROVE HarmlessStep(v)
  <2>1. pc[v] \notin LoopStates
    BY <1>3 DEF Confirmed, LoopStates
  <2>2. QED
    BY <1>1, <1>3, <2>1, HarmlessApproval DEF Confirmed, Approves, Tasks
<1>4. QED
  BY <1>2, <1>3, RepliesForget
  DEF VerifierNext, VerifierItem, VerifierFetch, LeaveForLater, LogPanics, ReceiptFound,
      NotConfirmed, ReviewReply, VerifierPanics, VerifierLoop, HarmlessStep

LEMMA VerifierReserve ==
  ASSUME TypeInv, Core, ReserveInv, NEW v \in Verifiers, VerifierNext(v), [Next]_vars,
         QuietStep
  PROVE  ReserveInv'
<1> v \in Workers
  BY WorkersAre
<1>1. LocalStep(v)
  BY VerifierIsLocal
<1>2. HoldersReserved'
  BY QuietReserved
<1>3. HoldersAddressed'
  <2>1. \A o \in Oracles : o \in Workers \ {v}
    BY WorkersAssumption DEF Workers
  <2>2. QED
    BY <1>1, <2>1 DEF LocalStep, ReserveInv, HoldersAddressed, Addressed
<1>4. EnvelopesHarmless'
  BY VerifierHarmless, HarmlessStepKeeps
<1>5. VerifiersPast'
  <2>1. \A u \in Verifiers \ {v} :
          todo'[u] = todo[u] /\ pc'[u] = pc[u] /\ cur'[u] = cur[u]
    BY <1>1, TodoIsLocal, WorkersAre DEF LocalStep
  <2>2. /\ todo'[v] \subseteq PastRequests
        /\ pc'[v] \notin LoopStates => cur'[v] \in PastRequests
    BY VerifierPast
  <2>3. QED
    BY <2>1, <2>2, PastStays DEF ReserveInv, VerifiersPast
<1>6. LateKept' /\ LateUnsent' /\ CancelIsFault'
  BY QuietLate, NextLateUnsent, NextCancelIsFault DEF ReserveInv
<1>7. QED
  BY <1>2, <1>3, <1>4, <1>5, <1>6 DEF ReserveInv
-----------------------------------------------------------------------------
(* The rest of the world. *)

LEMMA SupervisionReserve ==
  ASSUME TypeInv, Core, ReserveInv, Crash \/ \E i \in Instances : Spawn(i) \/ Cancel(i),
         [Next]_vars, QuietStep
  PROVE  ReserveInv'
<1>1. /\ pc \in [Workers -> States]
      /\ reply \in [Workers -> {"none", "sent", "applied", "refused"}]
  BY DEF TypeInv, RunnerOK, RunnerTypeOK, States, LedgerOK, LedgerTypeOK
<1>2. \A w \in Workers : \/ pc'[w] \in LoopStates
                         \/ pc'[w] = pc[w] /\ cur'[w] = cur[w]
  BY <1>1 DEF Crash, Spawn, Start, Cancel, LoopStates
<1>3. \A w \in Workers : todo'[w] \subseteq todo[w]
  BY DEF Crash, Spawn, Start, Cancel
<1>4. HoldersReserved'
  BY QuietReserved
<1>5. HoldersAddressed'
  BY <1>2, WorkersAre DEF ReserveInv, HoldersAddressed, Addressed, LoopStates
<1>6. EnvelopesHarmless'
  <2>1. /\ \A u \in Workers : reply'[u] # "none" => reply[u] # "none" /\ call'[u] = call[u]
        /\ \A e \in delayed' : e \in delayed \/ \E u \in Workers : reply[u] # "none" /\ e = call[u]
    BY <1>1 DEF Crash, Spawn, Start, Cancel, ledgerVars
  <2>2. QED
    BY <2>1, HarmlessStays DEF ReserveInv, EnvelopesHarmless
<1>7. VerifiersPast'
  BY <1>2, <1>3, PastStays, WorkersAre DEF ReserveInv, VerifiersPast
<1>8. LateKept' /\ LateUnsent' /\ CancelIsFault'
  BY QuietLate, NextLateUnsent, NextCancelIsFault DEF ReserveInv
<1>9. QED
  BY <1>4, <1>5, <1>6, <1>7, <1>8 DEF ReserveInv

LEMMA InitReserve == Init => ReserveInv
<1> SUFFICES ASSUME Init PROVE ReserveInv
  OBVIOUS
<1>1. /\ \A w \in Workers : pc[w] = "stopped" /\ todo[w] = {} /\ reply[w] = "none"
      /\ delayed = {} /\ late = {} /\ \A i \in Instances : ~cancelled[i]
  BY DEF Init, RunnerInit, LedgerInit, EthInit
<1>2. QED
  BY <1>1, WorkersAre DEF ReserveInv, HoldersReserved, HoldersAddressed, Holds,
     EnvelopesHarmless, VerifiersPast, LoopStates, LateKept, LateUnsent, CancelIsFault

LEMMA NextReserve ==
  ASSUME TypeInv, Core, RecordInv, ReserveInv, [Next]_vars
  PROVE  ReserveInv'
<1>1. ASSUME LedgerNext, UNCHANGED <<ethVars, runnerVars, nonce, block>>
      PROVE  ReserveInv'
  <2>1. pc' = pc /\ cur' = cur /\ todo' = todo
    BY <1>1 DEF runnerVars
  <2>2. HoldersReserved' /\ EnvelopesHarmless'
    BY <1>1, <2>1, LedgerReserve, LedgerHarmless
  <2>3. HoldersAddressed' /\ VerifiersPast'
    BY <2>1, PastStays DEF ReserveInv, HoldersAddressed, Addressed, VerifiersPast
  <2>4. LateKept' /\ LateUnsent' /\ CancelIsFault'
    BY <1>1, LedgerLate, NextLateUnsent, NextCancelIsFault DEF ReserveInv, ethVars
  <2>5. QED
    BY <2>2, <2>3, <2>4 DEF ReserveInv
<1>2. ASSUME \/ EthNext /\ UNCHANGED <<ledgerVars, runnerVars, nonce, block>>
             \/ UNCHANGED vars
      PROVE  ReserveInv'
  <2>1. /\ call' = call /\ reply' = reply /\ delayed' = delayed
        /\ pc' = pc /\ cur' = cur /\ todo' = todo
    BY <1>2 DEF vars, ledgerVars, runnerVars
  <2>2. HoldersReserved'
    BY <1>2, OtherQuietStep, QuietReserved
  <2>3. HoldersAddressed' /\ VerifiersPast'
    BY <2>1, PastStays DEF ReserveInv, HoldersAddressed, Addressed, VerifiersPast
  <2>4. EnvelopesHarmless'
    BY <2>1, HarmlessStays DEF ReserveInv, EnvelopesHarmless
  <2>5. LateKept' /\ LateUnsent' /\ CancelIsFault'
    BY <1>2, OtherQuietStep, QuietLate, NextLateUnsent, NextCancelIsFault DEF ReserveInv
  <2>6. QED
    BY <2>2, <2>3, <2>4, <2>5 DEF ReserveInv
<1>3. ASSUME NEW v \in Verifiers, VerifierNext(v) PROVE ReserveInv'
  BY <1>3, OtherQuietStep, VerifierReserve
<1>4. ASSUME Crash \/ \E i \in Instances : Spawn(i) \/ Cancel(i) PROVE ReserveInv'
  BY <1>4, OtherQuietStep, SupervisionReserve
<1>5. QED
  BY <1>1, <1>2, <1>3, <1>4, OracleReserve DEF Next, Work

Allowed(r) == HeldForTransfer(r) \/ RejectedForCall(r)

\* A transfer reaches the node from the oracle that holds its request, or late.
LEMMA TransferReserved ==
  ASSUME TypeInv, Core, ReserveInv, [Next]_vars
  PROVE  \A t \in txs' \ txs : Allowed(t.req)
<1>1. ASSUME NEW o \in Oracles, OracleNext(o) PROVE \A t \in txs' \ txs : Allowed(t.req)
  <2>1. CASE SendTransaction(o)
    <3>1. pc[o] = "send" /\ txs' = txs \cup {TransferOf(o)}
      BY <2>1 DEF SendTransaction, NodeAccepts
    <3>2. PICK r \in Requests : r = cur[o]
      BY <3>1, WorkersAre DEF TypeInv, RunnerOK, ItemsOK, LoopStates
    <3>3. Holds(o, r)
      BY <3>1, <3>2 DEF Holds
    <3>4. QED
      BY <3>1, <3>2, <3>3 DEF ReserveInv, HoldersReserved, TransferOf, Allowed
  <2>2. CASE ~SendTransaction(o)
    <3>1. txs' = txs
      BY <1>1, <2>2 DEF OracleNext, OracleFetch, RejectDetails, FirstReview,
         FirstReviewReply, RejectTooSmall, GetNonce, NonceFails, SendFails, NodeRefuses,
         SendReplyLost, SendReturns, LastReviewReply, OraclePanics, OracleLoop, ethVars
    <3>2. QED
      BY <3>1
  <2>3. QED
    BY <2>1, <2>2
<1>2. ASSUME EthNext PROVE \A t \in txs' \ txs : Allowed(t.req)
  BY <1>2 DEF EthNext, ChainNext, MineTransfer, MineOther, Drop, Reorg, LateAccept,
     NodeAccepts, ReserveInv, LateKept, Allowed
<1>3. QED
  BY <1>1, <1>2, VerifierIsLocal DEF Next, Work, Spawn, Start, Cancel, Crash, vars, ethVars

\* Tokens leave only for a request that is pending with task 4096 and without 2048,
\* at the very moment they leave, however late that is: nobody can reject or approve
\* it, or free it, between the answer to the first review and the transfer.  The one
\* exception is the rejection sendWithdraw asks for after a call that was cut off, in
\* a run where calls are cut off.
THEOREM TransferAlwaysReserved == Spec => TransferOnlyReserved
<1> DEFINE Inv == TypeInv /\ Core /\ RecordInv /\ ReserveInv
           OnlyReserved == \A t \in txs' \ txs : Allowed(t.req)
<1>1. Init => Inv
  BY InitTypes, InitCore, InitRecord, InitReserve
<1>2. Inv /\ [Next]_vars => Inv'
  BY NextTypes, NextCore, NextRecord, NextReserve
<1>3. Inv /\ [Next]_vars => OnlyReserved
  BY TransferReserved
<1>4. Spec => [][OnlyReserved]_vars
  <2> HIDE DEF Inv, OnlyReserved
  <2>1. QED
    BY <1>1, <1>2, <1>3, PTL DEF Spec
<1>5. QED
  BY <1>4 DEF OnlyReserved, TransferOnlyReserved, Allowed
=============================================================================
