--------------------------- MODULE WithdrawService ---------------------------
(***************************************************************************)
(* The running service: several oracles and verifiers, one pair for each   *)
(* spawned asset, over one ledger, one Ethereum account and one chain.     *)
(*                                                                         *)
(* Spawn and Cancel are what the withdrawer does to an instance.  That     *)
(* only one instance of an asset is live at a time is what module System   *)
(* derives from the withdrawer's map; a cancelled one goes on with the page*)
(* it holds while its successor already runs.  Crash stops the process;    *)
(* the next Spawn starts with nothing but the ledger.                      *)
(***************************************************************************)
EXTENDS Oracle, Verifier

vars == <<ledgerVars, ethVars, runnerVars, nonce, block>>

Init == LedgerInit /\ EthInit /\ RunnerInit /\ OracleInit /\ VerifierInit
-----------------------------------------------------------------------------
Running(i) == \E w \in Workers : Inst[w] = i /\ pc[w] # "stopped"
Live(i) == ~cancelled[i] /\ Running(i)

\* The two goroutines of an instance start, with a context of their own.
Start(i) ==
  /\ ~Running(i)
  /\ pc' = [w \in Workers |-> IF Inst[w] = i THEN "wait" ELSE pc[w]]
  /\ cursor' = [w \in Workers |-> IF Inst[w] = i THEN 0 ELSE cursor[w]]
  /\ cancelled' = [cancelled EXCEPT ![i] = FALSE]
  /\ UNCHANGED <<ledgerVars, ethVars, todo, cur, nonce, block>>

Spawn(i) ==
  /\ \A j \in Instances : Asset[j] = Asset[i] => ~Live(j)
  /\ Start(i)

Cancel(i) ==
  /\ "cancel" \in Faults
  /\ Live(i)
  /\ cancelled' = [cancelled EXCEPT ![i] = TRUE]
  /\ UNCHANGED <<ledgerVars, ethVars, pc, todo, cur, cursor, nonce, block>>

\* What was being sent, to the ledger or to the node, may still arrive.
Crash ==
  /\ "crash" \in Faults
  /\ \E i \in Instances : Running(i)
  /\ delayed' = delayed \cup {call[w] : w \in {u \in Workers : reply[u] = "sent"}}
  /\ call' = [w \in Workers |-> NoEnvelope]
  /\ reply' = [w \in Workers |-> "none"]
  /\ pc' = [w \in Workers |-> "stopped"]
  /\ todo' = [w \in Workers |-> {}]
  /\ cur' = [w \in Workers |-> 0]
  /\ cursor' = [w \in Workers |-> 0]
  /\ cancelled' = [i \in Instances |-> FALSE]
  /\ nonce' = [w \in Workers |-> 0]
  /\ block' = [w \in Workers |-> 0]
  /\ late' = late \cup {TransferOf(o) : o \in {p \in Oracles : pc[p] = "send"}}
  /\ UNCHANGED <<requests, txs, pool, mined, head, reorgs>>

LedgerNext ==
  \/ \E r \in Requests : CreateRequest(r)
  \/ \E w \in Workers : LedgerApply(w) \/ LedgerRefuse(w)
  \/ \E e \in delayed : LateApply(e)

\* The service at work, with the ledger and the chain.
Work ==
  \/ LedgerNext /\ UNCHANGED <<ethVars, runnerVars, nonce, block>>
  \/ EthNext /\ UNCHANGED <<ledgerVars, runnerVars, nonce, block>>
  \/ \E o \in Oracles : OracleNext(o) /\ UNCHANGED block
  \/ \E v \in Verifiers : VerifierNext(v) /\ UNCHANGED nonce

Next ==
  \/ Work
  \/ \E i \in Instances : Spawn(i) \/ Cancel(i)
  \/ Crash

Spec == Init /\ [][Next]_vars
-----------------------------------------------------------------------------
(* Safety *)

RunnerTypeOK ==
  /\ pc \in [Workers -> LoopStates \cup OracleStates \cup VerifierStates]
  /\ todo \in [Workers -> SUBSET Requests]
  /\ cur \in [Workers -> Requests \cup {0}]
  /\ cursor \in [Workers -> Requests \cup {0}]
  /\ cancelled \in [Instances -> BOOLEAN]

\* Every variable keeps its type; every receipt is of a transaction that was sent.
TypeOK ==
  /\ LedgerTypeOK
  /\ EthTypeOK
  /\ RunnerTypeOK
  /\ nonce \in [Workers -> Nat]
  /\ block \in [Workers -> Nat]

\* A withdrawal is sent to Ethereum at most once, whatever the number of
\* oracles that hold its request, and whatever fails, crashes or arrives late
\* (the order first review, transfer, second review of sendWithdraw).
AtMostOneTransfer == \A t, u \in txs : t.req = u.req => t = u

\* The ledger holds request r for its transfer: pending, task 4096 set, 2048 gone.
HeldForTransfer(r) ==
  /\ requests[r].state = "pending"
  /\ taskCheckTxSentSuccess \in requests[r].tasks
  /\ taskTryTransfer \notin requests[r].tasks

\* Rejected because callTransfer returned an error, which a cancelled context or a
\* broken connection can make of a call that still takes effect.
RejectedForCall(r) ==
  /\ requests[r].state = "rejected" /\ requests[r].reason = "Transfer failed"
  /\ {"rpc", "cancel"} \cap Faults # {}

\* The node takes a transfer only while the ledger holds its request for it,
\* however late it arrives: no review of anybody, at once, late or after a crash,
\* decides or frees the request before.  The one way out is the rejection
\* sendWithdraw itself asks for when the call of the node was cut off.
TransferOnlyReserved ==
  [][\A t \in txs' \ txs : HeldForTransfer(t.req) \/ RejectedForCall(t.req)]_vars

\* A rejected request gives the tokens back on TokenD, so nothing of it may be
\* paid, or still be payable, on Ethereum.
RejectedNotPaid ==
  \A r \in Requests : requests[r].state = "rejected" =>
    /\ \A t \in pool : t.req # r
    /\ \A m \in mined : m.tx.req = r => m.outcome = "failed"

\* The node has lost a transaction that it accepted for request r.
LostTransfer(r) == \E t \in txs : t.req = r /\ t \notin pool \cup Mined

\* An approved request was paid: a transaction with the hash on its record moved
\* the tokens, in a block with the configured number of blocks on top.  It is the
\* request's own, unless the node lost that and took one of the same hash.
ApprovedIsPaid ==
  \A r \in Requests : requests[r].state = "approved" =>
    \E m \in ReceiptsOf(requests[r].ext) :
      /\ m.outcome = "moved"
      /\ EnoughConfirmations(m.block)
      /\ m.tx.req = r \/ LostTransfer(r)

\* The hash recorded for a request is that of a transaction sent for it.
RecordedIsSent ==
  \A r \in Requests : requests[r].ext # NoTx =>
    \E t \in txs : t.req = r /\ HashOf(t) = requests[r].ext

\* Two requests have one hash on record only when the node lost a transaction it
\* had accepted for one of them and its nonce was used again: neither two oracles
\* that read one nonce nor a late or repeated review get there otherwise.
SharedOnlyIfLost ==
  \A q, r \in Requests :
    q # r /\ requests[q].ext = requests[r].ext /\ requests[q].ext # NoTx
      => LostTransfer(q) \/ LostTransfer(r)

\* Every approved withdrawal is paid by a transaction of its own.
EachPaidOnce ==
  \A q, r \in Requests :
    q # r /\ requests[q].state = "approved" /\ requests[r].state = "approved"
      => requests[q].ext # requests[r].ext

\* As long as every review is answered truthfully, a request with task 4096 has an
\* oracle at work on it: every way through sendWithdraw either ends the request or
\* records its transaction, and none returns in between.
ReservedIsHeld ==
  \A r \in Requests :
    /\ requests[r].state = "pending"
    /\ taskCheckTxSentSuccess \in requests[r].tasks
    => \E o \in Oracles : cur[o] = r

(* Why a withdrawal is sent once: the inductive invariant. *)

\* Whoever waits, waits for an envelope; no envelope sets task 2048 again.
CallsOK ==
  /\ \A w \in Workers : reply[w] # "none" =>
       call[w] \in Envelope /\ taskTryTransfer \notin call[w].add
  /\ \A e \in delayed : taskTryTransfer \notin e.add

\* A worker in the middle of an item has one.
ItemsOK == \A w \in Workers : pc[w] \notin LoopStates => cur[w] \in Requests

FirstReviewOf(r) == Approve(r, {taskCheckTxSentSuccess}, {taskTryTransfer}, NoTx)

FirstReviewsOK ==
  \A o \in Oracles : pc[o] = "approving1" => call[o] = FirstReviewOf(cur[o])

\* Oracle o may still send request r: the ledger has applied its first review.
Holds(o, r) ==
  /\ cur[o] = r
  /\ \/ pc[o] \in {"reserved", "send"}
     \/ pc[o] = "approving1" /\ reply[o] = "applied"

\* No first review of r can be applied any more.
Taken(r) == requests[r].state # "absent" /\ taskTryTransfer \notin requests[r].tasks

OneHolder ==
  \A o, p \in Oracles, r \in Requests : Holds(o, r) /\ Holds(p, r) => o = p

\* The transfers that reached the node, and those that still may.
Attempts == txs \cup late

HeldIsUnsent ==
  \A o \in Oracles, r \in Requests :
    Holds(o, r) => Taken(r) /\ \A t \in Attempts : t.req # r

SentIsTaken == \A t \in Attempts : Taken(t.req)

AtMostOneAttempt == \A t, u \in Attempts : t.req = u.req => t = u

\* At most one oracle holds a request, only while it is not sent; what is held
\* or sent can be reserved by nobody else.
SendOnceInv ==
  /\ TypeOK /\ CallsOK /\ ItemsOK /\ FirstReviewsOK
  /\ OneHolder /\ HeldIsUnsent /\ SentIsTaken
  /\ AtMostOneAttempt
-----------------------------------------------------------------------------
\* callTransfer fails only when something failed around the service.  Stated for
\* runs without a fault: there, no request is rejected for a failed transfer.
TransferFailedIsFault ==
  \A r \in Requests : requests[r].reason # "Transfer failed"
-----------------------------------------------------------------------------
(* The promise each request makes to its creator. *)

LifeOf(r) ==
  LET q == requests[r] IN
  IF q.state # "pending" THEN q.state
  ELSE IF taskTryTransfer \in q.tasks THEN "open"
  ELSE IF taskCheckTxSentSuccess \in q.tasks THEN "reserved" ELSE "recorded"

Lifecycle == INSTANCE WithdrawLifecycle WITH
  life <- [r \in Requests |-> LifeOf(r)],
  paid <- [r \in Requests |-> \E t \in txs : t.req = r]

\* The service implements the life cycle of every request.
ImplementsLifecycle == Lifecycle!Spec
-----------------------------------------------------------------------------
(* Liveness *)

OracleStep(o)   == OracleNext(o) /\ UNCHANGED block
VerifierStep(v) == VerifierNext(v) /\ UNCHANGED nonce
Elsewhere       == UNCHANGED <<runnerVars, nonce, block>>

\* Goroutines are scheduled, Horizon answers, blocks are mined, the watch list
\* asks for its assets again every 20 seconds; a review that may be applied, or
\* a node that can answer, is not unlucky for ever.
Fairness ==
  /\ \A o \in Oracles : WF_vars(OracleStep(o))
  /\ \A v \in Verifiers :
       /\ WF_vars(VerifierStep(v))
       /\ SF_vars(/\ \E r \in Requests : ReceiptFound(v, r) \/ RejectFailedTx(v, r)
                  /\ UNCHANGED nonce)
       /\ SF_vars(Confirmed(v) /\ UNCHANGED nonce)
  /\ \A w \in Workers :
       /\ WF_vars((LedgerApply(w) \/ LedgerRefuse(w)) /\ UNCHANGED ethVars /\ Elsewhere)
       /\ SF_vars(LedgerApply(w) /\ UNCHANGED ethVars /\ Elsewhere)
  /\ WF_vars(ChainNext /\ UNCHANGED ledgerVars /\ Elsewhere)
  /\ \A i \in Instances : WF_vars(Spawn(i))
  /\ <>[][~Crash]_vars

FairSpec == Spec /\ Fairness

\* A request whose recorded transaction moved the tokens is approved.
PaidIsApproved ==
  \A r \in Requests :
    (\E m \in ReceiptsOf(requests[r].ext) : m.outcome = "moved")
      ~> requests[r].state = "approved"

\* Every request that is created ends approved or rejected.
Settled ==
  \A r \in Requests :
    requests[r].state = "pending" ~> requests[r].state \in {"approved", "rejected"}

(* Why a request may wait for ever. *)

\* Reserved, and no oracle is at it: neither filter lists it any more.
Stranded(r) == LifeOf(r) = "reserved" /\ \A o \in Oracles : cur[o] # r

\* The recorded transaction will not be mined: the node dropped it, or one below it.
Forgotten(r) ==
  LET h == requests[r].ext IN
  /\ LifeOf(r) = "recorded" /\ ReceiptsOf(h) = {}
  /\ (\A t \in pool : HashOf(t) # h) \/ \E k \in 0 .. h.nonce - 1 : k \notin UsedNonces

\* Mined and successful, but the verifier does not find the transfer in its logs.
Unseen(r) ==
  \E m \in ReceiptsOf(requests[r].ext) :
    m.outcome \notin {"failed", "anonymous"} /\ ~LogsSuccessful(m, r)

\* Its receipt, or that of a request before it, makes the verifier panic.
Shadowed(r) ==
  \E q \in Requests :
    /\ q <= r /\ Asset[q] = Asset[r]
    /\ LifeOf(q) = "recorded" /\ LifeOf(r) = "recorded"
    /\ \E m \in ReceiptsOf(requests[q].ext) : m.outcome = "anonymous"

\* The loop that should list it has lost its page.
Unlisted(r) ==
  \E w \in Workers : /\ Asset[Inst[w]] = Asset[r] /\ pc[w] = "nilPage"
                     /\ LifeOf(r) = IF w \in Oracles THEN "open" ELSE "recorded"

\* A request that is never decided is stuck for one of these five causes and no
\* other: whatever else fails, sendWithdraw and confirmWithdrawSuccessful return,
\* leave the request to a later page and end it from there.
OnlyStuckWaits ==
  \A r \in Requests :
    <>[](requests[r].state = "pending") =>
      <>[](Stranded(r) \/ Forgotten(r) \/ Unseen(r) \/ Shadowed(r) \/ Unlisted(r))
=============================================================================
