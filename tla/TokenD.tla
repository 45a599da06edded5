------------------------------- MODULE TokenD -------------------------------
(***************************************************************************)
(* The TokenD ledger as the service sees it through Horizon, and the       *)
(* submission of review envelopes to it (submit.Submit, approveRequest,    *)
(* permanentReject).                                                       *)
(*                                                                         *)
(* A worker submits one envelope at a time and waits.  The ledger applies  *)
(* or refuses it; the worker learns which, or gets an error that tells it  *)
(* nothing (504, 500, a broken connection, an unreadable body).  Submit    *)
(* ignores its context, so an envelope whose caller gave up or crashed may *)
(* still be applied later: it is kept in delayed.                          *)
(***************************************************************************)
EXTENDS Bridge

VARIABLES
  requests,  \* [Requests -> the ledger's record of the request]
  call,      \* [Workers -> the envelope the worker waits for, or NoEnvelope]
  reply,     \* [Workers -> how far that envelope got]
  delayed    \* envelopes nobody waits for any more, that may still be applied

ledgerVars == <<requests, call, reply, delayed>>
-----------------------------------------------------------------------------
Envelope == [kind : {"approve", "reject"}, req : Requests, add : SUBSET Tasks,
             remove : SUBSET Tasks, ext : Hash \cup {NoTx}, reason : Reasons \cup {""}]

Approve(r, toAdd, toRemove, ext) ==
  [kind |-> "approve", req |-> r, add |-> toAdd, remove |-> toRemove,
   ext |-> ext, reason |-> ""]

PermanentReject(r, reason) ==
  [kind |-> "reject", req |-> r, add |-> {}, remove |-> {},
   ext |-> NoTx, reason |-> reason]

\* call[w] when worker w waits for no answer.
NoEnvelope == [kind |-> "none"]

RequestRecord == [state : {"absent", "pending", "approved", "rejected"},
                  tasks : SUBSET Tasks, ext : Hash \cup {NoTx},
                  reason : Reasons \cup {""}]

LedgerTypeOK ==
  /\ requests \in [Requests -> RequestRecord]
  /\ call \in [Workers -> Envelope \cup {NoEnvelope}]
  /\ reply \in [Workers -> {"none", "sent", "applied", "refused"}]
  /\ delayed \subseteq Envelope

LedgerInit ==
  /\ requests = [r \in Requests |->
                   [state |-> "absent", tasks |-> {}, ext |-> NoTx, reason |-> ""]]
  /\ call = [w \in Workers |-> NoEnvelope]
  /\ reply = [w \in Workers |-> "none"]
  /\ delayed = {}
-----------------------------------------------------------------------------
\* The ledger refuses the removal of tasks that are not set, and the review of
\* a request that is no longer pending.
Acceptable(e) ==
  /\ requests[e.req].state = "pending"
  /\ e.remove \subseteq requests[e.req].tasks

\* The external details of successive reviews are appended; readers take the
\* first transaction among them.
Reviewed(q, e) ==
  LET left == (q.tasks \ e.remove) \cup e.add IN
  IF e.kind = "reject"
  THEN [q EXCEPT !.state = "rejected", !.reason = e.reason]
  ELSE [q EXCEPT !.tasks = left,
                 !.state = IF left = {} THEN "approved" ELSE "pending",
                 !.ext   = IF q.ext = NoTx THEN e.ext ELSE q.ext]

\* A user asks for a withdrawal.
CreateRequest(r) ==
  /\ requests[r].state = "absent"
  /\ requests' = [requests EXCEPT ![r].state = "pending", ![r].tasks = InitialTasks[r]]
  /\ UNCHANGED <<call, reply, delayed>>

LedgerApply(w) ==
  /\ reply[w] = "sent"
  /\ Acceptable(call[w])
  /\ requests' = [requests EXCEPT ![call[w].req] = Reviewed(@, call[w])]
  /\ reply' = [reply EXCEPT ![w] = "applied"]
  /\ UNCHANGED <<call, delayed>>

LedgerRefuse(w) ==
  /\ reply[w] = "sent"
  /\ Acceptable(call[w]) => "refuse" \in Faults
  /\ reply' = [reply EXCEPT ![w] = "refused"]
  /\ UNCHANGED <<requests, call, delayed>>

LateApply(e) ==
  /\ e \in delayed
  /\ Acceptable(e)
  /\ requests' = [requests EXCEPT ![e.req] = Reviewed(@, e)]
  /\ delayed' = delayed \ {e}
  /\ UNCHANGED <<call, reply>>
-----------------------------------------------------------------------------
Submit(w, e) ==
  /\ call' = [call EXCEPT ![w] = e]
  /\ reply' = [reply EXCEPT ![w] = "sent"]
  /\ UNCHANGED <<requests, delayed>>

\* w no longer waits; what the ledger has not processed yet stays in flight.
Forget(w) ==
  /\ call' = [call EXCEPT ![w] = NoEnvelope]
  /\ reply' = [reply EXCEPT ![w] = "none"]
  /\ delayed' = IF reply[w] = "sent" THEN delayed \cup {call[w]} ELSE delayed
  /\ UNCHANGED requests

Succeeded(w) == reply[w] = "applied" /\ Forget(w)

Failed(w) ==
  /\ \/ reply[w] = "refused"
     \/ reply[w] \in {"sent", "applied"} /\ "timeout" \in Faults
  /\ Forget(w)

\* newTxFailure indexes the first of a list of errors that may be empty.
ReplyPanics(w) == reply[w] = "refused" /\ "panic" \in Faults /\ Forget(w)
=============================================================================
