-------------------------- MODULE WithdrawLifecycle --------------------------
(***************************************************************************)
(* What the service promises about one withdrawal, with no workers, pages, *)
(* envelopes or nonces: tokens locked on TokenD are either paid out on     *)
(* Ethereum, once, or given back by a rejection.                           *)
(*                                                                         *)
(*   absent -> open -> reserved -> recorded -> approved                    *)
(*                                                                         *)
(* The money leaves while the request is reserved, and a request whose     *)
(* money left can only be rejected after its transaction is on record      *)
(* (the verifier then found it failed).                                    *)
(***************************************************************************)
CONSTANT Requests

VARIABLES
  life,  \* [Requests -> Lives]
  paid   \* [Requests -> BOOLEAN]: a transfer was handed to Ethereum

Lives == {"absent", "open", "reserved", "recorded", "approved", "rejected"}

Init ==
  /\ life = [r \in Requests |-> "absent"]
  /\ paid = [r \in Requests |-> FALSE]

Move(r, from, to) ==
  /\ life[r] \in from
  /\ life' = [life EXCEPT ![r] = to]
  /\ UNCHANGED paid

\* A request may also enter with the verifier's task only.
Create(r)  == Move(r, {"absent"}, "open") \/ Move(r, {"absent"}, "recorded")
Reserve(r) == Move(r, {"open"}, "reserved")
Pay(r) ==
  /\ life[r] = "reserved" /\ ~paid[r]
  /\ paid' = [paid EXCEPT ![r] = TRUE]
  /\ UNCHANGED life
Record(r)  == paid[r] /\ Move(r, {"reserved"}, "recorded")
Settle(r)  == paid[r] /\ Move(r, {"recorded"}, "approved")
Reject(r) ==
  \/ ~paid[r] /\ Move(r, {"open", "reserved"}, "rejected")
  \/ Move(r, {"recorded"}, "rejected")

Next == \E r \in Requests :
  Create(r) \/ Reserve(r) \/ Pay(r) \/ Record(r) \/ Settle(r) \/ Reject(r)

Spec == Init /\ [][Next]_<<life, paid>>
=============================================================================
