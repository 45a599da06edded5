----------------------------- MODULE MCWithdraw -----------------------------
(***************************************************************************)
(* Values of the constants of WithdrawService for the runs: the topologies *)
(* (which worker belongs to which instance, which asset each is for) and   *)
(* the data of the requests.                                               *)
(***************************************************************************)
EXTENDS WithdrawService, TLC

CONSTANTS o1, o2, v1, v2, i1, i2, A, B

\* One asset, one instance.
OneInst == [w \in Workers |-> i1]
OneAsset == [x \in {i1} \cup Requests |-> A]

\* One asset, an instance and its successor: two oracles and no verifier.
TwoInst == (o1 :> i1) @@ (o2 :> i2)
SameAsset == [x \in {i1, i2} \cup Requests |-> A]

\* Two assets: instance i1 for requests 1, instance i2 for the others.
TwoAssets == [x \in {i1, i2} \cup Requests |->
                IF x = i1 \/ x = 1 THEN A ELSE B]

TryOnly == [r \in Requests |-> {taskTryTransfer}]
\* Request 3 enters with the verifier's task only.
ThirdUnsent ==
  [r \in Requests |-> IF r = 3 THEN {taskCheckTxConfirmed} ELSE {taskTryTransfer}]

\* Each request pays another receiver or amount; or all of them the same.
OwnPayments  == [r \in Requests |-> r]
SamePayments == [r \in Requests |-> 1]

AllCanonical == [r \in Requests |-> "canonical"]
\* Request 2 writes its address in another spelling.
SecondAlias == [r \in Requests |-> IF r = 2 THEN "alias" ELSE "canonical"]
\* Requests 4 and 5 name no address.
LastUnusable == [r \in Requests |-> CASE r = 4 -> "missing"
                                       [] r = 5 -> "malformed"
                                       [] OTHER -> "canonical"]

\* Assets of two digits whose token contracts have two, or none: there, an
\* amount of 1 is below the smallest unit.
TwoDigits == [a \in {A, B} |-> 2]
NoDigits  == [a \in {A, B} |-> 0]
AllOnes == [r \in Requests |-> 1]
SecondTiny == [r \in Requests |-> IF r = 2 THEN 1 ELSE 100]
=============================================================================
