------------------------------ MODULE MCSystem ------------------------------
(***************************************************************************)
(* Values of the constants of System for the runs: one asset, whose number *)
(* is 1, and two instances of one oracle each.                             *)
(***************************************************************************)
EXTENDS System, TLC

CONSTANTS o1, o2, i1, i2

TwoInst  == (o1 :> i1) @@ (o2 :> i2)
OneAsset == [x \in Instances \cup Requests |-> 1]
TryOnly  == [r \in Requests |-> {taskTryTransfer}]
AllCanonical == [r \in Requests |-> "canonical"]
AllOnes   == [x \in Requests |-> 1]
TwoDigits == [a \in Assets |-> 2]
AnyContract == [a \in Assets |-> Contracts]
=============================================================================
