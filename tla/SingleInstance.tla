--------------------------- MODULE SingleInstance ---------------------------
(***************************************************************************)
(* What the withdrawer promises about the instances of an asset, with no   *)
(* map, channels or goroutines: an instance starts only when its asset has *)
(* none that is not cancelled.  A restart of the process ends them all.    *)
(***************************************************************************)
EXTENDS Naturals

CONSTANTS
  Assets,
  Names   \* what tells the instances of an asset apart

VARIABLE live   \* [Assets -> [Names -> how many instances are not cancelled]]

NoneLive == [n \in Names |-> 0]

Init == live = [a \in Assets |-> NoneLive]

\* What one step may do to an asset.
Keep(a)  == live'[a] = live[a]
End(a)   == live'[a] = NoneLive
Start(a) == /\ live[a] = NoneLive
            /\ \E n \in Names : live'[a] = [NoneLive EXCEPT ![n] = 1]

Next == \A a \in Assets : Keep(a) \/ End(a) \/ Start(a)

Spec == Init /\ [][Next]_live
=============================================================================
