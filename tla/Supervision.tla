----------------------------- MODULE Supervision -----------------------------
(***************************************************************************)
(* The withdrawer: one goroutine spawns an instance for every asset the    *)
(* watcher offers and that has none, another cancels the instance of every *)
(* asset the watcher retires.  They share the map spawned and nothing else *)
(* (withdrawer.Service.spawner, cancellor, spawn).                         *)
(*                                                                         *)
(* Building an oracle asks the Ethereum node for the chain and the decimals*)
(* of the contract, so between the look into spawned and the store there is*)
(* all the time of two calls that may hang.                                *)
(***************************************************************************)
EXTENDS Watchlist

CONSTANTS
  NodeMayFail,      \* whether oracle.New may give up on an asset
  ProcessMayCrash   \* whether the process may stop (oracle.New panics, a kill)

ASSUME NodeMayFailAssumption == NodeMayFail \in BOOLEAN
ASSUME ProcessMayCrashAssumption == ProcessMayCrash \in BOOLEAN

VARIABLES
  spawned,   \* [Assets -> the contract of the instance it can cancel, or None]
  running,   \* [Assets -> [Contracts -> how many instances are not cancelled]]
  building,  \* what the spawner builds an instance for: {} or one kept asset
  deleting   \* what the cancellor has cancelled but not deleted: {} or one asset

withdrawVars == <<spawned, running, building, deleting>>
vars == <<catalogue, watchVars, withdrawVars>>

None == "none"

\* "none" is the name of no contract.
ASSUME ContractsAssumption == None \notin Contracts

Init ==
  /\ WatchInit
  /\ spawned = [a \in Assets |-> None]
  /\ running = [a \in Assets |-> [c \in Contracts |-> 0]]
  /\ building = {}
  /\ deleting = {}
-----------------------------------------------------------------------------
\* Mutant: the spawner builds without looking.
OfferAlways(k) ==
  /\ building = {}
  /\ Offer(k)
  /\ building' = {k}
  /\ UNCHANGED <<spawned, running, deleting>>

\* The spawner receives an offer and looks into the map.
OfferAsset(k) ==
  /\ building = {}
  /\ Offer(k)
  /\ building' = IF spawned[k.asset] = None THEN {k} ELSE {}
  /\ UNCHANGED <<spawned, running, deleting>>

Build ==
  /\ \E k \in building :
       /\ spawned' = [spawned EXCEPT ![k.asset] = k.contract]
       /\ running' = [running EXCEPT ![k.asset][k.contract] = @ + 1]
  /\ building' = {}
  /\ UNCHANGED <<catalogue, watchVars, deleting>>

BuildFails ==
  /\ NodeMayFail
  /\ building # {}
  /\ building' = {}
  /\ UNCHANGED <<catalogue, watchVars, spawned, running, deleting>>

\* Mutant: the cancellor deletes an entry whose instance it does not cancel.
RetireUncancelled(a) ==
  /\ deleting = {}
  /\ Retire(a)
  /\ deleting' = IF spawned[a] = None THEN {} ELSE {a}
  /\ UNCHANGED <<spawned, running, building>>

\* The cancellor receives an asset; if the map has it, it cancels the instance.
RetireAsset(a) ==
  /\ deleting = {}
  /\ Retire(a)
  /\ \/ /\ spawned[a] = None
        /\ UNCHANGED <<running, deleting>>
     \/ /\ spawned[a] # None
        /\ running' = [running EXCEPT ![a][spawned[a]] = @ - 1]
        /\ deleting' = {a}
  /\ UNCHANGED <<spawned, building>>

\* Mutant: the cancellor leaves the cancelled instance in the map.
NeverDeletes ==
  /\ deleting # {}
  /\ deleting' = {}
  /\ UNCHANGED <<catalogue, watchVars, spawned, running, building>>

Delete ==
  /\ \E a \in deleting : spawned' = [spawned EXCEPT ![a] = None]
  /\ deleting' = {}
  /\ UNCHANGED <<catalogue, watchVars, running, building>>

Crash ==
  /\ ProcessMayCrash
  /\ phase' = "idle" /\ from' = 0 /\ found' = {}
  /\ toAdd' = {} /\ toRemove' = {} /\ watchlist' = {}
  /\ spawned' = [a \in Assets |-> None]
  /\ running' = [a \in Assets |-> [c \in Contracts |-> 0]]
  /\ building' = {} /\ deleting' = {}
  /\ UNCHANGED catalogue

WatcherStep ==
  \/ WatcherAlone /\ UNCHANGED withdrawVars
  \/ \E k \in toAdd : OfferAsset(k)
  \/ \E a \in toRemove : RetireAsset(a)

ServiceStep ==
  \/ WatcherStep
  \/ Build
  \/ BuildFails
  \/ Delete

Next ==
  \/ \E a \in Assets, form \in Forms : Edit(a, form) /\ UNCHANGED withdrawVars
  \/ ServiceStep
  \/ Crash

Spec == Init /\ [][Next]_vars

\* The three goroutines are scheduled; the page after every asset is answered
\* once in a while, and so is the node; the process is not restarted for ever.
Fairness ==
  /\ WF_vars(WatcherStep)
  /\ \A a \in Assets \cup {0} : SF_vars(from = a /\ ReadPage /\ UNCHANGED withdrawVars)
  /\ SF_vars(ReadLastPage /\ UNCHANGED withdrawVars)
  /\ WF_vars(Build \/ BuildFails)
  /\ \A a \in Assets : SF_vars((\E k \in building : k.asset = a) /\ Build)
  /\ WF_vars(Delete)
  /\ <>[][~Crash]_vars

FairSpec == Spec /\ Fairness
-----------------------------------------------------------------------------
Serving(a) == \E c \in Contracts : running[a][c] > 0

\* Every variable of watcher and withdrawer keeps its type; the spawner builds,
\* and the cancellor deletes, one asset at a time.
TypeOK ==
  /\ WatchTypeOK
  /\ spawned \in [Assets -> Contracts \cup {None}]
  /\ running \in [Assets -> [Contracts -> Nat]]
  /\ building \subseteq Kept /\ Cardinality(building) <= 1
  /\ deleting \subseteq Assets /\ Cardinality(deleting) <= 1

\* The map knows exactly the instances that run: never two of one asset, none it
\* could not cancel, and no entry without an instance but while the cancellor is
\* between cancelling and deleting.
MapIsExact ==
  \A a \in Assets, c \in Contracts :
    running[a][c] = IF spawned[a] = c /\ a \notin deleting THEN 1 ELSE 0

Single == INSTANCE SingleInstance WITH Names <- Contracts, live <- running

\* Seen from outside, an instance of an asset starts only when there is none: the
\* look into spawned and the Store that follows it are as good as one step, though
\* the cancellor works on the same map in between.
OneAtATime == Single!Spec

\* An asset that stays in the watch list is served, through pages that fail,
\* oracles that cannot be built and restarts: the watcher offers it on every tick
\* (processAllAssetsOnce) and never retires it because a page was missing.
ListedIsServed ==
  \A a \in Assets : <>[](catalogue[a] \in Contracts) => <>[]Serving(a)

\* An asset that leaves the watch list for good is no longer served
\* (service.go:21 of watchlist: "channel assets to stop watching").
RemovedIsStopped ==
  \A a \in Assets : <>[](catalogue[a] \notin Contracts) => <>[]~Serving(a)
=============================================================================
