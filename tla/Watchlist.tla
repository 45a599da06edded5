------------------------------ MODULE Watchlist ------------------------------
(***************************************************************************)
(* The asset watcher: every tick it reads the withdrawable assets page by  *)
(* page, keeps those whose details pass the filter, offers every one of    *)
(* them to the spawner and every one it kept last time but not now to the  *)
(* cancellor (processAllAssetsOnce, getWatchList, filter).                 *)
(*                                                                         *)
(* The channels are unbuffered: Offer and Retire are enabled together with *)
(* the receiver, in module Supervision.                                    *)
(***************************************************************************)
EXTENDS Integers, FiniteSets

CONSTANTS
  Assets,          \* positive naturals, in the order Horizon lists them
  Contracts,       \* token contracts
  ContractsOf,     \* [Assets -> SUBSET Contracts], those an owner may name
  AssetPageLimit,  \* how many assets Horizon puts on a page
  ListMayFail      \* whether a request for a page may fail

ASSUME AssetsAssumption == Assets \subseteq Nat \ {0}
ASSUME ContractsOfAssumption == ContractsOf \in [Assets -> SUBSET Contracts]
ASSUME AssetPageAssumption == AssetPageLimit \in Nat \ {0}
ASSUME ListMayFailAssumption == ListMayFail \in BOOLEAN

VARIABLES
  catalogue,  \* [Assets -> what TokenD says of the asset]
  phase,      \* where the watcher is in its tick
  from,       \* the asset after which the next page starts
  found,      \* the assets kept so far in this tick, with their contract
  toAdd,      \* those of them still to be offered
  toRemove,   \* assets still to be retired
  watchlist   \* the assets kept by the last complete tick

watchVars == <<phase, from, found, toAdd, toRemove, watchlist>>

\* An asset is unlisted (not active, or not withdrawable), or unusable (its details
\* switch withdrawals off, do not parse, or lack what Validate asks for), or it
\* names a token contract.
Forms == {"unlisted", "unusable"} \cup Contracts

Kept == [asset : Assets, contract : Contracts]
AssetsOf(kept) == {k.asset : k \in kept}

WatchTypeOK ==
  /\ catalogue \in [Assets -> Forms]
  /\ phase \in {"idle", "reading", "adding", "removing"}
  /\ from \in Assets \cup {0}
  /\ found \subseteq Kept /\ toAdd \subseteq found
  /\ toRemove \subseteq Assets
  /\ watchlist \subseteq Assets

\* What a fresh process starts with.
Fresh == /\ phase = "idle" /\ from = 0 /\ found = {}
         /\ toAdd = {} /\ toRemove = {} /\ watchlist = {}

WatchInit == catalogue = [a \in Assets |-> "unlisted"] /\ Fresh
-----------------------------------------------------------------------------
\* The owner of asset a changes it.
Edit(a, form) ==
  /\ catalogue[a] # form
  /\ form \in Contracts => form \in ContractsOf[a]
  /\ catalogue' = [catalogue EXCEPT ![a] = form]
  /\ UNCHANGED watchVars

Tick ==
  /\ phase = "idle"
  /\ phase' = "reading"
  /\ from' = 0
  /\ found' = {}
  /\ UNCHANGED <<catalogue, toAdd, toRemove, watchlist>>

\* One page: the listed assets after from, as they are now.
AssetPage ==
  LET rest == {a \in Assets : a > from /\ catalogue[a] # "unlisted"}
  IN {a \in rest : Cardinality({b \in rest : b < a}) < AssetPageLimit}

Filtered(page) ==
  {[asset |-> a, contract |-> catalogue[a]] : a \in {b \in page : catalogue[b] \in Contracts}}

ReadPage ==
  /\ phase = "reading"
  /\ \E last \in AssetPage :
       /\ \A a \in AssetPage : a <= last
       /\ from' = last
  /\ found' = found \cup Filtered(AssetPage)
  /\ UNCHANGED <<catalogue, phase, toAdd, toRemove, watchlist>>

\* The first empty page ends the list.
ReadLastPage ==
  /\ phase = "reading"
  /\ AssetPage = {}
  /\ phase' = "adding"
  /\ toAdd' = found
  /\ UNCHANGED <<catalogue, from, found, toRemove, watchlist>>

\* Mutant: a page that fails ends the list, and the tick goes on.
FailureEndsList ==
  /\ ListMayFail
  /\ phase = "reading"
  /\ phase' = "adding"
  /\ toAdd' = found
  /\ UNCHANGED <<catalogue, from, found, toRemove, watchlist>>

\* An error drops the whole tick, and what the pages before it said.
ReadFails ==
  /\ ListMayFail
  /\ phase = "reading"
  /\ phase' = "idle"
  /\ UNCHANGED <<catalogue, from, found, toAdd, toRemove, watchlist>>

\* The watcher sends the next kept asset, in list order.
Offer(k) ==
  /\ phase = "adding"
  /\ k \in toAdd /\ \A other \in toAdd : k.asset <= other.asset
  /\ toAdd' = toAdd \ {k}
  /\ UNCHANGED <<catalogue, phase, from, found, toRemove, watchlist>>

AllOffered ==
  /\ phase = "adding" /\ toAdd = {}
  /\ phase' = "removing"
  /\ toRemove' = watchlist \ AssetsOf(found)
  /\ UNCHANGED <<catalogue, from, found, toAdd, watchlist>>

\* A map is ranged over: any order.
Retire(a) ==
  /\ phase = "removing" /\ a \in toRemove
  /\ toRemove' = toRemove \ {a}
  /\ UNCHANGED <<catalogue, phase, from, found, toAdd, watchlist>>

AllRetired ==
  /\ phase = "removing" /\ toRemove = {}
  /\ phase' = "idle"
  /\ watchlist' = AssetsOf(found)
  /\ found' = {}
  /\ from' = 0
  /\ UNCHANGED <<catalogue, toAdd, toRemove>>

WatcherAlone ==
  Tick \/ ReadPage \/ ReadLastPage \/ ReadFails \/ AllOffered \/ AllRetired
=============================================================================
