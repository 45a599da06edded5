-------------------------- MODULE SupervisionProofs --------------------------
(***************************************************************************)
(* The map of the withdrawer is exact, for any assets, contracts and pages *)
(* and under every failure.                                                *)
(*                                                                         *)
(* Two goroutines write the map without a lock.  They do not get into each *)
(* other's way because the spawner only builds what the map lacks and the  *)
(* cancellor only deletes what the map has: an asset is never built and    *)
(* deleted at a time.                                                      *)
(***************************************************************************)
EXTENDS Supervision, FiniteSetTheorems, TLAPS

MapType ==
  /\ spawned \in [Assets -> Contracts \cup {None}]
  /\ running \in [Assets -> [Contracts -> Nat]]
  /\ building \subseteq Kept
  /\ deleting \subseteq Assets
  /\ toAdd \subseteq Kept
  /\ found \subseteq Kept
  /\ toRemove \subseteq Assets
  /\ watchlist \subseteq Assets

\* The spawner builds what the map lacks.
BuildingIsFree == \A k \in building : spawned[k.asset] = None

\* The cancellor deletes what the map has, one asset at a time.
DeletingIsHeld ==
  /\ \A a \in deleting : spawned[a] # None
  /\ \A a, b \in deleting : a = b

MapInv == MapType /\ BuildingIsFree /\ DeletingIsHeld /\ MapIsExact

LEMMA InitMap == Init => MapInv
BY ContractsAssumption DEF Init, WatchInit, Fresh, MapInv, MapType, BuildingIsFree,
   DeletingIsHeld, MapIsExact

\* The watcher alone never touches the map, and keeps what it found well formed.
LEMMA WatcherMap ==
  ASSUME MapInv, \/ WatcherAlone
                 \/ \E a \in Assets, form \in Forms : Edit(a, form)
                 \/ UNCHANGED watchVars,
         UNCHANGED withdrawVars
  PROVE  MapInv'
<1>1. Filtered(AssetPage) \subseteq Kept
  <2>1. AssetPage \subseteq Assets
    BY DEF AssetPage
  <2>2. ASSUME NEW k \in Filtered(AssetPage) PROVE k \in Kept
    <3>1. PICK a \in {b \in AssetPage : catalogue[b] \in Contracts} :
            k = [asset |-> a, contract |-> catalogue[a]]
      BY <2>2, Zenon DEF Filtered
    <3>2. QED
      BY <2>1, <3>1 DEF Kept
  <2>3. QED
    BY <2>2
<1>2. /\ found' \subseteq Kept /\ toAdd' \subseteq Kept
      /\ toRemove' \subseteq Assets /\ watchlist' \subseteq Assets
  BY <1>1 DEF AssetsOf, Kept, MapInv, MapType, WatcherAlone, Tick, ReadPage, ReadLastPage, ReadFails,
     AllOffered, AllRetired, Edit, watchVars
<1>3. QED
  BY <1>2 DEF MapInv, MapType, BuildingIsFree, DeletingIsHeld, MapIsExact, withdrawVars

LEMMA OfferMap ==
  ASSUME MapInv, NEW k \in toAdd, OfferAsset(k)
  PROVE  MapInv'
<1>1. k \in Kept /\ k.asset \in Assets
  BY DEF MapInv, MapType, Kept
<1>2. BuildingIsFree' /\ building' \subseteq Kept
  BY <1>1 DEF OfferAsset, BuildingIsFree
<1>3. QED
  BY <1>1, <1>2 DEF OfferAsset, Offer, MapInv, MapType, DeletingIsHeld, MapIsExact

LEMMA BuildMap ==
  ASSUME MapInv, Build
  PROVE  MapInv'
<1>1. PICK k \in building :
        /\ spawned' = [spawned EXCEPT ![k.asset] = k.contract]
        /\ running' = [running EXCEPT ![k.asset][k.contract] = @ + 1]
  BY DEF Build
<1>2. k.asset \in Assets /\ k.contract \in Contracts
  BY DEF MapInv, MapType, Kept
<1>3. spawned[k.asset] = None /\ k.asset \notin deleting
  BY DEF MapInv, BuildingIsFree, DeletingIsHeld
<1>4. \A c \in Contracts : running[k.asset][c] = 0
  BY <1>2, <1>3, ContractsAssumption DEF MapInv, MapIsExact
<1>5. MapType'
  BY <1>1, <1>2 DEF Build, MapInv, MapType, watchVars
<1>6. MapIsExact'
  BY <1>1, <1>2, <1>3, <1>4 DEF Build, MapInv, MapType, MapIsExact
<1>7. BuildingIsFree' /\ DeletingIsHeld'
  BY <1>1, <1>2, <1>3 DEF Build, MapInv, MapType, BuildingIsFree, DeletingIsHeld
<1>8. QED
  BY <1>5, <1>6, <1>7 DEF MapInv

LEMMA RetireMap ==
  ASSUME MapInv, NEW a \in Assets, RetireAsset(a)
  PROVE  MapInv'
<1>1. CASE spawned[a] = None
  BY <1>1 DEF RetireAsset, Retire, MapInv, MapType, BuildingIsFree, DeletingIsHeld, MapIsExact
<1>2. CASE spawned[a] # None
  <2>1. /\ running' = [running EXCEPT ![a][spawned[a]] = @ - 1]
        /\ deleting = {} /\ deleting' = {a}
        /\ UNCHANGED <<spawned, building, toAdd, found, watchlist>>
        /\ toRemove' \subseteq toRemove
    BY <1>2 DEF RetireAsset, Retire
  <2>2. spawned[a] \in Contracts /\ running[a][spawned[a]] = 1
    BY <1>2, <2>1 DEF MapInv, MapType, MapIsExact
  <2>3. MapType'
    BY <2>1, <2>2 DEF MapInv, MapType
  <2>4. MapIsExact'
    BY <2>1, <2>2 DEF MapInv, MapType, MapIsExact
  <2>5. QED
    BY <1>2, <2>1, <2>3, <2>4 DEF MapInv, BuildingIsFree, DeletingIsHeld
<1>3. QED
  BY <1>1, <1>2

LEMMA DeleteMap ==
  ASSUME MapInv, Delete
  PROVE  MapInv'
<1>1. PICK a \in deleting : spawned' = [spawned EXCEPT ![a] = None]
  BY DEF Delete
<1>2. a \in Assets /\ deleting = {a} /\ deleting' = {}
  BY DEF Delete, MapInv, MapType, DeletingIsHeld
<1>3. MapIsExact'
  BY <1>1, <1>2, ContractsAssumption DEF Delete, MapInv, MapType, MapIsExact
<1>4. BuildingIsFree'
  BY <1>1, <1>2 DEF Delete, MapInv, MapType, BuildingIsFree, Kept
<1>5. QED
  BY <1>1, <1>2, <1>3, <1>4 DEF Delete, MapInv, MapType, DeletingIsHeld, watchVars

LEMMA NextMap == MapInv /\ [Next]_vars => MapInv'
<1> SUFFICES ASSUME MapInv, [Next]_vars PROVE MapInv'
  OBVIOUS
<1>1. CASE \E a \in Assets, form \in Forms : Edit(a, form) /\ UNCHANGED withdrawVars
  BY <1>1, WatcherMap
<1>2. CASE WatcherAlone /\ UNCHANGED withdrawVars
  BY <1>2, WatcherMap
<1>3. CASE \E k \in toAdd : OfferAsset(k)
  BY <1>3, OfferMap
<1>4. CASE \E a \in toRemove : RetireAsset(a)
  BY <1>4, RetireMap DEF MapInv, MapType
<1>5. CASE Build
  BY <1>5, BuildMap
<1>6. CASE BuildFails
  BY <1>6 DEF BuildFails, watchVars, MapInv, MapType, BuildingIsFree, DeletingIsHeld, MapIsExact
<1>7. CASE Delete
  BY <1>7, DeleteMap
<1>8. CASE Crash
  BY <1>8, ContractsAssumption DEF Crash, MapInv, MapType, BuildingIsFree, DeletingIsHeld, MapIsExact
<1>9. CASE UNCHANGED vars
  BY <1>9, WatcherMap DEF vars
<1>10. QED
  BY <1>1, <1>2, <1>3, <1>4, <1>5, <1>6, <1>7, <1>8, <1>9 DEF Next, ServiceStep, WatcherStep

\* Whatever fails and however spawner and cancellor interleave, spawned holds the
\* cancel function of exactly the instances that run.
THEOREM MapAlwaysExact == Spec => []MapIsExact
<1>1. MapInv => MapIsExact
  BY DEF MapInv
<1>2. QED
  BY InitMap, NextMap, <1>1, PTL DEF Spec
-----------------------------------------------------------------------------
LEMMA InitSingle == Init => Single!Init
BY DEF Init, Single!Init, Single!NoneLive

\* The spawner starts an instance only where the map, which is exact, has none.
LEMMA BuildSingle ==
  ASSUME MapInv, Build
  PROVE  Single!Next
<1>1. PICK k \in building : running' = [running EXCEPT ![k.asset][k.contract] = @ + 1]
  BY DEF Build
<1>2. k.asset \in Assets /\ k.contract \in Contracts
  BY DEF MapInv, MapType, Kept
<1>3. running[k.asset] = Single!NoneLive
  <2>1. \A c \in Contracts : running[k.asset][c] = 0
    BY <1>2, ContractsAssumption DEF MapInv, BuildingIsFree, MapIsExact
  <2>2. QED
    BY <1>2, <2>1 DEF MapInv, MapType, Single!NoneLive
<1>4. running'[k.asset] = [Single!NoneLive EXCEPT ![k.contract] = 1]
  <2>1. running'[k.asset] = [running[k.asset] EXCEPT ![k.contract] = @ + 1]
    BY <1>1, <1>2 DEF MapInv, MapType
  <2>2. running[k.asset][k.contract] = 0
    BY <1>2, <1>3 DEF Single!NoneLive
  <2>3. QED
    BY <1>3, <2>1, <2>2
<1>5. \A a \in Assets \ {k.asset} : running'[a] = running[a]
  BY <1>1, <1>2 DEF MapInv, MapType
<1>6. QED
  BY <1>2, <1>3, <1>4, <1>5 DEF Single!Next, Single!Keep, Single!End, Single!Start

\* Cancelling the one instance the map has leaves none.
LEMMA RetireSingle ==
  ASSUME MapInv, NEW a \in Assets, RetireAsset(a)
  PROVE  [Single!Next]_running
<1>1. CASE spawned[a] = None
  BY <1>1 DEF RetireAsset
<1>2. CASE spawned[a] # None
  <2>1. running' = [running EXCEPT ![a][spawned[a]] = @ - 1] /\ deleting = {}
    BY <1>2 DEF RetireAsset
  <2>2. \A c \in Contracts : running[a][c] = IF spawned[a] = c THEN 1 ELSE 0
    BY <2>1 DEF MapInv, MapIsExact
  <2>3. spawned[a] \in Contracts
    BY <1>2 DEF MapInv, MapType
  <2>4. running'[a] = Single!NoneLive
    <3>1. running'[a] = [running[a] EXCEPT ![spawned[a]] = @ - 1]
      BY <2>1 DEF MapInv, MapType
    <3>2. QED
      BY <2>2, <2>3, <3>1 DEF MapInv, MapType, Single!NoneLive
  <2>5. \A b \in Assets \ {a} : running'[b] = running[b]
    BY <2>1 DEF MapInv, MapType
  <2>6. QED
    BY <2>4, <2>5 DEF Single!Next, Single!Keep, Single!End
<1>3. QED
  BY <1>1, <1>2

LEMMA NextSingle == MapInv /\ [Next]_vars => [Single!Next]_running
<1> SUFFICES ASSUME MapInv, [Next]_vars PROVE [Single!Next]_running
  OBVIOUS
<1>1. CASE Build
  BY <1>1, BuildSingle
<1>2. CASE \E a \in toRemove : RetireAsset(a)
  BY <1>2, RetireSingle DEF MapInv, MapType
<1>3. CASE Crash
  BY <1>3 DEF Crash, Single!Next, Single!End, Single!NoneLive
<1>4. CASE \/ \E k \in toAdd : OfferAsset(k)
           \/ BuildFails \/ Delete \/ UNCHANGED withdrawVars \/ UNCHANGED vars
  BY <1>4 DEF OfferAsset, BuildFails, Delete, withdrawVars, vars
<1>5. QED
  BY <1>1, <1>2, <1>3, <1>4 DEF Next, ServiceStep, WatcherStep

\* The withdrawer implements the promise of SingleInstance: an instance starts only
\* for an asset that has none, however spawner, cancellor, failures and restarts
\* interleave (spawner, cancellor, spawn).
THEOREM StartsOneAtATime == Spec => OneAtATime
<1>1. MapInv /\ [Next]_vars => [Single!Next]_running
  BY NextSingle
<1>2. QED
  BY InitMap, NextMap, InitSingle, <1>1, PTL DEF Spec, OneAtATime, Single!Spec
-----------------------------------------------------------------------------
\* A sweep begins with nothing left to offer, and offers only what it found: what
\* an abandoned sweep found is never offered.
SweepInv ==
  /\ catalogue \in [Assets -> Forms]
  /\ phase \in {"idle", "reading", "adding", "removing"}
  /\ from \in Assets \cup {0}
  /\ toAdd \subseteq found
  /\ phase # "adding" => toAdd = {}

OneBuilding == \A j, k \in building : j = k

SupervisionInv == MapInv /\ SweepInv /\ OneBuilding

LEMMA InitSweep == Init => SweepInv /\ OneBuilding
BY DEF Init, WatchInit, Fresh, Forms, SweepInv, OneBuilding

LEMMA WatcherSweep ==
  ASSUME SweepInv, WatcherAlone
  PROVE  SweepInv'
<1>1. CASE Tick
  BY <1>1 DEF Tick, SweepInv
<1>2. CASE ReadPage
  <2>1. AssetPage \subseteq Assets
    BY DEF AssetPage
  <2>2. QED
    BY <1>2, <2>1 DEF ReadPage, SweepInv
<1>3. CASE ReadLastPage
  BY <1>3 DEF ReadLastPage, SweepInv
<1>4. CASE ReadFails
  BY <1>4 DEF ReadFails, SweepInv
<1>5. CASE AllOffered
  BY <1>5 DEF AllOffered, SweepInv
<1>6. CASE AllRetired
  BY <1>6 DEF AllRetired, SweepInv
<1>7. QED
  BY <1>1, <1>2, <1>3, <1>4, <1>5, <1>6 DEF WatcherAlone

LEMMA NextSweep ==
  ASSUME SweepInv, OneBuilding, [Next]_vars
  PROVE  SweepInv' /\ OneBuilding'
<1>1. CASE \E a \in Assets, form \in Forms : Edit(a, form) /\ UNCHANGED withdrawVars
  BY <1>1 DEF Edit, watchVars, withdrawVars, SweepInv, OneBuilding
<1>2. CASE WatcherAlone /\ UNCHANGED withdrawVars
  BY <1>2, WatcherSweep DEF withdrawVars, OneBuilding
<1>3. CASE \E k \in toAdd : OfferAsset(k)
  BY <1>3 DEF OfferAsset, Offer, SweepInv, OneBuilding
<1>4. CASE \E a \in toRemove : RetireAsset(a)
  BY <1>4 DEF RetireAsset, Retire, SweepInv, OneBuilding
<1>5. CASE Build \/ BuildFails \/ Delete
  BY <1>5 DEF Build, BuildFails, Delete, watchVars, SweepInv, OneBuilding
<1>6. CASE Crash
  BY <1>6 DEF Crash, SweepInv, OneBuilding
<1>7. CASE UNCHANGED vars
  BY <1>7 DEF vars, watchVars, withdrawVars, SweepInv, OneBuilding
<1>8. QED
  BY <1>1, <1>2, <1>3, <1>4, <1>5, <1>6, <1>7 DEF Next, ServiceStep, WatcherStep

LEMMA AtMostOne ==
  ASSUME NEW S, \A x, y \in S : x = y
  PROVE  Cardinality(S) <= 1
<1>1. CASE S = {}
  BY <1>1, FS_EmptySet
<1>2. CASE S # {}
  <2>1. PICK x \in S : S = {x}
    BY <1>2
  <2>2. QED
    BY <2>1, FS_Singleton
<1>3. QED
  BY <1>1, <1>2

\* Watcher and withdrawer keep their types: in particular the watcher offers only
\* what the sweep it is in found, and spawner and cancellor have one asset each in
\* hand (processAllAssetsOnce, spawner, cancellor).
THEOREM SupervisionTypes == Spec => []TypeOK
<1>1. Init => SupervisionInv
  BY InitMap, InitSweep DEF SupervisionInv
<1>2. SupervisionInv /\ [Next]_vars => SupervisionInv'
  BY NextMap, NextSweep DEF SupervisionInv
<1>3. SupervisionInv => TypeOK
  BY AtMostOne DEF SupervisionInv, MapInv, MapType, SweepInv, OneBuilding, DeletingIsHeld,
     TypeOK, WatchTypeOK
<1>4. QED
  BY <1>1, <1>2, <1>3, PTL DEF Spec
=============================================================================
