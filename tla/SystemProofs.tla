---------------------------- MODULE SystemProofs -----------------------------
(***************************************************************************)
(* The process implements WithdrawService: proofs for any assets, contracts*)
(* and pages of the watcher, any instances and workers, and every failure. *)
(*                                                                         *)
(* WithdrawService assumes of its Spawn that the asset has no instance that*)
(* is live, and nobody in the process looks.  It follows from the map: the *)
(* spawner builds only for an asset the map lacks, the cancellor deletes   *)
(* only what the map has, and what is live is in the map.  The last needs  *)
(* the other direction too, that no instance comes to life by itself.  The *)
(* one step that could wake a stopped worker is the recovery of a panic in *)
(* an answer, so the invariant also says that only a worker in a review    *)
(* waits for an answer.                                                    *)
(***************************************************************************)
EXTENDS System, WithdrawServiceProofs

Waiting == {"approving1", "approving2", "approving", "rejecting"}

WaitsInReview == \A w \in Workers : reply[w] # "none" => pc[w] \in Waiting

\* Nothing starts or ends.
LivesKept == \A i \in Instances : Live(i)' <=> Live(i)
-----------------------------------------------------------------------------
(* The workers. *)

\* What a step of worker w does to its own loop.
WorkerKept(w) ==
  /\ cancelled' = cancelled
  /\ reply'[w] # "none" => pc'[w] \in Waiting
  /\ pc[w] # "stopped"
  /\ pc'[w] = "stopped" => Cancelled(w)

LEMMA OracleKept ==
  ASSUME TypeInv, WaitsInReview, NEW o \in Oracles, OracleNext(o)
  PROVE  WorkerKept(o)
<1> o \in Workers
  BY WorkersAre
<1>1. /\ pc \in [Workers -> States]
      /\ reply \in [Workers -> {"none", "sent", "applied", "refused"}]
      /\ reply[o] # "none" => pc[o] \in Waiting
  BY DEF TypeInv, RunnerOK, RunnerTypeOK, States, LedgerOK, LedgerTypeOK, WaitsInReview
<1>2. ASSUME OracleFetch(o) \/ OracleLoop(o) PROVE WorkerKept(o)
  BY <1>1, <1>2 DEF OracleFetch, OracleLoop, Fetch, FetchShortPage, FetchFullPage,
     FetchFails, NilPagePanics, Stop, runnerVars, ledgerVars, Waiting, WorkerKept
<1>3. ASSUME NEW r \in todo[o], RejectDetails(o, r) \/ FirstReview(o, r)
      PROVE  WorkerKept(o)
  BY <1>1, <1>3 DEF RejectDetails, FirstReview, StartItem, First, Waiting, WorkerKept
<1>4. ASSUME RejectTooSmall(o) \/ GetNonce(o) \/ SendTransaction(o) \/ NonceFails(o)
             \/ SendFails(o) \/ NodeRefuses(o) \/ SendReplyLost(o) \/ SendReturns(o)
      PROVE  WorkerKept(o)
  BY <1>1, <1>4 DEF RejectTooSmall, GetNonce, SendTransaction, NonceFails, SendFails,
     NodeRefuses, SendReplyLost, RejectTransferFailed, SendReturns, Goto,
     ledgerVars, Waiting, WorkerKept
<1>5. ASSUME Forget(o), Goto(o, "reserved") \/ EndItem(o) \/ AbandonPage(o),
             pc[o] \in Waiting
      PROVE  WorkerKept(o)
  BY <1>1, <1>5, AfterItemType DEF Forget, Goto, EndItem, AbandonPage, AfterItem,
     Waiting, WorkerKept
<1>6. ASSUME FirstReviewReply(o) \/ LastReviewReply(o) \/ OraclePanics(o)
      PROVE  WorkerKept(o)
  <2>1. Forget(o) /\ pc[o] \in Waiting
    BY <1>1, <1>6, RepliesForget DEF FirstReviewReply, LastReviewReply, OraclePanics,
       ReplyPanics, Waiting
  <2>2. QED
    BY <1>5, <1>6, <2>1 DEF FirstReviewReply, LastReviewReply, OraclePanics
<1>7. QED
  BY <1>2, <1>3, <1>4, <1>6 DEF OracleNext

LEMMA VerifierKept ==
  ASSUME TypeInv, WaitsInReview, NEW v \in Verifiers, VerifierNext(v)
  PROVE  WorkerKept(v)
<1> v \in Workers
  BY WorkersAre
<1>1. /\ pc \in [Workers -> States]
      /\ reply \in [Workers -> {"none", "sent", "applied", "refused"}]
      /\ reply[v] # "none" => pc[v] \in Waiting
  BY DEF TypeInv, RunnerOK, RunnerTypeOK, States, LedgerOK, LedgerTypeOK, WaitsInReview
<1>2. ASSUME VerifierFetch(v) \/ VerifierLoop(v) PROVE WorkerKept(v)
  BY <1>1, <1>2 DEF VerifierFetch, VerifierLoop, Fetch, FetchShortPage, FetchFullPage,
     FetchFails, NilPagePanics, Stop, runnerVars, ledgerVars, Waiting, WorkerKept
<1>3. ASSUME NEW r \in todo[v],
             RejectNoHash(v, r) \/ RejectFailedTx(v, r) \/ ReceiptFound(v, r)
      PROVE  WorkerKept(v)
  BY <1>1, <1>3 DEF RejectNoHash, RejectFailedTx, ReceiptFound, StartItem, First,
     ledgerVars, Waiting, WorkerKept
<1>4. ASSUME NEW r \in todo[v], LeaveForLater(v, r) \/ LogPanics(v, r)
      PROVE  WorkerKept(v)
  BY <1>1, <1>4 DEF LeaveForLater, LogPanics, SkipItem, AbandonPage, First, AfterItem,
     ledgerVars, Waiting, WorkerKept
<1>5. ASSUME NotConfirmed(v) \/ Confirmed(v) PROVE WorkerKept(v)
  <2>1. CASE Confirmed(v)
    BY <1>1, <2>1 DEF Confirmed, Goto, Waiting, WorkerKept
  <2>2. CASE NotConfirmed(v)
    <3>1. reply[v] = "none"
      BY <1>1, <2>2 DEF NotConfirmed, Waiting
    <3>2. QED
      BY <1>1, <2>2, <3>1 DEF NotConfirmed, EndItem, AfterItem, ledgerVars, WorkerKept
  <2>3. QED
    BY <1>5, <2>1, <2>2
<1>6. ASSUME ReviewReply(v) \/ VerifierPanics(v) PROVE WorkerKept(v)
  <2>1. Forget(v) /\ pc[v] \in Waiting
    BY <1>1, <1>6, RepliesForget DEF ReviewReply, VerifierPanics, ReplyPanics, Waiting
  <2>2. QED
    BY <1>1, <1>6, <2>1 DEF ReviewReply, VerifierPanics, Forget, EndItem, AbandonPage,
       AfterItem, Waiting, WorkerKept
<1>7. QED
  BY <1>2, <1>3, <1>4, <1>5, <1>6 DEF VerifierNext, VerifierItem

LEMMA WorkerStep ==
  ASSUME TypeInv, WaitsInReview, NEW w \in Workers,
         \/ w \in Oracles /\ OracleNext(w)
         \/ w \in Verifiers /\ VerifierNext(w)
  PROVE  LivesKept /\ WaitsInReview'
<1>1. LocalStep(w) /\ WorkerKept(w)
  BY OracleIsLocal, VerifierIsLocal, OracleKept, VerifierKept
<1>2. WaitsInReview'
  BY <1>1 DEF LocalStep, WorkerKept, WaitsInReview
<1>3. \A i \in Instances : ~cancelled[i] => (Running(i)' <=> Running(i))
  BY <1>1 DEF LocalStep, WorkerKept, Cancelled, Running
<1>4. LivesKept
  BY <1>1, <1>3 DEF WorkerKept, LivesKept, Live
<1>5. QED
  BY <1>2, <1>4

\* Nor does the world outside the process start or end an instance.
LEMMA OutsideStep ==
  ASSUME TypeInv, WaitsInReview,
         \/ LedgerNext /\ UNCHANGED <<ethVars, runnerVars, nonce, block>>
         \/ EthNext /\ UNCHANGED <<ledgerVars, runnerVars, nonce, block>>
         \/ UNCHANGED vars
  PROVE  LivesKept /\ WaitsInReview'
<1>1. reply \in [Workers -> {"none", "sent", "applied", "refused"}]
  BY DEF TypeInv, LedgerOK, LedgerTypeOK
<1>2. pc' = pc /\ cancelled' = cancelled
  BY DEF runnerVars, vars
<1>3. \A w \in Workers : reply'[w] # "none" => reply[w] # "none"
  BY <1>1 DEF LedgerNext, CreateRequest, LedgerApply, LedgerRefuse, LateApply, ledgerVars,
     vars
<1>4. QED
  BY <1>2, <1>3 DEF LivesKept, Live, Running, WaitsInReview
-----------------------------------------------------------------------------
(* The map of the withdrawer, as module Supervision leaves it. *)

MapType ==
  /\ spawned \in [Assets -> Contracts \cup {Withdrawer!None}]
  /\ building \subseteq Withdrawer!Kept
  /\ deleting \subseteq Assets
  /\ toAdd \subseteq Withdrawer!Kept
  /\ found \subseteq Withdrawer!Kept
  /\ toRemove \subseteq Assets
  /\ watchlist \subseteq Assets

\* The spawner builds what the map lacks, one asset at a time.
BuildingIsFree ==
  /\ \A k \in building : spawned[k.asset] = Withdrawer!None
  /\ \A j, k \in building : j = k

\* The cancellor deletes what the map has, one asset at a time.
DeletingIsHeld ==
  /\ \A a \in deleting : spawned[a] # Withdrawer!None
  /\ \A a, b \in deleting : a = b

MapInv == MapType /\ BuildingIsFree /\ DeletingIsHeld

\* The instance a map entry can cancel is one of the asset.
HandleFits ==
  /\ handle \in [Assets -> Instances \cup {NoInstance}]
  /\ \A a \in Assets : spawned[a] # Withdrawer!None =>
       handle[a] \in Instances /\ Asset[handle[a]] = a

SystemInv == TypeInv /\ WaitsInReview /\ MapInv /\ HandleFits /\ LiveIsHandled

LEMMA InstanceFacts ==
  /\ \A i \in Instances : Asset[i] \in Assets
  /\ \A i \in Instances : \E w \in Workers : Inst[w] = i
  /\ NoInstance \notin Instances /\ Withdrawer!None \notin Contracts
  /\ "cancel" \in Faults
BY SystemAssumption

LEMMA InitSystem == SystemInit => SystemInv
<1> SUFFICES ASSUME SystemInit PROVE SystemInv
  OBVIOUS
<1>1. Init /\ Withdrawer!Init /\ handle = [a \in Assets |-> NoInstance]
  BY DEF SystemInit
<1>2. /\ spawned = [a \in Assets |-> Withdrawer!None]
      /\ building = {} /\ deleting = {} /\ toAdd = {} /\ found = {}
      /\ toRemove = {} /\ watchlist = {}
  BY <1>1 DEF Withdrawer!Init, Withdrawer!WatchInit, Withdrawer!Fresh
<1>3. MapInv /\ HandleFits
  BY <1>1, <1>2 DEF MapInv, MapType, BuildingIsFree, DeletingIsHeld, HandleFits
<1>4. \A i \in Instances : ~Live(i)
  BY <1>1 DEF Init, RunnerInit, Live, Running
<1>5. WaitsInReview
  BY <1>1 DEF Init, LedgerInit, WaitsInReview
<1>6. QED
  BY <1>1, <1>2, <1>3, <1>4, <1>5, InitTypes, InstanceFacts DEF SystemInv, LiveIsHandled
-----------------------------------------------------------------------------
(* Steps that touch no instance: SystemInv is kept, and the service stutters. *)

\* The watcher keeps what it found well formed.
LEMMA WatcherTypes ==
  ASSUME MapType, \/ Withdrawer!WatcherAlone
                  \/ \E a \in Assets, form \in Withdrawer!Forms : Withdrawer!Edit(a, form)
  PROVE  /\ found' \subseteq Withdrawer!Kept /\ toAdd' \subseteq Withdrawer!Kept
         /\ toRemove' \subseteq Assets /\ watchlist' \subseteq Assets
<1>1. Withdrawer!Filtered(Withdrawer!AssetPage) \subseteq Withdrawer!Kept
  <2>1. Withdrawer!AssetPage \subseteq Assets
    BY DEF Withdrawer!AssetPage
  <2>2. ASSUME NEW k \in Withdrawer!Filtered(Withdrawer!AssetPage)
        PROVE  k \in Withdrawer!Kept
    <3>1. PICK a \in {b \in Withdrawer!AssetPage : catalogue[b] \in Contracts} :
            k = [asset |-> a, contract |-> catalogue[a]]
      BY <2>2, Zenon DEF Withdrawer!Filtered
    <3>2. QED
      BY <2>1, <3>1 DEF Withdrawer!Kept
  <2>3. QED
    BY <2>2
<1>2. QED
  BY <1>1 DEF MapType, Withdrawer!AssetsOf, Withdrawer!Kept, Withdrawer!WatcherAlone,
     Withdrawer!Tick, Withdrawer!ReadPage, Withdrawer!ReadLastPage, Withdrawer!ReadFails,
     Withdrawer!AllOffered, Withdrawer!AllRetired, Withdrawer!Edit, Withdrawer!watchVars

LEMMA OfferMap ==
  ASSUME MapInv, NEW k \in toAdd, Withdrawer!OfferAsset(k)
  PROVE  MapInv' /\ UNCHANGED <<spawned, deleting>>
<1>1. k \in Withdrawer!Kept /\ k.asset \in Assets
  BY DEF MapInv, MapType, Withdrawer!Kept
<1>2. BuildingIsFree' /\ building' \subseteq Withdrawer!Kept
  BY <1>1 DEF Withdrawer!OfferAsset, BuildingIsFree
<1>3. QED
  BY <1>1, <1>2 DEF Withdrawer!OfferAsset, Withdrawer!Offer, MapInv, MapType, DeletingIsHeld

LEMMA AloneMap ==
  ASSUME MapInv, WithdrawerAlone
  PROVE  /\ MapInv'
         /\ \/ UNCHANGED <<spawned, deleting>>
            \/ \E a \in deleting : /\ spawned' = [spawned EXCEPT ![a] = Withdrawer!None]
                                   /\ deleting = {a} /\ deleting' = {}
<1>1. ASSUME \/ Withdrawer!WatcherAlone
             \/ \E a \in Assets, form \in Withdrawer!Forms : Withdrawer!Edit(a, form),
             UNCHANGED mapVars
      PROVE  MapInv' /\ UNCHANGED <<spawned, deleting>>
  BY <1>1, WatcherTypes DEF mapVars, MapInv, MapType, BuildingIsFree, DeletingIsHeld
<1>2. ASSUME NEW k \in toAdd, Withdrawer!OfferAsset(k)
      PROVE  MapInv' /\ UNCHANGED <<spawned, deleting>>
  BY <1>2, OfferMap
<1>3. CASE Withdrawer!BuildFails
  BY <1>3 DEF Withdrawer!BuildFails, Withdrawer!watchVars, MapInv, MapType, BuildingIsFree,
     DeletingIsHeld
<1>4. CASE Withdrawer!Delete
  <2>1. PICK a \in deleting : spawned' = [spawned EXCEPT ![a] = Withdrawer!None]
    BY <1>4 DEF Withdrawer!Delete
  <2>2. a \in Assets /\ deleting = {a} /\ deleting' = {}
    BY <1>4 DEF Withdrawer!Delete, MapInv, MapType, DeletingIsHeld
  <2>3. UNCHANGED <<building, toAdd, found, toRemove, watchlist>>
    BY <1>4 DEF Withdrawer!Delete, Withdrawer!watchVars
  <2>4. BuildingIsFree'
    BY <2>1, <2>2, <2>3 DEF MapInv, MapType, BuildingIsFree, Withdrawer!Kept
  <2>5. QED
    BY <2>1, <2>2, <2>3, <2>4 DEF MapInv, MapType, DeletingIsHeld
<1>5. QED
  BY <1>1, <1>2, <1>3, <1>4 DEF WithdrawerAlone

\* A deleted entry is that of an instance already cancelled.
LEMMA AloneStep ==
  ASSUME SystemInv, WithdrawerAlone, UNCHANGED <<vars, handle>>
  PROVE  SystemInv'
<1>1. TypeInv'
  BY NextTypes DEF SystemInv
<1>2. LivesKept /\ WaitsInReview'
  BY DEF vars, runnerVars, ledgerVars, LivesKept, Live, Running, SystemInv, WaitsInReview
<1>3. MapInv'
  BY AloneMap DEF SystemInv
<1>4. \A i \in Instances : Asset[i] \in Assets
  BY InstanceFacts
<1>5. CASE UNCHANGED <<spawned, deleting>>
  BY <1>1, <1>2, <1>3, <1>5 DEF LivesKept, SystemInv, HandleFits, LiveIsHandled
<1>6. ASSUME NEW a \in deleting, spawned' = [spawned EXCEPT ![a] = Withdrawer!None],
             deleting = {a}, deleting' = {}
      PROVE  SystemInv'
  <2>1. a \in Assets /\ spawned \in [Assets -> Contracts \cup {Withdrawer!None}]
    BY DEF SystemInv, MapInv, MapType
  <2>2. HandleFits'
    BY <1>6, <2>1 DEF SystemInv, HandleFits
  <2>3. LiveIsHandled'
    BY <1>2, <1>4, <1>6, <2>1 DEF LivesKept, SystemInv, LiveIsHandled
  <2>4. QED
    BY <1>1, <1>2, <1>3, <2>2, <2>3 DEF SystemInv
<1>7. QED
  BY <1>5, <1>6, AloneMap DEF SystemInv

\* The service at work, and stuttering, start and end no instance.
LEMMA WorkStep ==
  ASSUME SystemInv, Work \/ UNCHANGED vars, UNCHANGED <<superVars, handle>>
  PROVE  SystemInv'
<1>1. TypeInv'
  BY NextTypes DEF SystemInv, Next
<1>2. LivesKept /\ WaitsInReview'
  BY WorkerStep, OutsideStep, WorkersAre DEF SystemInv, Work
<1>3. QED
  BY <1>1, <1>2 DEF superVars, mapVars, LivesKept, SystemInv, MapInv, MapType, BuildingIsFree,
     DeletingIsHeld, HandleFits, LiveIsHandled
-----------------------------------------------------------------------------
(* Build, cancel and crash. *)

\* No instance of the asset is live, for the map lacks it.
LEMMA BuildStep ==
  ASSUME SystemInv, NEW i \in Instances, BuildInstance(i)
  PROVE  Spawn(i) /\ SystemInv'
<1>1. PICK k \in building : spawned' = [spawned EXCEPT ![k.asset] = k.contract]
  BY DEF BuildInstance, Withdrawer!Build
<1>2. /\ k.asset = Asset[i] /\ Asset[i] \in Assets
      /\ k.contract \in Contracts /\ k.contract # Withdrawer!None
      /\ spawned[Asset[i]] = Withdrawer!None /\ Asset[i] \notin deleting
  <2>1. k.contract \in Contracts /\ spawned[k.asset] = Withdrawer!None
    BY DEF SystemInv, MapInv, MapType, BuildingIsFree, Withdrawer!Kept
  <2>2. PICK l \in building : l.asset = Asset[i]
    BY DEF BuildInstance
  <2>3. l = k
    BY DEF SystemInv, MapInv, BuildingIsFree
  <2>4. QED
    BY <2>1, <2>2, <2>3, InstanceFacts DEF SystemInv, MapInv, DeletingIsHeld
<1>3. /\ building' = {} /\ UNCHANGED <<deleting, toAdd, found, toRemove, watchlist>>
      /\ Start(i) /\ handle' = [handle EXCEPT ![Asset[i]] = i]
  BY DEF BuildInstance, Withdrawer!Build, Withdrawer!watchVars
<1>4. Spawn(i)
  BY <1>2, <1>3 DEF Spawn, SystemInv, LiveIsHandled
<1>5. TypeInv'
  BY <1>4, NextTypes DEF SystemInv, Next
<1>6. WaitsInReview'
  <2>1. \A w \in Workers : pc[w] \in Waiting => pc'[w] = pc[w]
    BY <1>3 DEF Start, Running, Waiting
  <2>2. QED
    BY <1>3, <2>1 DEF Start, ledgerVars, SystemInv, WaitsInReview
<1>7. MapInv' /\ HandleFits'
  <2>1. MapType'
    BY <1>1, <1>2, <1>3 DEF SystemInv, MapInv, MapType
  <2>2. HandleFits'
    BY <1>1, <1>2, <1>3 DEF SystemInv, MapInv, MapType, HandleFits
  <2>3. BuildingIsFree' /\ DeletingIsHeld'
    BY <1>1, <1>2, <1>3 DEF SystemInv, MapInv, MapType, BuildingIsFree, DeletingIsHeld
  <2>4. QED
    BY <2>1, <2>2, <2>3 DEF MapInv
<1>8. Live(i)' /\ \A j \in Instances \ {i} : Live(j)' <=> Live(j)
  <2>1. pc \in [Workers -> States] /\ cancelled \in [Instances -> BOOLEAN]
    BY DEF SystemInv, TypeInv, RunnerOK, RunnerTypeOK, States
  <2>2. PICK w \in Workers : Inst[w] = i
    BY InstanceFacts
  <2>3. QED
    BY <1>3, <2>1, <2>2 DEF Start, Live, Running
<1>9. LiveIsHandled'
  <2>1. /\ spawned'[Asset[i]] # Withdrawer!None /\ handle'[Asset[i]] = i
        /\ \A b \in Assets \ {Asset[i]} : spawned'[b] = spawned[b] /\ handle'[b] = handle[b]
    BY <1>1, <1>2, <1>3 DEF SystemInv, MapInv, MapType, HandleFits
  <2>2. \A j \in Instances : Asset[j] = Asset[i] => ~Live(j)
    BY <1>4 DEF Spawn
  <2>3. QED
    BY <1>2, <1>3, <1>8, <2>1, <2>2, InstanceFacts DEF SystemInv, LiveIsHandled
<1>10. QED
  BY <1>4, <1>5, <1>6, <1>7, <1>9 DEF SystemInv

\* The map has the function of an instance that is live, and of no other.
LEMMA RetireStep ==
  ASSUME SystemInv, NEW a \in toRemove, RetireInstance(a)
  PROVE  [Next]_vars /\ SystemInv'
<1>1. /\ a \in Assets /\ deleting = {} /\ handle' = handle
      /\ UNCHANGED <<spawned, building, toAdd, found, watchlist>> /\ toRemove' \subseteq toRemove
  BY DEF RetireInstance, Withdrawer!RetireAsset, Withdrawer!Retire, SystemInv, MapInv, MapType
<1>2. CASE spawned[a] = Withdrawer!None
  <2>1. UNCHANGED vars /\ deleting' = {}
    BY <1>1, <1>2 DEF RetireInstance, Withdrawer!RetireAsset
  <2>2. TypeInv'
    BY <2>1, NextTypes DEF SystemInv
  <2>3. LivesKept /\ WaitsInReview'
    BY <2>1, OutsideStep DEF SystemInv
  <2>4. MapInv' /\ HandleFits' /\ LiveIsHandled'
    BY <1>1, <2>1, <2>3 DEF LivesKept, SystemInv, MapInv, MapType, BuildingIsFree,
       DeletingIsHeld, HandleFits, LiveIsHandled
  <2>5. QED
    BY <2>1, <2>2, <2>3, <2>4 DEF SystemInv
<1>3. CASE spawned[a] # Withdrawer!None
  <2>1. PICK i \in Instances : i = handle[a] /\ Asset[i] = a
    BY <1>1, <1>3 DEF SystemInv, HandleFits
  <2>2. /\ deleting' = {a} /\ cancelled' = [cancelled EXCEPT ![i] = TRUE]
        /\ UNCHANGED <<ledgerVars, ethVars, pc, todo, cur, cursor, nonce, block>>
    BY <1>3, <2>1 DEF RetireInstance, Withdrawer!RetireAsset
  <2>3. Live(i)
    BY <1>1, <1>3, <2>1 DEF SystemInv, LiveIsHandled
  <2>4. Cancel(i)
    BY <2>2, <2>3, InstanceFacts DEF Cancel
  <2>5. [Next]_vars
    BY <2>1, <2>4 DEF Next
  <2>6. TypeInv' /\ WaitsInReview'
    BY <2>2, <2>5, NextTypes DEF SystemInv, WaitsInReview, ledgerVars
  <2>7. ~Live(i)' /\ \A j \in Instances \ {i} : Live(j)' <=> Live(j)
    <3>1. cancelled \in [Instances -> BOOLEAN]
      BY DEF SystemInv, TypeInv, RunnerOK, RunnerTypeOK
    <3>2. QED
      BY <2>1, <2>2, <3>1 DEF Live, Running
  <2>8. MapInv' /\ HandleFits'
    BY <1>1, <1>3, <2>2 DEF SystemInv, MapInv, MapType, BuildingIsFree, DeletingIsHeld,
       HandleFits
  <2>9. LiveIsHandled'
    <3>1. \A j \in Instances \ {i} : Asset[j] = a => ~Live(j)
      BY <1>1, <1>3, <2>1 DEF SystemInv, LiveIsHandled
    <3>2. QED
      BY <1>1, <2>1, <2>2, <2>7, <3>1 DEF SystemInv, LiveIsHandled
  <2>10. QED
    BY <2>5, <2>6, <2>8, <2>9 DEF SystemInv
<1>4. QED
  BY <1>2, <1>3

LEMMA CrashStep ==
  ASSUME SystemInv, SystemCrash
  PROVE  SystemInv'
<1>1. Crash /\ handle' = [a \in Assets |-> NoInstance]
  BY DEF SystemCrash
<1>2. /\ spawned' = [a \in Assets |-> Withdrawer!None]
      /\ building' = {} /\ deleting' = {} /\ toAdd' = {} /\ found' = {}
      /\ toRemove' = {} /\ watchlist' = {}
  BY DEF SystemCrash, Withdrawer!Crash
<1>3. MapInv' /\ HandleFits'
  BY <1>1, <1>2 DEF MapInv, MapType, BuildingIsFree, DeletingIsHeld, HandleFits
<1>4. TypeInv'
  BY <1>1, NextTypes DEF SystemInv, Next
<1>5. WaitsInReview' /\ \A i \in Instances : ~Live(i)'
  BY <1>1 DEF Crash, WaitsInReview, Live, Running
<1>6. QED
  BY <1>2, <1>3, <1>4, <1>5, InstanceFacts DEF SystemInv, LiveIsHandled
-----------------------------------------------------------------------------
LEMMA NextSystem ==
  ASSUME SystemInv, [SystemNext]_systemVars
  PROVE  SystemInv' /\ [Next]_vars
<1>1. ASSUME Work \/ UNCHANGED vars, UNCHANGED <<superVars, handle>>
      PROVE  SystemInv' /\ [Next]_vars
  BY <1>1, WorkStep DEF Next
<1>2. CASE WithdrawerAlone /\ UNCHANGED <<vars, handle>>
  BY <1>2, AloneStep
<1>3. ASSUME NEW i \in Instances, BuildInstance(i) PROVE SystemInv' /\ [Next]_vars
  BY <1>3, BuildStep DEF Next
<1>4. CASE \E a \in toRemove : RetireInstance(a)
  BY <1>4, RetireStep
<1>5. CASE SystemCrash
  BY <1>5, CrashStep DEF SystemCrash, Next
<1>6. QED
  BY <1>1, <1>2, <1>3, <1>4, <1>5 DEF SystemNext, systemVars

\* Whatever the process does, the map and the instances agree: an instance that is
\* not cancelled is the one whose cancel function its asset has in the map.
THEOREM LiveAlwaysHandled == SystemSpec => []LiveIsHandled
<1>1. SystemInv /\ [SystemNext]_systemVars => SystemInv'
  BY NextSystem
<1>2. SystemInv => LiveIsHandled
  BY DEF SystemInv
<1>3. QED
  BY InitSystem, <1>1, <1>2, PTL DEF SystemSpec

\* The process implements WithdrawService, so what is proved of its Spec holds of the
\* process: nobody looks at the instances, yet one starts only when its asset has
\* none that is live (spawner, cancellor, spawn).
THEOREM SystemImplementsService == SystemSpec => ImplementsService
<1>1. SystemInv /\ [SystemNext]_systemVars => SystemInv' /\ [Next]_vars
  BY NextSystem
<1>2. SystemInit => Init
  BY DEF SystemInit
<1>3. QED
  BY InitSystem, <1>1, <1>2, PTL DEF SystemSpec, ImplementsService, Spec
=============================================================================
