------------------------------- MODULE System -------------------------------
(***************************************************************************)
(* The whole process: the watcher and the withdrawer of module Supervision *)
(* over the running instances of module WithdrawService.  The map spawned  *)
(* holds the cancel function of one instance of each asset; handle says of *)
(* which.                                                                  *)
(*                                                                         *)
(* An instance starts with the store of its cancel function (spawn) and is *)
(* cancelled when the cancellor calls that function.  Nothing else joins   *)
(* the two halves, but a crash ends both.  WithdrawService lets an instance*)
(* start only when no other of its asset is live; here nobody looks at the *)
(* instances, and that nothing else happens is what has to be shown.       *)
(*                                                                         *)
(* An asset keeps the payment of its requests: an asset that moves to      *)
(* another contract is the subject of Supervision alone.                   *)
(***************************************************************************)
EXTENDS WithdrawService

CONSTANTS
  Assets, Contracts, ContractsOf, AssetPageLimit, ListMayFail, NodeMayFail

VARIABLES
  catalogue, phase, from, found, toAdd, toRemove, watchlist,
  spawned, running, building, deleting,
  handle   \* [Assets -> the instance whose cancel function spawned holds, or holds no more]

Withdrawer == INSTANCE Supervision WITH ProcessMayCrash <- "crash" \in Faults

NoInstance == "none"

\* Each instance is for an asset, and has workers; assets come and go.
ASSUME SystemAssumption ==
  /\ \A i \in Instances : Asset[i] \in Assets /\ \E w \in Workers : Inst[w] = i
  /\ NoInstance \notin Instances /\ Withdrawer!None \notin Contracts
  /\ "cancel" \in Faults

mapVars    == <<spawned, running, building, deleting>>
superVars  == <<catalogue, phase, from, found, toAdd, toRemove, watchlist, mapVars>>
systemVars == <<vars, superVars, handle>>

SystemInit ==
  /\ Init
  /\ Withdrawer!Init
  /\ handle = [a \in Assets |-> NoInstance]
-----------------------------------------------------------------------------
\* spawn: the store and the start of the goroutines.  Instance i is one that does
\* not run: a new one, or one whose last goroutine has returned.
BuildInstance(i) ==
  /\ \E k \in building : k.asset = Asset[i]
  /\ Withdrawer!Build
  /\ Start(i)
  /\ handle' = [handle EXCEPT ![Asset[i]] = i]

\* Mutant: the cancellor forgets to call the function it has loaded.
RetireUncalled(a) ==
  /\ Withdrawer!RetireAsset(a)
  /\ UNCHANGED <<vars, handle>>

\* cancellor: an asset that is in the map has its instance cancelled.
RetireInstance(a) ==
  /\ Withdrawer!RetireAsset(a)
  /\ \/ /\ spawned[a] = Withdrawer!None
        /\ UNCHANGED vars
     \/ /\ spawned[a] # Withdrawer!None
        /\ cancelled' = [cancelled EXCEPT ![handle[a]] = TRUE]
        /\ UNCHANGED <<ledgerVars, ethVars, pc, todo, cur, cursor, nonce, block>>
  /\ UNCHANGED handle

SystemCrash ==
  /\ Crash
  /\ Withdrawer!Crash
  /\ handle' = [a \in Assets |-> NoInstance]

\* Steps of the watcher and the withdrawer that touch no instance.
WithdrawerAlone ==
  \/ \E a \in Assets, form \in Withdrawer!Forms :
       Withdrawer!Edit(a, form) /\ UNCHANGED mapVars
  \/ Withdrawer!WatcherAlone /\ UNCHANGED mapVars
  \/ \E k \in toAdd : Withdrawer!OfferAsset(k)
  \/ Withdrawer!BuildFails
  \/ Withdrawer!Delete

SystemNext ==
  \/ Work /\ UNCHANGED <<superVars, handle>>
  \/ WithdrawerAlone /\ UNCHANGED <<vars, handle>>
  \/ \E i \in Instances : BuildInstance(i)
  \/ \E a \in toRemove : RetireInstance(a)
  \/ SystemCrash

SystemSpec == SystemInit /\ [][SystemNext]_systemVars
-----------------------------------------------------------------------------
\* The instances that are not cancelled are those whose cancel function is in the
\* map, and not being called: there is never a second one of an asset, nor one
\* that a removal could not reach, whatever offers, builds, failures, removals and
\* panics come between the look into the map and the store (spawner, cancellor).
LiveIsHandled ==
  \A i \in Instances :
    Live(i) <=> /\ spawned[Asset[i]] # Withdrawer!None
                /\ Asset[i] \notin deleting
                /\ handle[Asset[i]] = i

\* The process implements WithdrawService: its withdrawer starts an instance only
\* when the asset has none that is live, and cancels only live ones.
ImplementsService == Spec
=============================================================================
