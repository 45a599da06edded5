------------------------------ MODULE Ethereum ------------------------------
(***************************************************************************)
(* The Ethereum node and chain as the service uses them: the pending nonce *)
(* of the one account all oracles send from, the acceptance of a signed    *)
(* transfer, receipts, and the height the verifier compares with.          *)
(*                                                                         *)
(* The node accepts one transaction per nonce: a second one at the same    *)
(* gas price, or one below the account's nonce, is refused.  A block holds *)
(* one transfer of the account at most; the next nonce is mined next.      *)
(* A transaction sent by a call that was given up may reach the node later,*)
(* or never.                                                               *)
(***************************************************************************)
EXTENDS Bridge

CONSTANTS
  Confirmations,  \* transfer.confirmations of the configuration
  MaxReorgs,      \* bound: how often the chain switches branch
  ReorgDepth      \* bound: how many blocks a switch takes back at most

ASSUME ConfirmationsAssumption == Confirmations \in Nat
ASSUME MaxReorgsAssumption == MaxReorgs \in Nat /\ ReorgDepth \in Nat

VARIABLES
  txs,     \* every transfer a node ever accepted
  late,    \* those sent by a call nobody waits for, that may still arrive
  pool,    \* those waiting to be mined
  mined,   \* the receipts of the canonical chain
  head,    \* the number of the newest block
  reorgs   \* how many times the chain has switched branch

ethVars == <<txs, late, pool, mined, head, reorgs>>

\* moved:     the receipt is successful and logs the Transfer
\* failed:    the token contract reverted
\* unmatched: successful, but no log is a Transfer of that amount to that address
\* lookalike: the same, but a log that is no such Transfer has its shape
\* anonymous: successful, with a log that has no topics before the Transfer
Outcomes == {"moved", "failed", "unmatched", "lookalike", "anonymous"}

Receipt == [tx : Tx, block : Nat, outcome : Outcomes]

Mined == {m.tx : m \in mined}

EthTypeOK ==
  /\ txs \subseteq Tx /\ late \subseteq Tx
  /\ pool \subseteq txs
  /\ mined \subseteq Receipt /\ Mined \subseteq txs
  /\ head \in Nat
  /\ reorgs \in Nat

EthInit == /\ txs = {} /\ late = {} /\ pool = {} /\ mined = {}
           /\ head = 0 /\ reorgs = 0
-----------------------------------------------------------------------------
UsedNonces == {t.nonce : t \in pool \cup Mined}

\* PendingNonceAt: the first nonce no transaction of the pool or chain has.
IsPendingNonce(n) == n \notin UsedNonces /\ \A k \in 0 .. n - 1 : k \in UsedNonces

NodeAccepts(t) ==
  /\ t.nonce \notin UsedNonces
  /\ txs' = txs \cup {t}
  /\ pool' = pool \cup {t}
  /\ UNCHANGED <<mined, head, reorgs>>

\* A transaction whose sender gave up reaches the node after all.
LateAccept(t) == t \in late /\ NodeAccepts(t) /\ late' = late \ {t}

\* What TransactionReceipt(h) finds.
ReceiptsOf(h) == {m \in mined : HashOf(m.tx) = h}

\* BlockByNumber(block + Confirmations) finds a block.
EnoughConfirmations(block) == head >= block + Confirmations

PossibleOutcomes == {"moved"}
  \cup (IF "revert" \in Faults THEN {"failed"} ELSE {})
  \cup (IF "logs" \in Faults THEN {"unmatched"} ELSE {})
  \cup (IF "lookalike" \in Faults THEN {"lookalike"} ELSE {})
  \cup (IF "anonymous" \in Faults THEN {"anonymous"} ELSE {})

MineTransfer(t, outcome) ==
  /\ t \in pool
  /\ outcome \in PossibleOutcomes
  /\ \A k \in 0 .. t.nonce - 1 : \E m \in Mined : m.nonce = k
  /\ head' = head + 1
  /\ pool' = pool \ {t}
  /\ mined' = mined \cup {[tx |-> t, block |-> head + 1, outcome |-> outcome]}
  /\ UNCHANGED <<txs, late, reorgs>>

\* Blocks without a transfer of the account.  They are only counted while a
\* transfer waits for confirmations, which bounds head.
MineOther ==
  /\ \E m \in mined : ~EnoughConfirmations(m.block)
  /\ head' = head + 1
  /\ UNCHANGED <<txs, late, pool, mined, reorgs>>

\* The node forgets a transaction of its pool (restart, eviction).
Drop(t) ==
  /\ "drop" \in Faults
  /\ t \in pool
  /\ pool' = pool \ {t}
  /\ UNCHANGED <<txs, late, mined, head, reorgs>>

\* The chain switches to a branch, one block longer, that forks below block b;
\* the transfers mined from b on wait in the pool again.
Reorg(b) ==
  /\ "reorg" \in Faults
  /\ reorgs < MaxReorgs /\ head - b < ReorgDepth
  /\ \E m \in mined : m.block >= b
  /\ LET undone == {m \in mined : m.block >= b} IN
       /\ mined' = mined \ undone
       /\ pool' = pool \cup {m.tx : m \in undone}
  /\ head' = head + 1
  /\ reorgs' = reorgs + 1
  /\ UNCHANGED <<txs, late>>

ChainNext ==
  \/ \E t \in pool, outcome \in Outcomes : MineTransfer(t, outcome)
  \/ MineOther
  \/ \E t \in pool : Drop(t)
  \/ \E b \in 1 .. head : Reorg(b)

EthNext == ChainNext \/ \E t \in late : LateAccept(t)
=============================================================================
