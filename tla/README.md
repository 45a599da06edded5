# Models and proofs of the ERC-20 withdraw service

These are TLA+ models of `erc20-withdraw-svc`, the bridge that lets the holder of
a TokenD asset withdraw it to Ethereum, their TLC configurations, and proofs
checked by TLAPS. Paths below are relative to the repository; line numbers are
those of the commit the models were written from. `PROJECT.json` maps every
definition to the lines it stands for.

## The system

A withdraw request locks tokens on the TokenD ledger. Three *pending tasks* keep
track of it; only when no task is left is the request approved, and a rejection
gives the tokens back.

| task | meaning | removed by |
|---|---|---|
| 2048 `taskTryTransfer` | waits for a sender | the oracle, before it sends |
| 4096 `taskCheckTxSentSuccess` | reserved by a sender | the oracle, after it sent |
| 8192 `taskCheckTxConfirmed` | waits for confirmations | the verifier |

The service has no store of its own. What survives a restart is the ledger and
the Ethereum chain.

### Inventory

| component | code | state it keeps | operations | what makes it correct |
|---|---|---|---|---|
| asset watcher | `services/watchlist` | `watchlist`, channels `toAdd`, `toRemove` | a tick every 20 s: list the assets page by page, filter, offer, retire | every listed asset offered on every tick, retired once when it leaves the list, a failed page retires nothing |
| withdrawer | `services/withdrawer` | the map `spawned` (asset -> cancel function) | `spawner`, `cancellor`, `spawn` | one instance per asset, each can be cancelled, listed assets are served and others are not |
| oracle (sender) | `services/oracle` | the page, the item, the nonce just read | list by task 2048; first review; transfer; second review; reject | never sends twice; sends only what it reserved; rejects only what was not sent |
| verifier (confirmer) | `services/verifier` | the page, the item | list by task 8192; receipt, logs, confirmations; approve or reject | approves only what is paid and confirmed, rejects only what cannot be paid |
| page loop | `oracle.Run`, `verifier.Run`, vendored `running.WithBackOff` | the last page, its next link, the back-off | one page per tick; panics recovered per tick | every request that matches is listed again until it stops matching |
| review submission | `approveRequest`, `permanentReject`, `horizon/submit`, `horizon/client` | none | sign, POST, read the answer | no answer is taken for more than it says |
| Horizon getters, queries | `horizon/getters`, `query`, `page`, `path` | filters, page links | `List`, `Next` | the filter and page asked for |
| HTTP client | `horizon/client` | the throttle channel (2048 calls, then one a second) | `Get`, `Do` | bounded rate |
| amounts | `prepareAmount` | none | scale by digits, "too small" | value kept, rounded down |
| receipts | `getWithdrawDetails`, `LogsSuccessful`, `UnpackLog` | none | find the recorded transaction, scan the logs | recognises its own transfer; what else it takes for it has the same shape |
| connector, config, command line | `horizon/connector.go`, `internal/config`, `internal/cli` | configuration read once | start-up | - |
| TokenD ledger, Ethereum node | external | requests; accounts, pool, chain | reviews; transactions, receipts | - |

Interaction: the watcher sends on two unbuffered channels to the two goroutines of
the withdrawer; they share the map `spawned`. An instance is an oracle and a
verifier goroutine under one context. Oracle and verifier of an asset never talk
to each other: the ledger is their only channel. All oracles share one Ethereum
account, and all goroutines one HTTP client.

Hard behaviour: two oracles of one asset (a cancelled instance finishes its page
while its successor lists again; a restart does the same); pages that are
snapshots; answers that say nothing about whether a review was or will be applied;
transactions whose submission fails after the node took them, or before it does; one
nonce sequence used by many; a hash that does not name its request; two reads of the
chain that make one decision; channels and a map that are not updated together. `PROJECT.json` lists each of these as a hazard, at
its line.

## Modules

    Bridge            data all parts share: requests, workers, tasks, faults
    |-- TokenD        ledger and review submission (external + submit.Submit)
    |   `-- Runner    the page loop
    |-- Ethereum      node, pool, chain (external)
    Amounts           prepareAmount
    Receipts          details of a request, address texts, the log scan
    Oracle   = Runner + Ethereum + Amounts    sendWithdraw, callTransfer
    Verifier = Runner + Ethereum              confirmWithdrawSuccessful
    WithdrawService = Oracle + Verifier       spawn, cancel, crash; properties
    WithdrawLifecycle                         what one withdrawal is promised
    Watchlist                                 the asset watcher
    Supervision = Watchlist                   spawner, cancellor; properties
    System = WithdrawService + Supervision    the whole process
    SingleInstance                            what an asset's instances are promised
    MCWithdraw, MCSupervision, MCSystem,      values for TLC
    MCAmounts
    MCTransfers = MCAmounts + Receipts        from an amount to its log
    WithdrawServiceProofs                     types, sent once
    |-- RecordProofs                          what is recorded was sent; what is
    |   |                                     reserved has an oracle at work
    |   |-- ReservationProofs                 what is sent is reserved
    |   |-- PaymentProofs                     what is approved was paid
    |   `-- LifecycleProofs                   what is rejected is not paid; refines
    |         (extends the last two)          WithdrawLifecycle
    `-- SystemProofs                          System refines WithdrawService
    SupervisionProofs                         the map is exact; refines SingleInstance
    TransferProofs                            amounts and receipts

**Steps.** A worker's action runs from one call that leaves the process to the
next. `FirstReview` is lines 38-55 of `oracle/helper.go` up to the POST,
`FirstReviewReply` begins with its answer, `GetNonce` is `PendingNonceAt`,
`SendTransaction` is the node accepting the transaction and `SendReturns`,
`SendReplyLost` what the caller learns of it. An early return with a rejection is an
action of its own (`RejectDetails`, `RejectTooSmall`, `RejectTransferFailed`, ...).
The verifier has one action per return of `confirmWithdrawSuccessful`. The diagram
at the head of `Oracle.tla` gives the order.

**Transfers and hashes.** A transfer (`Tx`) belongs to the request it was built for, but
nothing outside knows: the ledger records, and the verifier looks up, a hash, which nonce,
contract, receiver and amount decide. `Payment` says which requests pay the same, and
`HashOf` forgets the rest. Transfers of two such requests with one nonce have one hash.
`ReceiptsOf` finds what the hash finds. Gas price and limit are the same for all.

**Late sends.** `Transact` runs under the instance's context. When that is cancelled, or
the connection breaks, before the node has answered (`SendFails`), or when the process
stops there (`Crash`), the transaction may already be on its way: it moves to `late`, and
the node may take it at any later time (`LateAccept`), or never. `SendReplyLost` is the
case in which the node had taken it before.

**Ledger.** `Submit` puts an envelope in `call`; `LedgerApply`/`LedgerRefuse` process
it; the worker sees success (`Succeeded`), an error (`Failed`) or a panic
(`ReplyPanics`). With the fault `timeout` an error may come before or after the
ledger applied the envelope. `Submit` builds its HTTP request without the caller's
context, so what was in flight when a worker gave up or crashed moves to `delayed`
and may be applied at any later time.

**Pages.** Requests are numbered in the order Horizon lists them. `Page` gives the
first `PageLimit` (10 in the code) matching requests after the cursor; a full page
sets the cursor, a short one resets it, as `Run` does by the length of the last page.
A failed fetch leads to `nilPage`.

**Supervision.** `OfferAsset` is one receive of `spawner` with its `Load`; the oracle
is built while the watcher and the cancellor go on; `Build` is the `Store` and the
two `go`. `RetireAsset` is a receive of `cancellor` with `Load` and cancel; `Delete`
is separate. The instance inside `Supervision` is only a counter; what an instance
does is `WithdrawService`, where `Spawn` and `Cancel` stand for the withdrawer, and
`Spawn` assumes that no other instance of the asset is live. `System` puts the two
together: every store into the map starts the workers of an instance, the cancellor
cancels the instance whose function it finds (`handle`), a crash ends all. There nobody
looks whether an instance is live. That none is when another starts follows from the map,
and is `ImplementsService`: `System` implements `WithdrawService`. `Supervision` alone
implements `SingleInstance` (`OneAtATime`), with the map and the two goroutines in place
of one step.

**Receipts.** Inside the service a receipt has an outcome. `Receipts` is the code that
finds it: `getWithdrawDetails` reads one record again and again, `LogsSuccessful`
scans the logs, and the address is compared as lower-case text with what the creator
wrote, while the oracle paid the number that text reads as. A text is kept as what
those conversions tell apart (prefix, number of digits, value, spelling), a log as
what `UnpackLog` reads, with the contract that wrote it and its event, which `UnpackLog`
does not read. `MCTransfers` follows an amount from `prepareAmount` to there;
what it shows is what the outcomes `moved`, `unmatched`, `lookalike` and `anonymous` and the forms
`canonical` and `alias` of an address stand for.

**Faults.** A run enables kinds of faults by the constant `Faults` (`Bridge.tla` says
what each is). A property is claimed under the faults of its run only; several runs
below show which fault breaks which property.

### Assumptions about what is outside

* The ledger refuses a review that removes a task that is not set
  (`REMOVING_NOT_SET_TASKS`, vendored `xdr_generated.go`), or of a request that is
  no longer pending, and approves a request when no task is left.
* The service is the only one that reviews these requests; nobody else sets or
  removes the three tasks.
* Horizon pages by identifier, and filters on the ledger's state when asked.
* External details are JSON the service wrote itself, so the verifier's branch for
  unreadable details (`verifier/helper.go:57-60`) is not taken; it would end in the same
  rejection as details without a hash (`RejectNoHash`). Successive reviews append to them.
* A node accepts one transaction per nonce and mines nonces in order.
* A failed call that is not a revert is not told apart from the outcome `failed`.
* Horizon gives a page a next link whenever it has one to give; a link that is missing
  would be an error of the next fetch, which is the fault `list`.

## Runs

| run | instance | checks | result |
|---|---|---|---|
| `DoublePay` | 2 oracles of one asset, 2 requests that pay the same; timeout, refuse, rpc, cancel, crash, drop | `SendOnceInv`, `AtMostOneTransfer`, `RecordedIsSent`, `SharedOnlyIfLost`, `TransferOnlyReserved` | hold; 3.1 million states |
| `Settle` | oracle + verifier, 2 requests that pay the same, one with another spelling of its address, pages of 1; timeout, refuse, list, crash, panic, drop, revert, logs, anonymous | `TypeOK`, `RejectedNotPaid`, `ApprovedIsPaid`, `ImplementsLifecycle` | hold; 414 thousand states |
| `LiveSettle` | oracle + verifier, 5 requests (normal, too small, entering with task 8192 only, no address, unreadable), pages of 1; rpc, revert, lookalike; fairness | `ReservedIsHeld`, `Settled`, `PaidIsApproved` | hold; 57 thousand states |
| `LiveWaits` | oracle + verifier, 2 requests that pay the same, one with another spelling of its address; crash, timeout, refuse, list, drop, revert, logs, anonymous, panic; fairness | `OnlyStuckWaits` | holds; 341 thousand states |
| `Amounts` | 14 x 14 amounts, digits 0..2, words of 16 bits; for two amounts every small address text, every history of up to 1 earlier review and every receipt of up to 2 logs, of this contract or another | `WorthTheSame`, `SplitPaysNoMore`, `TooSmallIsNothing`, `OwnTransferRecognised`, `RecognisedLooksMoved` | hold; 3.4 million states |
| `Watch` | 2 assets, one of which may move between two contracts, pages of 1, failing pages, builds and crashes; fairness | `TypeOK`, `MapIsExact`, `ListedIsServed`, `OneAtATime` | hold; 46 thousand states |
| `Process` | watcher, withdrawer and 2 instances of an asset with an oracle each, 1 request; cancel, crash, panic, failing pages and builds | `LiveIsHandled`, `ImplementsService` | hold; 564 thousand states |
| `CancelRejects` | one oracle; cancel | `RejectedNotPaid` | **violated** |
| `NonceRace` | 2 oracles of 2 assets; no fault | `TransferFailedIsFault` | **violated** |
| `SharedHash` | oracle + verifier, 2 requests that pay the same; drop | `EachPaidOnce` | **violated** |
| `ReorgApproves` | oracle + verifier, 2 confirmations; one switch of branch that takes back no confirmed block | `ApprovedIsPaid` | **violated** |
| `LostRemoval` | 1 asset, no fault; fairness | `RemovedIsStopped` | **violated** |

*When a withdrawal waits for ever.* While the ledger answers, every request ends
(`Settled`). Under faults it may not, and `OnlyStuckWaits` says why: a request that stays
pending for ever has, from some time on, one of five causes, and there is no sixth.

| cause | what happened | code |
|---|---|---|
| `Stranded` | a review was answered by an error, or the page was lost to a panic or a crash, between the two reviews of `sendWithdraw`: task 4096 is set, and no filter lists it | `oracle/helper.go:38-82` |
| `Forgotten` | the node dropped the recorded transaction, or one with a lower nonce: nothing sends again | `verifier/helper.go:72` |
| `Unseen` | the receipt is successful, but the scan does not find the transfer: another spelling of the address, or no matching log | `verifier/helper.go:85` |
| `Shadowed` | its receipt, or that of a request before it on the page, has a log without topics: every tick panics there | `verifier/helper.go:136` |
| `Unlisted` | a list failed once, and the loop lost its page | `oracle/service.go:23`, `verifier/service.go:22` |

Each of the five is needed: without any one of them the property fails in this run.
`ReservedIsHeld` is the other side of `Stranded`: with an answering ledger no way
through `sendWithdraw` leaves a request reserved and nobody at it.

What the five violations show:

* *CancelRejects*: the context of an instance is cancelled while `Transact` runs.
  The node has the transaction, `Transact` returns the context's error, and
  `sendWithdraw` rejects the request for good: the tokens are given back and paid. The
  same happens when the transaction arrives only after the rejection was applied;
  `TransferOnlyReserved` says that this is the one way a transfer gets past the ledger.
* *NonceRace*: oracles of two assets read one pending nonce; the second transaction is
  refused and its request rejected, though nothing had failed.
* *SharedHash*: the node loses a recorded transaction. Another request pays the same
  amount to the same address, gets the free nonce and with it the same hash; the verifier
  approves both on one receipt. `SharedOnlyIfLost` says that it takes a lost transaction.
* *ReorgApproves*: `ensureEnoughConfirmations` compares the height with the block of a
  receipt that was read before. A switch of branch between the two reads, of no more
  blocks than the configured confirmations, and the request is approved with its transaction in
  no block.
* *LostRemoval*: the cancellor ignores an asset that is not in the map, also while it
  is being built; the watcher tells a removal once.

What else the code does not keep, and no run shows:

* An error of a list leaves the page variable nil, and every later tick panics on
  `len(withdrawPage.Data)` before it lists (`nilPage`). That is the cause `Unlisted`.
* A failed receipt is rejected without waiting for confirmations. After a switch of branch
  its transaction is in the pool again, with the tokens given back, and may succeed.
* A log of another contract, or of another event, with the shape of the transfer is taken
  for it. `RecognisedLooksMoved` says what can be relied on: receiver, amount and shape.
  Inside the service this is the outcome `lookalike`; `ApprovedIsPaid` is not claimed
  under it, and in `LiveSettle` such a receipt ends its request.
* An instance is built from the details of the page that offered the asset and kept while
  it stays listed: when the owner moves the asset to another contract in between, the old
  one is served. `Watch` has such assets; `ListedIsServed` does not say by which contract.
* `Amount` is parsed with six digits and scaled from the asset's trailing digits; for any
  other number of digits the transfer is off by a power of ten.

### Bounds, and why they are enough

* Two requests and two oracles: a double payment needs one request and two senders;
  the second request keeps a worker busy with an older page and separates pages
  (`PageLimit` 1 in `Settle` and `LiveSettle` makes every page full, and the following one
  short or empty; `LiveWaits` and `DoublePay` take pages of 2, where a panic can lose
  the rest of a page).
  The theorems have no such bound.
* `Confirmations` is 1, the least number for which the block of the receipt and the
  block that confirms it differ; in `ReorgApproves` it is 2, so that a switch
  (`ReorgDepth` 2) can take back a block that is not confirmed and none that is. `MineOther` is enabled only while some receipt lacks
  confirmations, which bounds `head`; a higher head changes no guard.
* `MaxReorgs` is 1 where branches matter: one switch is enough to undo a receipt.
* One asset and two instances in `Process`: an instance and its successor, and any later
  one in a place whose goroutines have returned.
* `delayed` is a set, so an envelope in flight twice counts once; the second
  application of the same review is refused anyway (its task is no longer set).
* `WordSize` stands for 2^64. The amounts of the `Amounts` run are below half of it, as
  ledger amounts are below 2^63; 16384 is there for its transfers, which pass the word
  when the contract has more digits than the asset.
* Addresses of `MCTransfers` have two binary digits for forty of sixteen values: texts
  shorter and longer than an address, with and without a value that survives cropping,
  are all there. Two logs are enough for one that decides before another, one review
  for an earlier one that names no hash; the theorems about them have no such bound. The
  address does not depend on the amount, so two amounts are followed to their receipts.
* In `Watch` an asset that moves once and back is enough for details of an earlier page
  to meet those of a later one; the second asset keeps pages and offers busy.
* In `Watch` the number of instances is not bounded by a guard: `MapIsExact` bounds it.
* Deadlock is checked in every run (the loops of the workers never end).

### Fairness

* Goroutines are scheduled: weak fairness of each oracle, each verifier, the watcher,
  the spawner's build and the cancellor's delete. `WithBackOff` runs the next tick
  after at most an hour.
* The ledger answers each review (weak), and one that can be applied is not refused
  or lost for ever (strong): the worker tries it again from each new page, and each
  try meets an independent answer.
* A node that can answer does not fail every time the verifier asks (strong).
* Blocks are mined (weak), and an asset that has no live instance is offered again
  every 20 seconds (weak fairness of `Spawn`).
* The page after each asset is answered once in a while, and the build of an asset does
  not fail every time (strong). `ListedIsServed` needs both.
* The process is not restarted for ever (`WithdrawService` and `Supervision`).

Nothing is assumed of the faults themselves: they may happen at any time, for ever,
unless one of the strong conditions above excludes it.

## Proofs

The theorems about the service and the supervision hold for every set of requests,
assets, contracts, instances and workers, every assignment of workers to instances and
of tasks, details and payments to requests, every page limit and number of
confirmations, and every set of faults the last column does not exclude:

| theorem | module | statement | given |
|---|---|---|---|
| `TypeCorrect` | `WithdrawServiceProofs` | `Spec => []TypeOK` | |
| `SendOnceInvariant` | `WithdrawServiceProofs` | `Spec => []SendOnceInv` | |
| `NeverSentTwice` | `WithdrawServiceProofs` | `Spec => []AtMostOneTransfer` | |
| `RecordedAlwaysSent` | `RecordProofs` | `Spec => []RecordedIsSent` | |
| `SharedAlwaysLost` | `RecordProofs` | `Spec => []SharedOnlyIfLost` | |
| `TransferAlwaysReserved` | `ReservationProofs` | `Spec => TransferOnlyReserved` | |
| `ApprovedAlwaysPaid` | `PaymentProofs` | `Spec => []ApprovedIsPaid` | no reorg, lookalike |
| `RejectedNeverPaid` | `LifecycleProofs` | `Spec => []RejectedNotPaid` | no reorg, rpc, cancel |
| `ServiceImplementsLifecycle` | `LifecycleProofs` | `Spec => ImplementsLifecycle` | the same; no request enters with task 4096 |
| `ReservedAlwaysHeld` | `RecordProofs` | `Spec => []ReservedIsHeld` | no timeout, refuse, crash; no request enters with task 4096 |
| `LiveAlwaysHandled` | `SystemProofs` | `SystemSpec => []LiveIsHandled` | |
| `SystemImplementsService` | `SystemProofs` | `SystemSpec => ImplementsService` | |
| `MapAlwaysExact` | `SupervisionProofs` | `Spec => []MapIsExact` | |
| `StartsOneAtATime` | `SupervisionProofs` | `Spec => OneAtATime` | |
| `SupervisionTypes` | `SupervisionProofs` | `Spec => []TypeOK` | |
| `AlwaysWorthTheSame` | `TransferProofs` | `TransferSpec => []WorthTheSame` | amounts below half a word |
| `SplitNeverPaysMore` | `TransferProofs` | `TransferSpec => []SplitPaysNoMore` | |
| `TooSmallAlwaysNothing` | `TransferProofs` | `TransferSpec => []TooSmallIsNothing` | amounts below half a word |
| `OwnTransferAlwaysRecognised` | `TransferProofs` | `TransferSpec => []OwnTransferRecognised` | amounts below half a word |
| `RecognisedAlwaysLooksMoved` | `TransferProofs` | `TransferSpec => []RecognisedLooksMoved` | amounts below half a word |

They rest on the named assumptions of `Bridge`, `Runner` and `Ethereum` (requests are
positive naturals, `Inst` maps workers to instances, no worker is both oracle and
verifier, initial tasks are non-empty sets of the three tasks), of `Watchlist` and
`Supervision` (no contract is called "none"), of `System` (each instance has an asset and
workers, and `cancel` is among the faults: assets do leave the list), and of `MCAmounts` and `MCTransfers`,
which TLC evaluates in the runs of these modules. One of the last is a law of arithmetic and no choice
of ours: `PowersAssumption` says `10^n = 10^(n-m) * 10^m`, because the provers know
powers of literals only.

Where a theorem excludes a fault, the code does not keep the promise under it:

* a *reorg* takes back the block an approval or a rejection was founded on
  (`ReorgApproves`, and the hazards at `verifier/helper.go:80` and `:90`);
* with *lookalike* a log of another contract or event passes for the transfer (the hazard
  at `verifier/helper.go:136`);
* with *rpc* or *cancel* the oracle takes a transfer for failed which the node accepted,
  or will accept, and rejects it (`CancelRejects`, and the hazards at `oracle/helper.go`);
* with *timeout*, *refuse* or *crash* a request is left between the two reviews
  (`Stranded`, in the table above). `drop` and `panic` do not do that;
* a request that enters with task 4096 set is in no filter: it is reserved with nobody
  at it from the start, and its life does not begin as `WithdrawLifecycle` has it;
* `drop` is not excluded anywhere, but `ApprovedIsPaid` lets a request whose transaction
  was lost be approved on another of the same hash (`SharedHash`);
* amounts of half a word and more become negative in `prepareAmount`; those of the
  ledger are below 2^63.

**Sent once.** `AtMostOneTransfer` is not inductive: it says nothing of who may send
next. The inductive invariant `SendOnceInv` says that

* an oracle *holds* request r from the moment the ledger has applied its first review
  until it sends or rejects (`Holds`);
* at most one oracle holds r (`OneHolder`);
* what is held is neither sent nor under way to the node, and task 2048 of it is gone
  (`HeldIsUnsent`);
* what was sent, or may still arrive, has lost task 2048 (`SentIsTaken`), and of one
  request there is one such transfer (`AtMostOneAttempt`);
* no envelope, waiting or delayed, sets task 2048 again (`CallsOK`), and an oracle that
  waits in `approving1` waits for its own first review (`FirstReviewsOK`).

The argument: the ledger refuses to remove task 2048 twice, so of all first reviews of
r one is applied at most; only its oracle goes on to send, and after sending it, or after
giving up with the transfer under way, it no longer holds r. So a transfer that arrives
late is alone. A step either leaves holders, transfers and taken requests alone
(lemma `Quiet`, most steps), or is that application (`LedgerApplyCore`: no other holder
and no transfer can exist, since either would mean the task is gone), or is the send
(`SendCore`). A late application (`LateApply`) makes nobody a holder, because nobody
waits for it. The type invariant is proved first, with what each action does to each
part of the state as lemmas (`SubmitOK`, `ForgetOK`, `FetchOK`, ...).

**What travels.** The next theorems are about envelopes that are applied late.
Each says of every envelope under way what makes its application harmless, whenever it
comes; a step then needs a look only at the envelope it submits (`EnvelopesStay`), and
what is said must be stable.

* *Recorded.* An envelope that names a transaction names one that was sent for its
  request (`EnvelopesTrue`); the second review does, because an oracle in `sent` has
  sent (`SentIsTransfer`).
* *Shared.* Among the transactions of pool and chain no two have one nonce
  (`NoncesUnique`). So a transaction that is there and has the hash on a request's record
  is the request's own, or the request's own is not there any more (`HashIsOwn`).
* *Reserved.* An envelope is a first review, which the ledger refuses while task 2048 is
  gone; or it is about a request without an address, which nobody sends; or about a
  request that is *past*: taken, held by nobody, and with no transfer under way, for ever;
  or it is the rejection of a call that was cut off, of a request nobody holds
  (`Harmless`). An oracle gives the request up with the step that asks for the rejection;
  everything a verifier has listed was past when it was listed, and stays so however old
  the page grows (`VerifiersPast`). So what is held stays pending with its tasks
  (`HoldersReserved`), and what is under way is too, or was rejected for its call
  (`LateKept`). The exception needs `rpc` or `cancel`: without them nothing is rejected
  while its transfer is under way.
* *Paid.* An envelope that adds no task and does not reject is about a request whose
  payment has its confirmations already (`Truthful`): the verifier submits it after
  both reads of the node, and the receipt of the first read is still in the chain at
  the second (`ReceiptsHeld`). Without a switch of branch the chain only grows and the
  ledger never changes a recorded transaction, so what is paid stays paid (`PaidStays`).
  With one the theorem is false, as `ReorgApproves` shows. That the transaction is the
  request's own, unless lost, is `HashIsOwn` again (`PaidIsOwn`).

**One instance.** `MapIsExact` is strengthened by what keeps two goroutines apart that
write one map without a lock: what the spawner builds the map lacks (`BuildingIsFree`),
what the cancellor deletes the map has (`DeletingIsHeld`); the refinement
`StartsOneAtATime` follows from it.

**The process.** `ImplementsService` needs that no instance of an asset is live when the
spawner stores another. `SystemInv` says of each instance that it is live exactly when the
map has its function and the cancellor is not calling it (`LiveIsHandled`), of the map what
was said above, and of `handle` that it leads to an instance of the asset (`HandleFits`).
The map lacks what is built, so nothing of the asset is live. The equivalence needs that a
stopped worker stays stopped: the one step that could wake it is the recovery of a panic in
an answer, so the invariant also says that only a worker in a review waits for one
(`WaitsInReview`); and that a worker stops only once its instance is cancelled.

`SupervisionTypes` needs what ties the watcher's phases together (`SweepInv`): a sweep
begins with nothing left to offer, so what an abandoned sweep found is never offered.

**The course of a withdrawal.** `RejectedNotPaid` is about two places, the ledger and
the chain, that no step writes together; and a review may be applied long after it was
asked for. `CourseInv` therefore says of everything under way what makes it right
whenever it comes.

* Every envelope is one of four kinds (`EnvelopesLegal`): a first review; a second
  review; an approval of a request that is *released*; a rejection of one that is
  *unpayable*. Both words name sets of requests that nothing leaves (`Released`: task
  2048 and task 4096 are gone; `Unpayable`: it has no address, or it is past and was not
  sent, or it is released and its one transaction failed in the chain or was lost). So a
  late application is as good as an immediate one. A lost transaction counts because the
  verifier may find the failed receipt of another one with its hash; it does not come
  back, since what the node has once taken is no longer under way (`LateUnsent`).
* What a verifier has listed is released (`VerifiersReleased`), what is sent and not
  recorded is still reserved (`UnrecordedReserved`), what was sent has an address
  (`SentAddressed`), and a transaction has one receipt (`MinedOnce`). An oracle rejects
  before it has sent, because the outcome it reads is the node's own (`Steady`).
* `RejectedNotPaid` follows: who is rejected is unpayable (`RejectedUnpayable`), and an
  unpayable request has no successful receipt.

`ServiceImplementsLifecycle` maps every step to the life of one request. Only the
application of an envelope moves more than the chain, and the four kinds of envelopes
are four steps of `WithdrawLifecycle` or, where the ledger refuses them, none.

**Reserved and held.** The invariant behind `ReservedAlwaysHeld` says which review a
worker waits for at each place (`CallFits`), that nothing is in flight that nobody waits
for, and that each reserved request has an oracle *at work*: in `reserved`, `send` or
`sent`, or waiting for the answer to a review of that request which the ledger has just
applied, or will apply (`AtWork`). Without a wrong answer the oracle leaves those places
only with task 4096 removed or the request rejected. `Core`, the invariant of "sent
once", keeps other workers away from it.

**Amounts and receipts.** The states are inputs that nothing changes. TokenD and the
token count in units that are a power of ten apart: what `prepareAmount` divides by,
times the smaller unit, is the larger one, and the bounds are those of `\div`. The
receipts need what a search returns: `Min` of a non-empty set of naturals is its least
element (from the well-foundedness of `<`), so the verdict is that of the first log that
decides (`VerdictOfFirst`). A text and the canonical text of a number are equal up to
the case of letters exactly when the text is canonical and reads as that number
(`SameTextIsCanonical`), and the sender's review is the first with a hash (`SentIsRead`).
The theorems hold for every base, length of an address, set of values a text may have,
and bound on the reviews and logs; what a log may contain is what `LogsTo` lists. A log
that matches agrees with the transfer in all that is read (`MatchLooksOwn`), which is not
its contract and not its event.

**What stays with TLC.** All that needs fairness: `Settled`, `PaidIsApproved`,
`OnlyStuckWaits`, `ListedIsServed` (liveness and `ENABLED` are out of
the prover's reach), and the violations. Every safety invariant, action property and
refinement of a passing run is a theorem, under the faults above; before a proof, TLC
checked each inductive invariant on small instances with the same faults. No module uses
a RECURSIVE operator.

## Not modelled

* Configuration: figures out a record of the file. After start-up only the spawner's
  goroutine calls it, so its calls never overlap. The closures of the getters return
  nil, so `comfig.Once` runs them again on every call: each spawned instance dials the
  node and builds an HTTP client of its own. No outcome the models know depends on it;
  `PROJECT.json` keeps both as hazards without a property.
* Connector and argument parsing: they run once, before any goroutine starts.
* The throttle of the HTTP clients: it delays calls and changes no outcome.
* How queries, filters and links are written as URLs: what a page selects is modelled.
* An asset that changes its contract while the service runs is modelled in `Supervision`
  only: in `WithdrawService` the payment of a request does not change.
* Shared hashes of requests of two assets with one contract: `Payment` allows them, the
  runs have one asset.
* Amounts of 256 bits and more (`U256` would mask them).
* `ByID`, `Prev`, `Self`, `First`, `Put`, `Post`: no caller.
* Gas price and limits, signing, XDR: no property depends on them; a failure of any of
  them is a failed review or transfer.
* Timer periods, and calls that hang for ever: a build or an answer may take any time,
  and ends.

## Plan

1. *(done)* Core: ledger, chain, page loop, oracle, verifier, their composition; the
   supervision of instances; type correctness, "sent once" and the exactness of the map proved.
2. *(done)* Extend: the log scan and the address texts; the five causes of waiting for
   ever; an asset that changes its contract; the low-word test near the top of the word.
   Proved with it: what is recorded was sent, what is sent is reserved, what is approved
   was paid, and the refinement of `SingleInstance`.
3. *(done)* Prove: what is rejected is not paid, and the life cycle, in the absence of
   `rpc`, `cancel` and `reorg`; reserved and held; the types of `Supervision`; the bounds of
   `PrepareAmount`; the log scan.
4. *(done)* Deepen: hashes that do not name their request, transfers that arrive after
   their sender gave up, logs of other contracts and events; the process as one module,
   and the proof that it implements `WithdrawService`.
5. What is left: safety lemmas that liveness rests on (each of the five causes of waiting
   is stable once it has set in), and `ReservedIsHeld` with an `Unless` for the faults it
   excludes: under them a request is held or was left by a review that failed.
