# Formal models of the attestation transaction pool, node start-up and validator registry

This directory has TLA+ models of the concurrent core of the RDO node:
- the transaction pool (`src/blockchain/core/attestation/txpool.go`);
- its reservation protocol with the block forger;
- the fee estimate;
- the start-up handshake between the sync service, the attestation service
  and the pool over `StateFeed` and `TxFeed` (`src/blockchain/sync/service.go`,
  `src/blockchain/core/attestation/service.go`);
- the validator slot registry (`src/blockchain/consensus/attestation/slots.go`).

TLC checks them on small instances. TLAPS proves fourteen of the checked
properties for every value of the constants, some of them under a stated
hypothesis (one forger, one registry writer, a catalogue condition). Two of
them are refinements: the registry implements an abstract slot list, and the
pool implements an abstract ledger. One is an action property: the pool never
hands an input lock from one transaction to another. A fifteenth theorem is
about the abstract ledger itself.

Files:
- `X.tla`: a component model.
- `MCX.tla` and `MCX*.cfg`: the TLC instances.
- `XProofs.tla`, `TxPoolSafety.tla`, `TxPoolLocks.tla` and
  `TxPoolLedger.tla`: the TLAPS proofs.
- `SlotSet.tla`: the abstract specification of the slot registry.
- `PoolLedger.tla`: the abstract specification of the pool, with its proof
  module `PoolLedgerProofs.tla`.
- `PROJECT.json`: the machine-readable index of all of this, including the map
  from every definition to the source lines it models.

## 1. The system and its parts

| Part | Source | Model |
|---|---|---|
| Mempool engine: admission, de-duplication, input locks, priced list, delete, forge latch | `txpool.go` (`ReadingLoop`, `RegisterTx`, `validateTx`, `checkInputs`, `DeleteTransaction`, `GetTxQueue`, `clearPool`, `catchForgeError`, `pricedTxPool`) | `TxPool` |
| Reservation controller | `txpool.go` (`ReserveTransactions`, `FlushReserved`, `RollbackReserved`) | `TxPool` |
| Fee estimate | `txpool.go` (`GetFee`) | `FeeEstimate` |
| Validator slot registry | `slots.go` (`ValidatorGerm`) | `SlotRegistry`, refining `SlotSet` |
| Attestation service wiring | `attestation/service.go` (`Start`, `waitNodeSync`, `lookForgeError`) | `NodeStartup`; the latch itself is `CatchForgeError` of `TxPool` |
| Sync service start-up and transaction relay | `sync/service.go` (`Start`, `stateListener`, `listenIncoming`, `gossipEvents`) | `NodeStartup` |
| Transaction validator, UTXO store, block forger | not under `src/` | modelled from the spec inside `TxPool` (`ValidateTx`, `Spent`, `SelectBatch`, `CommitBlock`) |
| Sync service block path, stream handlers, `SyncWithNetwork`, `Stop`; gRPC server, generator | `sync/`, `rpc/`, `generator/` | not modelled (`SendRawTx` only as an input of `NodeStartup`) |
| Generated code (protobuf stubs, SSZ encoding) | `proto/`, `validator/types/*_encoding.go` | not modelled |

How the parts interact:
- The sync service publishes every received transaction on `TxFeed`.
- One goroutine, `ReadingLoop`, receives each transaction and admits it with
  `RegisterTx`. Admission has three phases, each under `tp.lock` and with the
  lock released in between:
  1. `validateTx` looks the hash up in `pool` and `reservedPool`.
  2. `ValidateTransactionStruct` runs. Then `checkInputs` checks, under the
     lock, whether each input is already locked. A lock held by a pool
     transaction of the same sender with the same `num` and a lower fee is won
     by replace-by-fee: that transaction is deleted and `checkInputs` returns.
     Then `ValidateTransaction` runs against the UTXO store.
  3. `RegisterTx` inserts the transaction into `pool` and `pricedPool` and
     locks its inputs.
- The block forger, on other threads, works as follows:
  - It reads `GetPendingTransactions` (which sorts `pricedPool` in place).
  - It calls `ReserveTransactions(batch)`, which moves the batch from `pool`
    to `reservedPool` under the lock.
  - If the block is stored, it calls `FlushReserved(true)`, which drops the
    reservation and unlocks its inputs.
  - If forging fails, it calls `RollbackReserved`. That puts the reserved
    transactions back under one lock, then calls `FlushReserved(false)` under
    a second lock.
- A forge error event sets the one-shot `forgeFailed` latch. `ReadingLoop`
  clears the pool and stops when it next receives a transaction.
- At start-up the services meet on `StateFeed`, an `event.Feed`:
  - The sync service's `Start` pushes `ConnectionHandlersReady`. It then
    waits on `s.initialized` and `s.stakeSynced`, which its `stateListener`
    goroutine signals when it receives `Initialized` / `LocalSynced` and
    `StakePoolInitialized` from producers outside `src/`.
  - `Start` then starts `listenIncoming`, sets `s.synced` and pushes
    `Synced`. Once that Send returns it starts `gossipEvents`.
  - The attestation service's `waitNodeSync` reads its own state channel
    until `Synced`. It then starts `lookForgeError` (which waits for
    `ForgeFailed` and sets the latch) and the pool's `ReadingLoop`.
  - A Feed Send blocks until every channel subscribed at the time of the
    Send has taken the value, so a full channel nobody reads blocks the
    sender.
- The validator registry keeps the list of staker addresses (`slots`, at most
  `slotsBound`):
  - `RegisterStake` and `UnregisterStake` are called when stake deposits are
    loaded and when blocks are applied.
  - `CreateRewardTx` splits the block reward across the slots.

## 2. The modules

### TxPool

State:

| Variable | Code |
|---|---|
| `pool` | `tp.pool` |
| `reserved` | `tp.reservedPool` |
| `priced` | `tp.pricedPool`, a sequence, because order and duplicates matter |
| `locked` | `tp.lockedInputs`, input key → tx or `NoTx` |
| `forgeFailed` | the latch |
| `chain` | the committed transactions (the UTXO store's view) |
| `wpc`, `cur` | where the single ingest worker is in `RegisterTx`, and its transaction |
| `lock` | which forger holds `tp.lock` across `ReserveTransactions`' loop |
| `fpc`, `batch`, `fi`, `fres` | per forger: its phase, batch, loop index and result |

Data abstraction: a transaction is a model value that stands for its hash.
Its inputs, sender (`Inputs[0].Address`), `num`, fee and timestamp are
constants. Hashes, signatures and key strings are not modelled:
`genKeyFromInput` is the identity on input keys.

Actions, one per operation or per lock section:
- `Receive` is the receive, the latch check and the lookup of `validateTx`.
  The struct check is a nondeterministic pass or fail.
- `CheckInputs` is the whole of `checkInputs`. The first locked input decides,
  and a swap returns at once, as at `txpool.go:241`.
- `ValidateTx` is `ValidateTransaction`: it fails on a spent or foreign input,
  and otherwise may pass or fail.
- `RegisterTx` is the insert.
- `DeleteTransaction`, `GetTxQueue` and `ClearPool` are one action each;
  `StopWriting` is the `ctx.Done` branch of `ReadingLoop`.
- `ReserveStart`, `ReserveStep` (one loop iteration, with its three error
  returns) and `ReserveEnd` are `ReserveTransactions`.
- `FlushReserved` models `FlushReserved(true)`.
- `RollbackReserved` and `RollbackFlush` are the two lock sections of
  `RollbackReserved`.

The helpers model the code's idioms:
- `DeleteFromPriced`: `DeleteFromPricedPool`, which moves the last element
  into the hole and truncates.
- `SortedOrders`: `sort.Slice`, which is not stable.
- `Listings`: Go map iteration, in any order.
- `UnlockInputs`: deletes a key whoever holds it.

`Held` is the set of transactions the pool answers for: the pool and the
reserved pool, or only the pool while a rollback is between its two lock
sections. The safety properties are stated over it:
- `LockTableSound`: every input of a held transaction is locked by it, and
  every lock names a pooled or reserved transaction.
- `NoDanglingLocks`: every lock names a held transaction that spends that
  input. A dangling lock would make `checkInputs` reject every later spender
  of the UTXO, for good.
- `DisjointInputs`: no two held transactions spend one UTXO.
- `PoolSpendsUnspent`: no held, uncommitted transaction spends a spent UTXO.
- `ChainNoDoubleSpend`: the stored blocks never spend one UTXO twice.
- `LocksNeverStolen` is an action property: an input key that names a
  transaction keeps naming it until it is released. `RegisterTx` writes the
  keys without looking (`txpool.go:146-154`). Only `checkInputs`, two lock
  sections earlier, looked at them.
- `LedgerSpec` says that the pool implements `PoolLedger` under
  `held <- Held`.

`PoolLedger` is what the pool promises the chain, with every call atomic
(spec §4.3 and §5: reserve then `flush(true)` is linearizable against
`register`). It has two variables, `held` and `chain`, and three actions:
- `Admit(t)`: a new transaction is added. It must spend no output the chain
  has spent, and no output a held transaction spends.
- `Drop(S)`: held transactions are removed. This covers a delete, a swap, a
  flush and `clearPool`.
- `Commit(B)`: a block is stored. Its transactions spend unspent outputs,
  none of them twice, and they conflict with nothing still held.

Reservation and the two-phase rollback do not show in the ledger: a reserved
transaction is still held. `LedgerSafe` is the safety this promise gives.

### FeeEstimate

`GetFee` is a pure function of the sorted queue. A queue entry is its size and
fee. `FeeWalk` is the loop of `GetFee`, written as a recursive function of the
index, with `CodeDrop` (`totalSize -= size`, the queue length) on overflow.
`IntendedWalk` is the reference: the walk the comment at that branch describes,
in which an oversized transaction is left out. With `CodeDrop` replaced by the
transaction's size, the two agree on all 547 queues of the instance, so the
violation found is due to that subtraction alone.

### NodeStartup

One program counter per goroutine:
- `spc`: sync `Start`;
- `lpc`: `stateListener`;
- `ipc`, `gpc`: `listenIncoming`, `gossipEvents`;
- `apc`: attestation `Start` / `waitNodeSync`;
- `fpc`: `lookForgeError`;
- `ppc`: `ReadingLoop`.

`synced`, `initialized`, `stakeSynced` and `forgeFailed` are the service
fields of those names (the two closed channels as Booleans).

`StateFeed` is modelled as the Feed behaves:
- `stSubs` is the set of subscribed channels and `stCh` their contents,
  bounded by `stateCount` and the attestation channel's buffer.
- A Send (`StartSend`) fixes the set of channels it must reach (`stSend`).
- `Deliver` hands the value to one of them with room.
- `Unsubscribe` drops the channel from pending Sends.

`TxFeed` is the same, except that only counts of transactions are kept (`gq`,
`pq`). `unheard` counts transactions sent while the pool was not subscribed.

The environment, which is outside `src/`, has four actions:
- `EnvSend` sends the producers' states in one of `Orders`, and only after
  `stateListener` has subscribed unless `EarlyEmit`;
- `ForgerSend` reports forge failures once the node has synced;
- `SendRawTx` models the RPC call, and `ListenIncoming` a peer's transaction.

`Deliver`, `EnvSend`, `ForgerSend`, `StartSend`, `StartTxSend` and `TxDeliver`
are modelled from the spec of `event.Feed` and of those producers; every
goroutine of `src/` is translated from its code.

### SlotRegistry

`vg.slots` is a Go slice, so the model keeps three things:
- the backing array `buf`;
- `len`;
- `cap`, initially `slotsBound` as in `NewValidator`.

An `append` past `cap` moves the registry to a new array. Readers still on the
old array keep its contents (`rview` frozen).

Actions:
- `RegisterStake` is two actions: `RegisterCheck` under `RLock`, and
  `RegisterAppend` under `Lock`.
- `UnregisterStake` shifts the tail left in the same array, as
  `append(s[:i], s[i+1:]...)` does.
- `createRewardOutputs` is three actions. `RewardStart` reads the size and the
  slice header under `RLock`. Each `RewardStep` then reads one element after
  `RUnlock`, and `RewardEnd` finishes.

`SlotSet` is what the registry promises its callers, with every call atomic:
- the staker list is an ordered list of addresses, never longer than
  `slotsBound`;
- `Register(a)` appends while a slot is free;
- `Unregister(a)` removes the first occurrence of `a` and keeps the order of
  the others (`RemoveIndex`).

`SlotRegistry` refines it through the mapping `slots <- Slots`, where `Slots`
is the first `len` cells of the backing array. A `RegisterAppend` is a
`Register` step and an `UnregisterStake` is an `Unregister` step. Every other
action, the check half of `RegisterStake` and all the reader's steps
included, leaves `Slots` unchanged.

`EmptySlots` is the uint64 subtraction modulo `Word`. Only its comparison with
0 is observed, so `Word = 2^16` in TLC behaves as `2^64` for lengths this
small. `MaxLen` caps the slice length in the guards.

## 3. Runs

| Run | Config | Expect | What it shows |
|---|---|---|---|
| pool_base | `MCTxPool.cfg` | pass | One forger; catalogue a..e with replace-by-fee, a foreign claim, a two-input tx, batches of 2. `TypeOK`, `PricedMatchesPool`, `LockTableSound`, `NoDanglingLocks`, `DisjointInputs`, `PoolSpendsUnspent`, `ChainNoDoubleSpend`, the action property `LocksNeverStolen` and the refinement `LedgerSpec` hold (18,806 states). |
| registry_one_writer | `MCSlotRegistry.cfg` | pass | One writer, one reward builder, 3 stakers, bound 3, `MaxLen` 4. `SlotsBounded` holds, and the registry refines `SlotSet` (`PROPERTY AbsSpec`). |
| swap_skips_inputs | `MCTxPool_swap.cfg` | violation | `h` wins `u1` from `a` by fee and is admitted without its second input `u2` being checked, so `g` and `h` both spend `u2` (`txpool.go:241`). |
| two_forgers_double_spend | `MCTxPool_forgers.cfg` | violation | Forger 1's `FlushReserved(true)` unlocks forger 2's reservation. A conflicting tx is admitted, and both blocks spend one UTXO (`txpool.go:307`). |
| latch_admits_inflight | `MCTxPool_latch.cfg` | violation | A tx already past the latch check is inserted after `catchForgeError` (`txpool.go:114`). |
| registry_two_writers | `MCSlotRegistry_writers2.cfg` | violation | Two `RegisterStake` calls both see the last free slot; the list grows past the bound, and the wrapped uint64 count keeps accepting (`slots.go:88-98`). |
| reward_stale_slice | `MCSlotRegistry_reward.cfg` | violation | An unregister during `createRewardOutputs` shifts the shared array, so the reward pays the last staker twice (`slots.go:154`). |
| startup_one_order | `MCNodeStartup.cfg` | pass | Producers send StakePoolInitialized before LocalSynced, after stateListener subscribed; one raw tx, one gossip tx, one forge failure. `TypeOK`, `PoolStartsAfterSync` and `StartupCompletes` hold (407,285 states). |
| startup_any_order | `MCNodeStartup_order.cfg` | violation | LocalSynced before StakePoolInitialized: `stateListener` closes `s.initialized` and returns, nobody reads StakePoolInitialized, and `Start` waits on `s.stakeSynced` forever (`sync/service.go:224`). |
| rawtx_before_pool | `MCNodeStartup_rawtx.cfg` | violation | `SendRawTx` returns nil for a transaction sent before `ReadingLoop` subscribes to `TxFeed`; the pool never sees it (`txpool.go:103`). |
| forge_report_blocks | `MCNodeStartup_sends.cfg` | violation | After `lookForgeError` returns, nobody reads the attestation state channel; once it is full, every later `StateFeed.Send`, here a late LocalSynced, blocks forever (`attestation/service.go:128`). |
| fee_overflow_walk | `MCFeeEstimate.cfg` | violation | With block 3 and sizes 5,1,1, `GetFee` stops after the second tx and returns 4 where the skip walk returns 3 (`txpool.go:472`). |

Each property of a passing run has a mutant in `PROJECT.json`, a plausible bug
in the mapped code that TLC must catch:
- a delete that does not shrink the slice;
- a flush that keeps the locks;
- replace-by-fee without the `existsInPool` guard;
- a validator that ignores spent inputs;
- a rollback that flushes with `cleanInputs = true`;
- a free-slot check dropped;
- an unregister that ignores `notFound`;
- an unregister whose shift starts one slot late (breaks `AbsSpec`);
- a delete that does not unlock the inputs (breaks `NoDanglingLocks`);
- a `checkInputs` that passes over a key whose transaction is no longer in
  the pool, as if its `ErrInputExists` return sat inside the `existsInPool`
  branch. Then a transaction is admitted over a reserved one's lock, which
  breaks `LocksNeverStolen`;
- a validator that does not look at spent inputs (breaks `LedgerSpec`: the
  admission is no `Admit`);
- a Send that does not wait for room in the channel;
- a `waitNodeSync` that returns on the first state;
- a `stateListener` that returns on LocalSynced without closing
  `s.initialized`.

Why these bounds are enough:
- The base catalogue (two senders, three inputs) reaches every branch of
  `checkInputs`:
  - no lock;
  - a swap, won by fee;
  - a reject for a foreign sender;
  - a reject for the same sender with another num;
  - a reject for a lower fee.
- A batch of 2 reaches a `ReserveTransactions` that fails half-way.
- Two forgers are the least number for which the reserved pool is shared.
- The registry bound 3 with `MaxLen` 4 lets an overfull list appear. It also
  gives lists of three, where a shift that starts one slot late is told
  apart from the right one.
- A queue of 4 lets a transaction overflow the block and a later one fill it
  exactly.

The start-up instance has all three stake-first orders of the producers. It
has one of each input, which is enough to reach the SendRawTx and gossip paths
before and after the pool subscribes, and a forge failure before and after
`waitNodeSync`. The attestation channel has buffer 1, so a single undrained
value blocks a Send.

Two forgers appear only in the violation run `two_forgers_double_spend`. A
passing two-forger instance with the catalogue {a, b, d} takes 4.5 M states.
`LocksNeverStolen` was also checked with two forgers on the base catalogue.
There was no violation in 26 M states; that search was stopped before it
finished. It is proved for any number of forgers (§5). On the swap
catalogue, TLC finds it violated: `h` takes `u2` from `g`.
That the priced list stays exact under any number of forgers is the theorem
`PricedCorrect`, not a run.

Three behaviours met while modelling have no run of their own:
- **A state sent before `stateListener` subscribes.** It reaches no sync
  channel, and `Start` waits forever (`sync/service.go:210`). The start-up
  run assumes producers that wait for the subscription (`EarlyEmit =
  FALSE`). With `EarlyEmit = TRUE`, TLC finds `StartupCompletes` violated.
- **A `ReserveTransactions` that fails half-way.** It leaves the earlier
  batch elements reserved (`txpool.go:279`), while spec 4.3 calls the
  operation all-or-nothing. In the model the forger, which is outside
  `src/`, goes idle after the error without a rollback. The stranded
  transactions stay in the reserved pool with their locks, and are still held.
  The forger's next `FlushReserved` or `RollbackReserved` takes them with its
  next batch, so no pool invariant is affected.
- **A reservation dropped with its locks.** With two forgers, one forger can
  reserve a transaction between the other's two rollback sections. The
  other's `FlushReserved(false)` then empties the reserved pool and keeps the
  locks, so the locks name a transaction the pool has dropped. TLC finds
  `NoDanglingLocks` violated on `MCTxPool_forgers.cfg`. The run
  `two_forgers_double_spend` already shows the same race ending in a double
  spend.

## 4. Fairness and liveness

`NodeStartup` checks liveness (`StartupCompletes`, and `StateSendsReturn` in
its violation run) under weak fairness of:
- every goroutine step of `src/` (`StartStep`, `ListenerSubscribe`,
  `ListenerRecv`, `WaitNodeSync`, `LookForgeError`, `GossipEvents`,
  `PoolSubscribe`, `ReadingLoop`). The Go scheduler eventually runs a
  runnable goroutine.
- each pending Feed delivery (`Deliver`, `TxDeliver`): a Send blocked on a
  channel proceeds once the channel has room.
- `EnvSend`: the producers are assumed to send their states. This is the
  assumption `Start` itself relies on.

The RPC client, the peers and the forger get no fairness. Their runs use
`CHECK_DEADLOCK FALSE`, since a node with no input is idle.

The pool and registry runs check safety only, and no fairness is assumed:
- The ingest loop only moves when a transaction arrives, and nothing in the
  code makes one arrive.
- The forger is outside `src/`.

The pool's liveness hazard (after `catchForgeError` the pool is cleared only when
the next transaction arrives, `txpool.go:113`) is therefore recorded in
`PROJECT.json` without a property.

## 5. What is proved

TLAPS 1.4.5 proves, for every value of the constants allowed by
`TxAssumption` / `RegistryAssumption` / `StartupAssumption`:

- **`TxPoolProofs!TypeCorrect`**: `Spec => []TypeOK`. `TypeOK` includes that
  the ingest worker's transaction is a real transaction in each validation
  phase. The proof has one step per action and rests on lemmas about the
  slice operations: `SortedOrdersType`, `DeleteFromPricedType`,
  `ListingsType`.
- **`TxPoolProofs!PricedCorrect`**: `Spec => []PricedMatchesPool`, i.e.
  `Range(priced) = pool` and `priced` is injective, under any number of
  forgers.
  - The invariant is not inductive alone. `RegisterTx` appends `cur` blindly,
    so the proof needs `WorkerFresh`: while the worker is in its validation
    phases, `cur` is neither pooled nor reserved.
  - `WorkerFresh` holds because no action other than `RegisterTx` moves a
    transaction into the pool except from the reserved pool.
  - `PricedInv == TypeOK /\ PricedMatchesPool /\ WorkerFresh` was checked
    with TLC as an invariant of the pool instances before it was proved.
  - The step rests on one lemma per slice operation, each saying it keeps a
    duplicate-free listing of the right set:
    - `DeleteFromPricedRemoves` (swap with last, then truncate);
    - `AppendFresh`;
    - `ConcatFresh` with `ListingExact` (rollback);
    - `SortedExact` (the sort, through the occurrence counts).
- **`TxPoolProofs!NoDanglingLocksOneForger`**: with one forger,
  `Spec => []NoDanglingLocks` for every catalogue. This includes the
  catalogues where the `checkInputs` swap breaks `LockTableSound`.
  - The invariant `LockInv == TypeOK /\ NoDanglingLocks` is inductive.
  - `HeldOne` spells out `Held` and `Held'` for one forger.
  - `RemoveKeepsLocks` covers `deleteTransactionByHash`, for the delete and
    for the swap alike.
  - `FlushReserved(true)` keeps the pooled transactions' locks because a lock
    names one transaction only.
- **`TxPoolSafety`**: `LockTableSoundOneForger`, `DisjointInputsOneForger`,
  `PoolSpendsUnspentOneForger` and `ChainNoDoubleSpendOneForger`. Each is
  `Spec => []P` under two hypotheses:
  - one forger;
  - `SwapSafe`: a transaction that may replace another by fee and shares an
    input with it spends only inputs of that other transaction.

  Both hypotheses are needed:
  - `SwapSafe` is exactly what makes the early return at `txpool.go:241`
    harmless. The swap catalogue breaks it (`h` shares `u1` with `a` and
    also spends `u2`), and `swap_skips_inputs` shows the violation.
  - The run `two_forgers_double_spend` shows what a second forger does.
  - The base catalogue satisfies `SwapSafe`; TLC evaluated it.

  The inductive invariant `SafeInv` was checked with TLC on the base
  catalogue before it was proved. It is `PricedInv /\ LockInv` and these
  conjuncts:
  - `AllLocked`: the first half of `LockTableSound`.
  - `DisjointInputs`, `PoolSpendsUnspent` and `ChainNoDoubleSpend`
    themselves.
  - `WorkerUnlocked`: between `checkInputs` and `RegisterTx`, no input of
    the worker's transaction is locked. This is what makes `RegisterTx`'s
    blind `LockInputs` safe, and it is where `SwapSafe` is used. The code
    picks the least locked position with `CHOOSE` (lemma `LeastExists`, from
    the well-foundedness of `<`). Its owner shares that input with `cur`, so
    by `SwapSafe` it holds all of `cur`'s inputs, and unlocking it frees
    them all.
  - `WorkerUnspent`: after `ValidateTransaction`, the worker's inputs are
    unspent. A block stored before `RegisterTx` cannot spend them, because
    its transactions lock their inputs and the worker's inputs are unlocked.
  - `ChainApart`: the pool holds no committed transaction, and neither does
    the reserved pool before the store.
  - `PoolApart`: outside a rollback, no transaction is both pooled and
    reserved. This lets `FlushReserved(true)` keep the pool's locks.
  - `LockOwner`: the forger holds `tp.lock` exactly while it reserves. So
    `clearPool` never runs in the middle of a reservation.
  - `BatchReserving` and `BatchReady`: the batch a forger stores is
    reserved, clean and conflict-free. The exception is that `clearPool` may
    have emptied everything and stopped the worker.

  The step has one lemma per action, from `QuietStep` (the actions that
  touch no table) to `CommitStep` and `RollbackFlushStep`.
- **`SlotRegistryProofs!RegistryTypeCorrect`**: `Spec => []TypeOK` for the
  registry, for any number of writers and readers. The strengthening
  `TypeInv` adds that a reader's index is at least 1, and that a non-empty
  snapshot has the length the reader read. `DivNat` handles the reward
  division.
- **`SlotRegistryProofs!RegistryRefinesSlotSet`**: with one writer,
  `Spec => AbsSpec`, i.e. the registry implements `SlotSet`.
  - The invariant is `RefInv == TypeInv /\ BoundInv /\ SlotsAddr`.
    `SlotsAddr` says that the live cells and a pending append hold addresses.
    `BoundInv` is the one-writer bound.
  - The initial states map to `SlotSet`'s: `SlotsIsList`.
  - Every step maps to a `SlotSet` step or a stutter:
    - `RegisterAppend` is `Register` of the writer's address, within the
      bound because of `BoundInv`;
    - `UnregisterStake` is `Unregister`, with the in-place shift shown equal
      to `RemoveIndex` at the first matching index;
    - every other action leaves `Slots` unchanged.
  - With two writers the refinement fails at `Register`'s bound, as
    `registry_two_writers` shows.
- **`SlotRegistryProofs!SlotsBoundedOneWriter`**: with one registering
  thread, `Spec => []SlotsBounded`.
  - The strengthening says that a writer between the check and the append has
    a free slot.
  - `EmptySlotsExact` shows that the uint64 subtraction is exact while
    `len <= slotsBound < 2^64`.
  - The two-writer run shows the hypothesis is needed.

- **`NodeStartupProofs!NodeTypeCorrect`**: `Spec => []TypeOK` for the
  start-up model. In particular, no state channel ever holds more than its
  buffer, whatever the orders. The channel steps rest on `TakeType` and
  `DeliverType`.
- **`NodeStartupProofs!PoolAfterSync`**: `Spec => []PoolStartsAfterSync`. The
  pool's `ReadingLoop` never starts before `s.synced` is set.
  - `waitNodeSync` starts the pool on any Synced it takes, so the invariant
    is not inductive alone.
  - The strengthening `NoSyncedInFlight` says that while `s.synced` is 0, no
    Synced value is in the attestation channel or in a pending Send. It holds
    because only `Start` sends Synced, right after setting `s.synced`.
  - `IInv == TypeOK /\ NoSyncedInFlight /\ PoolStartsAfterSync` was checked
    with TLC on the start-up instance before it was proved.
  - The lemmas are `TailNoSynced` and `AppendNoSynced`.

- **`TxPoolLocks!NoLockStolen`**: `Spec => LocksNeverStolen` for any
  number of forgers, under `SwapSafe` alone.
  - The invariant is `StealInv == TypeOK /\ LockOwnInput /\ WorkerUnlocked`.
    `LockOwnInput` says every lock names a transaction that spends the
    locked input.
  - It does not need `SafeInv`, and so it needs no bound on the forgers.
    The worker is the only thread that adds locks. What `checkInputs` saw
    free therefore stays free until `RegisterTx`. The swap frees all of
    `cur`'s inputs by `SwapSafe` and `LockOwnInput`.
  - Another forger's `FlushReserved(true)` can release locks it does not
    own. That releases a lock; it steals none.
  - Each step is shown to keep `StealInv` and to satisfy the action
    (`StealStep`), with one lemma for steps that only release locks
    (`ReleaseStep`). The temporal step is PTL.
  - `StealInv` was checked with TLC on the base run before it was proved.
- **`TxPoolLedger!PoolRefinesLedger`**: with one forger and `SwapSafe`,
  `Spec => LedgerSpec`. The pool implements `PoolLedger` under
  `held <- Held`, resting on `SafeInv`.
  - `RegisterTx` is `Admit(cur)`:
    - `cur` is new, by `WorkerFresh`;
    - it is not on chain, since its inputs are unspent;
    - its inputs are unspent, by `WorkerUnspent`;
    - it is apart from every held transaction, by `WorkerUnlocked` and
      `AllLocked`.
  - `DeleteTransaction` and the swap are `Drop` of one pooled transaction
    (`PoolApart`). `FlushReserved` drops the reserved ones. `clearPool`
    drops everything.
  - `CommitBlock` is `Commit` of the batch, by `BatchReady` and
    `DisjointInputs`.
  - `ReserveStep`, `RollbackReserved` and `RollbackFlush` leave `Held`
    unchanged; this is why `Held` counts only the pool during a rollback.
  - With two forgers TLC refutes the refinement: `two_forgers_double_spend`
    commits one UTXO twice, which no `Commit` allows.
- **`PoolLedgerProofs!LedgerSafeAlways`**: the abstract ledger keeps
  `LedgerSafe`: held transactions pairwise apart and unspent, and a chain
  without double spends. With `PoolRefinesLedger`, this is the pool's safety
  derived from its promise alone.

Only model-checked, not proved:
- the pool's double-spend properties for catalogues outside `SwapSafe`.
  They are false there, so no proof is possible. What a run checks on such a
  catalogue is a violation;
- `StartupCompletes` (liveness);
- every violation;
- the fee walk, since what a recursive definition computes for every input
  needs induction over data, which the provers cannot instantiate.

Liveness and `ENABLED` are outside TLAPS's reach.

## 6. What is not modelled, and why

- **The data race when the shared priced slice is read after unlocking.**
  `GetTxQueue` returns the shared slice, and `GetFee` and
  `GetPendingTransactions` read it after the lock is released. The model
  reads it atomically.
- **The tx lost by a swap whose validation then fails.** This needs a history
  variable.
- **uint64 arithmetic in `GetFee` (`txpool.go:483`).** A transaction's fee
  is bounded by its input amounts, so `maxFee + minFee` stays far below
  `2^64`. `FeeEstimate` uses small unbounded fees.
- **The gRPC health interceptor.** `SendRawTx` is rejected with "Not ready"
  while the chain service reports unhealthy (`rpc/service.go:125-128`).
  That status lives outside `src/`, so `NodeStartup` lets every call
  through. A transaction lost before `ReadingLoop` subscribes is lost the
  same way whether it is sent before or after sync.
- **How the Feed serialises Sends.** go-ethereum's `event.Feed` runs one Send
  at a time, whereas the model interleaves the pending deliveries of
  different Sends. That allows more orders than the code has, so the
  safety runs lose nothing. The element types of `TxFeed` also differ:
  `*types.Transaction` at `sync/service.go:62` and `*types.TransactionData`
  at `txpool.go:49`. The wiring that joins the two is outside `src/`, and
  the model abstracts a transaction to one value.
- **The sync service's block path.** This covers `forkBlockEvent`,
  `forkWatcher` and `SyncWithNetwork` (taken as returning), and also the
  stream handlers and `Stop`. It is network I/O, and nothing in it feeds the
  start-up handshake except through `Start`'s order.
- **The gRPC server and the generator.** `SendRawTx` appears only as an
  input of `NodeStartup`.
- **Who subscribes the attestation state channel.** That wiring is outside
  `src/`, so `NodeStartup` takes it as subscribed from the start.
- **A ForgeFailed consumed by `waitNodeSync`.** If the forger fails before
  the attestation service has seen Synced, `waitNodeSync` drops the report
  and the latch is never set (`attestation/service.go:117`). Whether that
  can happen depends on the forger, which is not under `src/`.
- **Generated code.**

## 7. Plan for further work

1. A history-based property for transactions lost by a failed swap.
2. The priced slice read element by element by `GetPendingTransactions`,
   racing `DeleteFromPricedPool`.
3. `PoolLedger` as the abstract side of the start-up model, so that the
   pool's admissions before and after the latch can be stated as ledger
   steps.
