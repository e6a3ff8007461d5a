------------------------------- MODULE TxPool -------------------------------
(***************************************************************************)
(* The transaction pool of src/blockchain/core/attestation/txpool.go:      *)
(* admission of transactions by the single ingest worker (ReadingLoop ->   *)
(* RegisterTx, with its three separately locked phases), the reservation   *)
(* of a batch for a block by the forger (ReserveTransactions, then         *)
(* FlushReserved(true) after the block is stored, or RollbackReserved when *)
(* forging fails), DeleteTransaction and GetTxQueue called from other      *)
(* threads, and the forge-failed latch.                                    *)
(*                                                                         *)
(* A transaction is a model value standing for its hash; its inputs,       *)
(* sender (Inputs[0].Address), num, fee and timestamp are constants.  The  *)
(* validator and the UTXO store are external: the chain is the set of      *)
(* committed transactions, and validation fails for a spent input or an    *)
(* input the sender does not own, and otherwise may fail or pass.          *)
(***************************************************************************)
EXTENDS Naturals, Sequences, FiniteSets, Functions

CONSTANTS
    Tx,         \* transactions (their hashes)
    Input,      \* UTXO keys hash_index, as made by genKeyFromInput
    Sender,     \* addresses
    Forger,     \* threads that forge blocks
    NoTx,       \* "no entry" in the lockedInputs map
    Free,       \* the pool mutex is not held across a step
    TxInputs,   \* tx -> its inputs, in order
    TxSender,   \* tx -> Inputs[0].Address
    TxNum,      \* tx -> num
    TxFee,      \* tx -> fee
    TxTime,     \* tx -> timestamp
    Owner,      \* input -> address that owns the UTXO on chain
    BatchMax    \* most transactions a forger puts in one block

ASSUME TxAssumption ==
    /\ IsFiniteSet(Tx)
    /\ NoTx \notin Tx
    /\ Free \notin Forger
    /\ \A t \in Tx :
          /\ TxInputs[t] \in Seq(Input) \ {<<>>}
          /\ TxSender[t] \in Sender
          /\ TxNum[t] \in Nat
          /\ TxFee[t] \in Nat
          /\ TxTime[t] \in Nat
    /\ \A k \in Input : Owner[k] \in Sender
    /\ BatchMax \in Nat

VARIABLES
    pool,        \* tp.pool: admitted, not reserved
    reserved,    \* tp.reservedPool
    priced,      \* tp.pricedPool, a slice of transactions
    locked,      \* tp.lockedInputs: input -> hash of the tx that locked it
    chain,       \* committed transactions (the UTXO store's view)
    forgeFailed, \* tp.forgeFailed
    lock,        \* forger holding tp.lock through ReserveTransactions' loop
    wpc,         \* where the ingest worker is in ReadingLoop/RegisterTx
    cur,         \* the transaction the worker is registering
    fpc,         \* where each forger is
    batch,       \* the batch each forger selected
    fi,          \* next batch index ReserveTransactions looks at
    fres         \* what ReserveTransactions returned to each forger

vars == <<pool, reserved, priced, locked, chain, forgeFailed, lock,
          wpc, cur, fpc, batch, fi, fres>>

WorkerPC == {"idle", "check", "validate", "register", "stopped"}
ForgerPC == {"idle", "selected", "reserving", "reserved", "committed",
             "rollback"}
ReserveResult == {"none", "ok", "notFound", "alreadyReserved",
                  "notInPriced"}

-----------------------------------------------------------------------------
(* Helpers on the pool's data.                                             *)

InputSet(t) == Range(TxInputs[t])

\* inputs of committed transactions are spent in the UTXO store
Spent == UNION {InputSet(t) : t \in chain}

\* pricedTxPool.Less: higher fee first, then earlier timestamp
Less(a, b) ==
    IF TxFee[a] = TxFee[b] THEN TxTime[a] < TxTime[b]
                           ELSE TxFee[a] > TxFee[b]

Occurrences(s, t) == Cardinality({k \in DOMAIN s : s[k] = t})

\* pricedTxPool.Sort (sort.Slice, not stable): any reordering of s in
\* which no element is Less than one before it
SortedOrders(s) ==
    {p \in [1..Len(s) -> Range(s)] :
        /\ \A t \in Range(s) : Occurrences(p, t) = Occurrences(s, t)
        /\ \A k, m \in 1..Len(s) : k < m => ~Less(p[m], p[k])}

\* pricedTxPool.FindByTx: first index holding t
InPriced(p, t) == \E k \in 1..Len(p) : p[k] = t
FindByTx(p, t) == CHOOSE k \in 1..Len(p) : p[k] = t /\ \A m \in 1..(k - 1) : p[m] # t

\* mutant: the slice is not shortened after the last element moves
DeleteFromPricedNoShrink(p, t) ==
    IF InPriced(p, t)
    THEN [p EXCEPT ![FindByTx(p, t)] = p[Len(p)]]
    ELSE p

\* DeleteFromPricedPool: the last element moves into the hole
DeleteFromPriced(p, t) ==
    IF InPriced(p, t)
    THEN SubSeq([p EXCEPT ![FindByTx(p, t)] = p[Len(p)]], 1, Len(p) - 1)
    ELSE p

\* mutant: delete() taken as removing the keys from the map's domain
UnlockInputsShrink(lk, t) == [k \in Input \ InputSet(t) |-> lk[k]]

\* unlockInputs deletes every input key of t, whoever holds it
UnlockInputs(lk, t) == [k \in Input |-> IF k \in InputSet(t) THEN NoTx ELSE lk[k]]

\* RegisterTx: every input key of t now names t
LockInputs(lk, t) == [k \in Input |-> IF k \in InputSet(t) THEN t ELSE lk[k]]

\* an injective listing of the set S, in any order (Go map iteration)
Listings(S) == {e \in [1..Cardinality(S) -> S] : IsInjective(e)}

-----------------------------------------------------------------------------
Init ==
    /\ pool = {}
    /\ reserved = {}
    /\ priced = <<>>
    /\ locked = [k \in Input |-> NoTx]
    /\ chain = {}
    /\ forgeFailed = FALSE
    /\ lock = Free
    /\ wpc = "idle"
    /\ cur = NoTx
    /\ fpc = [f \in Forger |-> "idle"]
    /\ batch = [f \in Forger |-> <<>>]
    /\ fi = [f \in Forger |-> 1]
    /\ fres = [f \in Forger |-> "none"]

forgerVars == <<fpc, batch, fi, fres>>
workerVars == <<wpc, cur>>

-----------------------------------------------------------------------------
(* The ingest worker: ReadingLoop and RegisterTx.                          *)

\* ReadingLoop receives td after the forge latch was set: clearPool, return
ClearPool ==
    /\ wpc = "idle" /\ lock = Free /\ forgeFailed
    /\ pool' = {} /\ reserved' = {} /\ priced' = <<>>
    /\ locked' = [k \in Input |-> NoTx]
    /\ wpc' = "stopped"
    /\ UNCHANGED <<chain, forgeFailed, lock, cur, forgerVars>>

\* ReadingLoop selects ctx.Done() after StopWriting
StopWriting ==
    /\ wpc = "idle"
    /\ wpc' = "stopped"
    /\ UNCHANGED <<pool, reserved, priced, locked, chain, forgeFailed, lock,
                   cur, forgerVars>>

\* receive td, latch clear; validateTx: the pool/reserved lookup under the
\* lock, then ValidateTransactionStruct
Receive(t) ==
    /\ wpc = "idle" /\ lock = Free /\ ~forgeFailed
    /\ \/ t \in pool \cup reserved
          /\ UNCHANGED workerVars
       \/ t \notin pool \cup reserved
          /\ \/ UNCHANGED workerVars                   \* struct check fails
             \/ wpc' = "check" /\ cur' = t
    /\ UNCHANGED <<pool, reserved, priced, locked, chain, forgeFailed, lock,
                   forgerVars>>

\* mutant: the existsInPool guard dropped, a reserved tx can be replaced
ReplacesAny(t, first) ==
    /\ TxSender[t] = TxSender[first]
    /\ TxNum[t] = TxNum[first]
    /\ TxFee[t] > TxFee[first]

\* checkInputs: t may take the place of the pool tx first that locked its
\* input when the sender is the same, the num equal and the fee higher
Replaces(t, first) ==
    /\ first \in pool
    /\ TxSender[t] = TxSender[first]
    /\ TxNum[t] = TxNum[first]
    /\ TxFee[t] > TxFee[first]

\* mutant: a key whose tx is no longer in the pool is passed over, as if
\* the ErrInputExists return sat inside the existsInPool branch
LockedAtInPool(ins) == {k \in 1..Len(ins) : locked[ins[k]] \in pool}

\* the positions of ins whose key is in tp.lockedInputs
LockedAt(ins) == {k \in 1..Len(ins) : locked[ins[k]] # NoTx}

\* checkInputs under the lock: the first locked input decides
CheckInputs ==
    /\ wpc = "check" /\ lock = Free
    /\ LET ins == TxInputs[cur]
           lockedAt == LockedAt(ins)
       IN \/ lockedAt = {}
             /\ wpc' = "validate"
             /\ UNCHANGED <<pool, priced, locked, cur>>
          \/ lockedAt # {}
             /\ LET first == locked[ins[CHOOSE k \in lockedAt :
                                         \A m \in lockedAt : k <= m]]
                IN \/ /\ Replaces(cur, first)
                      \* swap: deleteTransactionByHash(first), return nil
                      /\ pool' = pool \ {first}
                      /\ locked' = UnlockInputs(locked, first)
                      /\ priced' = DeleteFromPriced(priced, first)
                      /\ IF InPriced(priced, first)
                           THEN wpc' = "validate" /\ UNCHANGED cur
                           ELSE wpc' = "idle" /\ cur' = NoTx
                   \/ /\ ~Replaces(cur, first)
                      \* ErrInputExists
                      /\ wpc' = "idle" /\ cur' = NoTx
                      /\ UNCHANGED <<pool, priced, locked>>
    /\ UNCHANGED <<reserved, chain, forgeFailed, lock, forgerVars>>

\* mutant: the validator does not look at whether an input is spent
ValidateTxNoSpentCheck ==
    /\ wpc = "validate"
    /\ \/ wpc' = "idle" /\ cur' = NoTx
       \/ /\ \A k \in InputSet(cur) : Owner[k] = TxSender[cur]
          /\ wpc' = "register" /\ UNCHANGED cur
    /\ UNCHANGED <<pool, reserved, priced, locked, chain, forgeFailed, lock,
                   forgerVars>>

\* ValidateTransaction against the UTXO store, no pool lock
ValidateTx ==
    /\ wpc = "validate"
    /\ \/ wpc' = "idle" /\ cur' = NoTx
       \/ /\ InputSet(cur) \cap Spent = {}
          /\ \A k \in InputSet(cur) : Owner[k] = TxSender[cur]
          /\ wpc' = "register" /\ UNCHANGED cur
    /\ UNCHANGED <<pool, reserved, priced, locked, chain, forgeFailed, lock,
                   forgerVars>>

\* RegisterTx after validateTx succeeded
RegisterTx ==
    /\ wpc = "register" /\ lock = Free
    /\ pool' = pool \cup {cur}
    /\ priced' = Append(priced, cur)
    /\ locked' = LockInputs(locked, cur)
    /\ wpc' = "idle" /\ cur' = NoTx
    /\ UNCHANGED <<reserved, chain, forgeFailed, lock, forgerVars>>

-----------------------------------------------------------------------------
(* Callers on other threads.                                               *)

\* (mutant) deleteTransactionByHash without unlockInputs
DeleteTransactionKeepLocks(t) ==
    /\ lock = Free /\ t \in pool
    /\ pool' = pool \ {t}
    /\ priced' = DeleteFromPriced(priced, t)
    /\ UNCHANGED <<reserved, locked, chain, forgeFailed, lock, workerVars,
                   forgerVars>>

\* DeleteTransaction(tx) -> deleteTransactionByHash
DeleteTransaction(t) ==
    /\ lock = Free /\ t \in pool
    /\ pool' = pool \ {t}
    /\ locked' = UnlockInputs(locked, t)
    /\ priced' = DeleteFromPriced(priced, t)
    /\ UNCHANGED <<reserved, chain, forgeFailed, lock, workerVars, forgerVars>>

\* GetTxQueue (also behind GetFee and GetPendingTransactions) sorts in place
GetTxQueue ==
    /\ lock = Free
    /\ priced' \in SortedOrders(priced)
    /\ UNCHANGED <<pool, reserved, locked, chain, forgeFailed, lock,
                   workerVars, forgerVars>>

\* the forge error event reaches lookForgeError: catchForgeError
CatchForgeError ==
    /\ ~forgeFailed
    /\ forgeFailed' = TRUE
    /\ UNCHANGED <<pool, reserved, priced, locked, chain, lock, workerVars,
                   forgerVars>>


-----------------------------------------------------------------------------
(* A forger: the block builder around the pool (not under src/, modelled   *)
(* from the spec): it takes a prefix of GetPendingTransactions, reserves   *)
(* it, and then either stores the block and flushes, or rolls back.        *)

\* GetPendingTransactions (sorting the priced pool), then a prefix of it
SelectBatch(f) ==
    /\ fpc[f] = "idle" /\ lock = Free
    /\ \E q \in SortedOrders(priced), n \in 0..BatchMax :
          /\ n <= Len(q)
          /\ priced' = q
          /\ batch' = [batch EXCEPT ![f] = SubSeq(q, 1, n)]
    /\ fpc' = [fpc EXCEPT ![f] = "selected"]
    /\ fres' = [fres EXCEPT ![f] = "none"]
    /\ UNCHANGED <<pool, reserved, locked, chain, forgeFailed, lock, fi,
                   workerVars>>

\* ReserveTransactions takes the lock and walks the batch
ReserveStart(f) ==
    /\ fpc[f] = "selected" /\ lock = Free
    /\ lock' = f
    /\ fi' = [fi EXCEPT ![f] = 1]
    /\ fpc' = [fpc EXCEPT ![f] = "reserving"]
    /\ UNCHANGED <<pool, reserved, priced, locked, chain, forgeFailed, batch,
                   fres, workerVars>>

\* an error return of ReserveTransactions: unlock; the forger drops the block
ReserveFail(f, err) ==
    /\ lock' = Free
    /\ fres' = [fres EXCEPT ![f] = err]
    /\ fpc' = [fpc EXCEPT ![f] = "idle"]

\* one iteration of ReserveTransactions' loop, for batch element fi[f]
ReserveStep(f) ==
    /\ fpc[f] = "reserving" /\ lock = f /\ fi[f] <= Len(batch[f])
    /\ LET t == batch[f][fi[f]] IN
       \/ t \notin pool
          /\ ReserveFail(f, "notFound")
          /\ UNCHANGED <<pool, reserved, priced, fi>>
       \/ t \in pool /\ t \in reserved
          /\ ReserveFail(f, "alreadyReserved")
          /\ UNCHANGED <<pool, reserved, priced, fi>>
       \/ t \in pool /\ t \notin reserved
          /\ reserved' = reserved \cup {t}
          /\ pool' = pool \ {t}
          /\ priced' = DeleteFromPriced(priced, t)
          /\ IF InPriced(priced, t)
               THEN fi' = [fi EXCEPT ![f] = @ + 1] /\ UNCHANGED <<lock, fpc, fres>>
               ELSE ReserveFail(f, "notInPriced") /\ UNCHANGED fi
    /\ UNCHANGED <<locked, chain, forgeFailed, batch, workerVars>>

\* the loop ends: unlock and return nil
ReserveEnd(f) ==
    /\ fpc[f] = "reserving" /\ lock = f /\ fi[f] > Len(batch[f])
    /\ lock' = Free
    /\ fres' = [fres EXCEPT ![f] = "ok"]
    /\ fpc' = [fpc EXCEPT ![f] = "reserved"]
    /\ UNCHANGED <<pool, reserved, priced, locked, chain, forgeFailed, batch,
                   fi, workerVars>>

\* the block is stored: its transactions are committed to the UTXO store
CommitBlock(f) ==
    /\ fpc[f] = "reserved"
    /\ chain' = chain \cup Range(batch[f])
    /\ fpc' = [fpc EXCEPT ![f] = "committed"]
    /\ UNCHANGED <<pool, reserved, priced, locked, forgeFailed, lock, batch,
                   fi, fres, workerVars>>

\* mutant: FlushReserved forgets to unlock the inputs
FlushLocksKeep(clean) == locked

\* FlushReserved(cleanInputs): the input keys of every reserved tx go when
\* cleanInputs; the reserved pool is emptied
FlushLocks(clean) ==
    IF clean
      THEN [k \in Input |-> IF \E r \in reserved : k \in InputSet(r)
                               THEN NoTx ELSE locked[k]]
      ELSE locked

\* FlushReserved(true) after the block is stored
FlushReserved(f) ==
    /\ fpc[f] = "committed" /\ lock = Free
    /\ locked' = FlushLocks(TRUE)
    /\ reserved' = {}
    /\ fpc' = [fpc EXCEPT ![f] = "idle"]
    /\ UNCHANGED <<pool, priced, chain, forgeFailed, lock, batch, fi, fres,
                   workerVars>>

\* RollbackReserved, first locked section: every reserved tx not in the
\* pool goes back to the pool and to the end of the priced pool
RollbackReserved(f) ==
    /\ fpc[f] = "reserved" /\ lock = Free
    /\ LET back == reserved \ pool IN
       /\ pool' = pool \cup back
       /\ \E e \in Listings(back) : priced' = priced \o e
    /\ fpc' = [fpc EXCEPT ![f] = "rollback"]
    /\ UNCHANGED <<reserved, locked, chain, forgeFailed, lock, batch, fi,
                   fres, workerVars>>

\* mutant: the rollback flushes with cleanInputs = true
RollbackFlushClean(f) ==
    /\ fpc[f] = "rollback" /\ lock = Free
    /\ locked' = FlushLocks(TRUE)
    /\ reserved' = {}
    /\ fpc' = [fpc EXCEPT ![f] = "idle"]
    /\ UNCHANGED <<pool, priced, chain, forgeFailed, lock, batch, fi, fres,
                   workerVars>>

\* RollbackReserved, then FlushReserved(false) under a second lock
RollbackFlush(f) ==
    /\ fpc[f] = "rollback" /\ lock = Free
    /\ locked' = FlushLocks(FALSE)
    /\ reserved' = {}
    /\ fpc' = [fpc EXCEPT ![f] = "idle"]
    /\ UNCHANGED <<pool, priced, chain, forgeFailed, lock, batch, fi, fres,
                   workerVars>>

-----------------------------------------------------------------------------
Next ==
    \/ ClearPool \/ StopWriting \/ CheckInputs \/ ValidateTx \/ RegisterTx
    \/ GetTxQueue \/ CatchForgeError
    \/ \E t \in Tx : Receive(t) \/ DeleteTransaction(t)
    \/ \E f \in Forger :
          \/ SelectBatch(f) \/ ReserveStart(f) \/ ReserveStep(f)
          \/ ReserveEnd(f) \/ CommitBlock(f) \/ FlushReserved(f)
          \/ RollbackReserved(f) \/ RollbackFlush(f)

Spec == Init /\ [][Next]_vars

-----------------------------------------------------------------------------
(* Properties.                                                             *)

TypeOK ==
    /\ pool \subseteq Tx
    /\ reserved \subseteq Tx
    /\ priced \in Seq(Tx)
    /\ locked \in [Input -> Tx \cup {NoTx}]
    /\ chain \subseteq Tx
    /\ forgeFailed \in BOOLEAN
    /\ lock \in Forger \cup {Free}
    /\ wpc \in WorkerPC
    /\ cur \in Tx \cup {NoTx}
    /\ wpc \in {"check", "validate", "register"} => cur \in Tx
    /\ fpc \in [Forger -> ForgerPC]
    /\ batch \in [Forger -> Seq(Tx)]
    /\ fi \in [Forger -> Nat \ {0}]
    /\ fres \in [Forger -> ReserveResult]

\* The transactions the pool answers for: while a rollback is between its
\* two locked sections the reserved ones are on their way out.
Held == IF \E f \in Forger : fpc[f] = "rollback" THEN pool
                                                  ELSE pool \cup reserved

\* Spec 3 (invariant 4): the priced pool lists exactly the pool, each tx
\* once, across swaps, deletes, reservations and rollbacks.
PricedMatchesPool ==
    /\ Range(priced) = pool
    /\ IsInjective(priced)

\* Spec 3 (invariants 2 and 3): every input of a held tx is locked by it,
\* and every lock names a tx of the pool or the reserved pool.
LockTableSound ==
    /\ \A t \in Held : \A k \in InputSet(t) : locked[k] = t
    /\ \A k \in Input : locked[k] # NoTx => locked[k] \in pool \cup reserved

\* A lock never dangles: every locked input key names a transaction the
\* pool still answers for, and is one of that transaction's own inputs.
\* A dangling lock would make checkInputs reject every later spender of
\* that UTXO with ErrInputExists, for good.
NoDanglingLocks ==
    \A k \in Input : locked[k] # NoTx => /\ locked[k] \in Held
                                        /\ k \in InputSet(locked[k])

\* Spec 8 (property 5): two held transactions never spend the same UTXO.
DisjointInputs ==
    \A a, b \in Held : a # b => InputSet(a) \cap InputSet(b) = {}

\* No held, uncommitted tx spends an output the chain has already spent:
\* the validator's check and the input locks together keep the pool clean.
PoolSpendsUnspent ==
    \A t \in Held \ chain : InputSet(t) \cap Spent = {}

\* The blocks the forgers store never spend one UTXO twice.
ChainNoDoubleSpend ==
    \A a, b \in chain : a # b => InputSet(a) \cap InputSet(b) = {}

\* A lock is never handed from one transaction to another: an input key
\* that names a transaction keeps naming it until it is released.
\* RegisterTx writes lockedInputs without looking, so this rests on
\* checkInputs having found every input of the new transaction free, or held
\* by the transaction its swap deleted.
LocksNeverStolen ==
    [][\A k \in Input : locked[k] # NoTx => locked'[k] \in {locked[k], NoTx}]_vars

\* The pool, seen through the transactions it answers for, implements the
\* atomic ledger PoolLedger: RegisterTx is an Admit, deletes, swaps,
\* flushes and clearPool are Drops, a stored block is a Commit, and
\* reservation and rollback change nothing a caller can tell apart.
Ledger == INSTANCE PoolLedger WITH held <- Held
LedgerSpec == Ledger!Spec

-----------------------------------------------------------------------------
(* What the spec promises and the code does not keep; checked by runs     *)
(* that expect a violation.                                                *)

\* Spec 4.2.5/9: while the forge-failed latch is set no new transaction is
\* admitted (a tx may only come back from the reserved pool by rollback).
NoAdmissionAfterLatch ==
    [][forgeFailed => pool' \ pool \subseteq reserved]_vars

=============================================================================
