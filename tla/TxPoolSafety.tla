---------------------------- MODULE TxPoolSafety ----------------------------
(***************************************************************************)
(* The pool's double-spend invariants (LockTableSound, DisjointInputs,     *)
(* PoolSpendsUnspent, ChainNoDoubleSpend), proved for one forger and for   *)
(* every catalogue in which the swap of checkInputs cannot skip an input.  *)
(* checkInputs (txpool.go) looks only at the first locked input of the new *)
(* transaction: when the owner of that lock is replaced by fee, it returns *)
(* nil without looking at the other inputs.  That is harmless exactly when *)
(* a replacement that shares an input with the transaction it replaces     *)
(* spends only inputs of that transaction (SwapSafe); the run              *)
(* swap_skips_inputs shows what happens otherwise, and the run             *)
(* two_forgers_double_spend what a second forger does.                     *)
(***************************************************************************)
EXTENDS TxPoolProofs, WellFoundedInduction

\* the fee-replacement test of checkInputs, without its pool lookup
ReplacesByFee(t, u) ==
    TxSender[t] = TxSender[u] /\ TxNum[t] = TxNum[u] /\ TxFee[t] > TxFee[u]

\* The catalogue hypothesis: a transaction that may replace another by fee
\* and shares an input with it spends no input the other does not.
SwapSafe ==
    \A t, u \in Tx :
        ReplacesByFee(t, u) /\ InputSet(t) \cap InputSet(u) # {}
        => InputSet(t) \subseteq InputSet(u)

-----------------------------------------------------------------------------
(* The inductive invariant, checked with TLC on the base catalogue before *)
(* it was proved.                                                          *)

\* every input of a held transaction is locked by it (LockTableSound, 1)
AllLocked == \A t \in Held : \A k \in InputSet(t) : locked[k] = t

\* between checkInputs and RegisterTx no input of the worker's transaction
\* is locked, and after ValidateTx none of them is spent
WorkerUnlocked ==
    wpc \in {"validate", "register"} => \A k \in InputSet(cur) : locked[k] = NoTx
WorkerUnspent ==
    wpc = "register" => InputSet(cur) \cap Spent = {}

\* the pool holds no committed transaction, nor does the reserved pool
\* before the block is stored
ChainApart ==
    /\ pool \cap chain = {}
    /\ \A f \in Forger : fpc[f] # "committed" => reserved \cap chain = {}

\* outside a rollback a transaction is pooled or reserved, not both
PoolApart ==
    (\A f \in Forger : fpc[f] # "rollback") => pool \cap reserved = {}

\* a forger holds tp.lock exactly while it walks ReserveTransactions' loop
LockOwner == \A f \in Forger : fpc[f] = "reserving" <=> lock = f

\* the batch elements ReserveTransactions has passed are reserved
BatchReserving ==
    \A f \in Forger : fpc[f] = "reserving" =>
        \A j \in 1..(fi[f] - 1) : batch[f][j] \in reserved

\* a reserved batch is still reserved (unless clearPool emptied the pool and
\* stopped the worker), spends nothing spent, and spends no UTXO twice
BatchReady ==
    \A f \in Forger : fpc[f] = "reserved" =>
        /\ \/ Range(batch[f]) \subseteq reserved
           \/ wpc = "stopped" /\ pool \cup reserved = {}
        /\ \A x \in Range(batch[f]) : x \notin chain /\ InputSet(x) \cap Spent = {}
        /\ \A x, y \in Range(batch[f]) : x # y => InputSet(x) \cap InputSet(y) = {}

Rest ==
    /\ AllLocked /\ DisjointInputs /\ PoolSpendsUnspent /\ ChainNoDoubleSpend
    /\ WorkerUnlocked /\ WorkerUnspent /\ ChainApart /\ PoolApart
    /\ LockOwner /\ BatchReserving /\ BatchReady

SafeInv == PricedInv /\ LockInv /\ Rest

-----------------------------------------------------------------------------
(* Lemmas.                                                                 *)

\* A nonempty set of naturals has a least element: the CHOOSE of
\* checkInputs picks a locked input position.
LEMMA LeastExists ==
    ASSUME NEW S \in SUBSET Nat, S # {}
    PROVE  \E k \in S : \A m \in S : k <= m
<1>. DEFINE R == OpToRel(<, Nat)
<1>1. \E x \in S : \A y \in S : <<y, x>> \notin R
  BY NatLessThanWellFounded, WFMin
<1>2. \A x, y \in Nat : <<y, x>> \in R <=> y < x
  BY DEF OpToRel
<1>. HIDE DEF R
<1>3. PICK x \in S : \A y \in S : <<y, x>> \notin R
  BY <1>1
<1>4. \A y \in S : ~(y < x)
  BY <1>2, <1>3, Zenon
<1>. QED
  BY <1>4

\* The empty pool of NewTxPool satisfies the invariant.
LEMMA SafeInit == Init => SafeInv
<1>. SUFFICES ASSUME Init PROVE SafeInv
  OBVIOUS
<1>1. PricedInv /\ LockInv
  BY PricedInit, TypeInit DEF Init, LockInv, NoDanglingLocks
<1>2. Held = {} /\ Spent = {}
  BY DEF Init, Held, Spent
<1>3. LockOwner
  BY TxAssumption DEF Init, LockOwner
<1>4. AllLocked /\ DisjointInputs /\ PoolSpendsUnspent /\ ChainNoDoubleSpend
  BY <1>2 DEF Init, AllLocked, DisjointInputs, PoolSpendsUnspent,
     ChainNoDoubleSpend
<1>5. WorkerUnlocked /\ WorkerUnspent /\ ChainApart /\ PoolApart
  BY DEF Init, WorkerUnlocked, WorkerUnspent, ChainApart, PoolApart
<1>6. BatchReserving /\ BatchReady
  BY DEF Init, BatchReserving, BatchReady
<1>. QED
  BY <1>1, <1>3, <1>4, <1>5, <1>6 DEF SafeInv, Rest

\* The steps that change none of the tables, the chain or the forger:
\* StopWriting, GetTxQueue, CatchForgeError and Receive.
LEMMA QuietStep ==
    ASSUME NEW f0, Forger = {f0}, SafeInv,
           UNCHANGED <<pool, reserved, locked, chain, lock, fpc, batch, fi>>,
           wpc' \in {"validate", "register"} => UNCHANGED <<wpc, cur>>,
           wpc = "stopped" => wpc' = "stopped"
    PROVE  Rest'
<1>1. Held' = Held /\ Spent' = Spent
  BY HeldOne DEF Spent
<1>. QED
  BY <1>1 DEF SafeInv, Rest, AllLocked, DisjointInputs, PoolSpendsUnspent,
     ChainNoDoubleSpend, WorkerUnlocked, WorkerUnspent, ChainApart,
     PoolApart, LockOwner, BatchReserving, BatchReady

\* Every transaction spends at least one input (validateTx rejects a
\* transaction without inputs before it reaches the pool).
LEMMA InputSetNonEmpty ==
    ASSUME NEW t \in Tx
    PROVE  InputSet(t) # {}
<1>1. TxInputs[t] \in Seq(Input) /\ TxInputs[t] # <<>>
  BY TxAssumption
<1>2. Len(TxInputs[t]) >= 1
  BY <1>1, EmptySeq, LenProperties
<1>3. TxInputs[t][1] \in InputSet(t)
  BY <1>1, <1>2, LenProperties DEF InputSet, Range
<1>. QED
  BY <1>3

\* The inputs of a transaction are UTXO keys.
LEMMA InputSetType ==
    ASSUME NEW t \in Tx
    PROVE  InputSet(t) \subseteq Input
BY TxAssumption, RangeOfSeq DEF InputSet

\* The held transactions are transactions.
LEMMA HeldType ==
    ASSUME NEW f0, Forger = {f0}, TypeOK
    PROVE  Held \subseteq Tx
BY HeldOne DEF TypeOK

\* ValidateTransaction: the worker moves on only with unspent inputs.
LEMMA ValidateStep ==
    ASSUME NEW f0, Forger = {f0}, SafeInv, ValidateTx
    PROVE  Rest'
<1>1. /\ UNCHANGED <<pool, reserved, locked, chain, lock, fpc, batch, fi>>
      /\ wpc = "validate" /\ wpc' # "stopped"
  BY DEF ValidateTx, forgerVars
<1>2. Held' = Held /\ Spent' = Spent
  BY <1>1, HeldOne DEF Spent
<1>3. WorkerUnlocked' /\ WorkerUnspent'
  BY <1>1, <1>2 DEF ValidateTx, SafeInv, Rest, WorkerUnlocked, WorkerUnspent
<1>. QED
  BY <1>1, <1>2, <1>3 DEF SafeInv, Rest, AllLocked, DisjointInputs,
     PoolSpendsUnspent, ChainNoDoubleSpend, ChainApart, PoolApart, LockOwner,
     BatchReserving, BatchReady

\* RegisterTx: the worker's transaction joins the pool and locks its inputs,
\* all of them free since checkInputs and unspent since ValidateTransaction.
LEMMA RegisterStep ==
    ASSUME NEW f0, Forger = {f0}, SafeInv, RegisterTx
    PROVE  Rest'
<1>1. /\ wpc = "register" /\ wpc' = "idle"
      /\ pool' = pool \cup {cur} /\ locked' = LockInputs(locked, cur)
      /\ UNCHANGED <<reserved, chain, lock, fpc, batch, fi>>
  BY DEF RegisterTx, forgerVars
<1>2. /\ cur \in Tx /\ cur \notin pool \cup reserved
      /\ \A k \in InputSet(cur) : locked[k] = NoTx
      /\ InputSet(cur) \cap Spent = {}
  BY <1>1 DEF SafeInv, PricedInv, WorkerFresh, TypeOK, Rest, WorkerUnlocked,
     WorkerUnspent
<1>3. Held' = Held \cup {cur} /\ Spent' = Spent /\ Held \subseteq Tx
  BY <1>1, HeldOne, HeldType DEF Spent, SafeInv, LockInv
<1>4. \A k \in Input : locked'[k] = IF k \in InputSet(cur) THEN cur ELSE locked[k]
  BY <1>1 DEF LockInputs
<1>5. AllLocked'
  <2>. SUFFICES ASSUME NEW u \in Held', NEW k \in InputSet(u)
                PROVE  locked'[k] = u
    BY DEF AllLocked
  <2>1. k \in Input
    BY <1>2, <1>3, InputSetType
  <2>2. CASE u = cur
    BY <2>1, <2>2, <1>4
  <2>3. CASE u # cur
    <3>1. u \in Held /\ locked[k] = u
      BY <2>3, <1>3 DEF SafeInv, Rest, AllLocked
    <3>2. k \notin InputSet(cur)
      BY <3>1, <1>2, <1>3, TxAssumption
    <3>. QED
      BY <2>1, <3>1, <3>2, <1>4
  <2>. QED
    BY <2>2, <2>3
<1>6. DisjointInputs'
  <2>1. \A u \in Held : InputSet(cur) \cap InputSet(u) = {}
    BY <1>2, <1>3, TxAssumption DEF SafeInv, Rest, AllLocked
  <2>. QED
    BY <2>1, <1>3 DEF SafeInv, Rest, DisjointInputs
<1>7. PoolSpendsUnspent' /\ ChainNoDoubleSpend'
  BY <1>1, <1>2, <1>3 DEF SafeInv, Rest, PoolSpendsUnspent, ChainNoDoubleSpend
<1>8. cur \notin chain
  BY <1>2, InputSetNonEmpty DEF Spent
<1>9. ChainApart' /\ PoolApart'
  BY <1>1, <1>2, <1>8 DEF SafeInv, Rest, ChainApart, PoolApart
<1>10. WorkerUnlocked' /\ WorkerUnspent' /\ LockOwner' /\ BatchReserving'
  BY <1>1 DEF SafeInv, Rest, WorkerUnlocked, WorkerUnspent, LockOwner,
     BatchReserving
<1>11. BatchReady'
  BY <1>1, <1>3 DEF SafeInv, Rest, BatchReady
<1>. QED
  BY <1>5, <1>6, <1>7, <1>9, <1>10, <1>11 DEF Rest

\* Removing a pooled transaction and unlocking its inputs
\* (deleteTransactionByHash) keeps every conjunct but the worker's.
LEMMA RemovePooled ==
    ASSUME NEW f0, Forger = {f0}, SafeInv, NEW t \in pool,
           pool' = pool \ {t}, locked' = UnlockInputs(locked, t),
           UNCHANGED <<reserved, chain, lock, fpc, batch, fi>>,
           wpc' = "stopped" <=> wpc = "stopped"
    PROVE  /\ AllLocked' /\ DisjointInputs' /\ PoolSpendsUnspent'
           /\ ChainNoDoubleSpend' /\ ChainApart' /\ PoolApart'
           /\ LockOwner' /\ BatchReserving' /\ BatchReady'
<1>1. Held' = Held \ {t} /\ t \in Held /\ Spent' = Spent
  BY HeldOne DEF SafeInv, Rest, PoolApart, Spent
<1>2. \A k \in Input : locked'[k] = IF k \in InputSet(t) THEN NoTx ELSE locked[k]
  BY UnlockInputsAt
<1>3. AllLocked'
  <2>. SUFFICES ASSUME NEW u \in Held', NEW k \in InputSet(u)
                PROVE  locked'[k] = u
    BY DEF AllLocked
  <2>1. u \in Held /\ u # t /\ locked[k] = u /\ k \in Input
    BY <1>1, InputSetType, HeldType DEF SafeInv, Rest, AllLocked, LockInv
  <2>2. k \notin InputSet(t)
    BY <2>1, <1>1 DEF SafeInv, Rest, AllLocked
  <2>. QED
    BY <2>1, <2>2, <1>2
<1>4. DisjointInputs' /\ PoolSpendsUnspent' /\ ChainNoDoubleSpend'
  BY <1>1 DEF SafeInv, Rest, DisjointInputs, PoolSpendsUnspent,
     ChainNoDoubleSpend
<1>5. ChainApart' /\ PoolApart' /\ LockOwner' /\ BatchReserving'
  BY DEF SafeInv, Rest, ChainApart, PoolApart, LockOwner, BatchReserving
<1>6. BatchReady'
  BY <1>1 DEF SafeInv, Rest, BatchReady
<1>. QED
  BY <1>3, <1>4, <1>5, <1>6

\* DeleteTransaction from another thread.
LEMMA DeleteStep ==
    ASSUME NEW f0, Forger = {f0}, SafeInv, NEW t \in Tx, DeleteTransaction(t)
    PROVE  Rest'
<1>1. /\ t \in pool /\ pool' = pool \ {t} /\ locked' = UnlockInputs(locked, t)
      /\ UNCHANGED <<reserved, chain, lock, fpc, batch, fi, wpc, cur>>
  BY DEF DeleteTransaction, workerVars, forgerVars
<1>2. /\ AllLocked' /\ DisjointInputs' /\ PoolSpendsUnspent'
      /\ ChainNoDoubleSpend' /\ ChainApart' /\ PoolApart'
      /\ LockOwner' /\ BatchReserving' /\ BatchReady'
  BY <1>1, RemovePooled
<1>3. WorkerUnlocked' /\ WorkerUnspent'
  <2>1. \A k \in Input : locked[k] = NoTx => locked'[k] = NoTx
    BY <1>1, UnlockInputsAt
  <2>2. InputSet(cur)' = InputSet(cur) /\ Spent' = Spent
    BY <1>1 DEF InputSet, Spent
  <2>3. wpc \in {"validate", "register"} => InputSet(cur) \subseteq Input
    BY InputSetType DEF SafeInv, LockInv, TypeOK
  <2>. QED
    BY <1>1, <2>1, <2>2, <2>3 DEF SafeInv, Rest, WorkerUnlocked, WorkerUnspent
<1>. QED
  BY <1>2, <1>3 DEF Rest

\* checkInputs: the first locked input decides.  Where the worker goes on to
\* validation, every input of its transaction is free: none was locked, or
\* the owner of the first lock was swapped out and (SwapSafe) held all of
\* them.
LEMMA CheckInputsStep ==
    ASSUME NEW f0, Forger = {f0}, SwapSafe, SafeInv, CheckInputs
    PROVE  Rest'
<1>. DEFINE ins == TxInputs[cur]
            lockedAt == {k \in 1..Len(ins) : locked[ins[k]] # NoTx}
            kmin == CHOOSE k \in lockedAt : \A m \in lockedAt : k <= m
            first == locked[ins[kmin]]
<1>1. /\ wpc = "check" /\ cur \in Tx
      /\ UNCHANGED <<reserved, chain, lock, fpc, batch, fi>>
  BY DEF CheckInputs, LockedAt, forgerVars, SafeInv, LockInv, TypeOK
<1>2. ins \in Seq(Input) /\ Len(ins) \in Nat /\ DOMAIN ins = 1..Len(ins)
      /\ InputSet(cur) = {ins[k] : k \in 1..Len(ins)}
  BY <1>1, TxAssumption, LenProperties DEF InputSet, Range
<1>3. CASE lockedAt = {} /\ wpc' = "validate"
           /\ UNCHANGED <<pool, priced, locked, cur>>
  <2>1. Held' = Held /\ Spent' = Spent
    BY <1>1, <1>3, HeldOne DEF Spent
  <2>2. WorkerUnlocked'
    BY <1>2, <1>3 DEF WorkerUnlocked
  <2>. QED
    BY <1>1, <1>3, <2>1, <2>2 DEF SafeInv, Rest, AllLocked, DisjointInputs,
       PoolSpendsUnspent, ChainNoDoubleSpend, WorkerUnspent, ChainApart,
       PoolApart, LockOwner, BatchReserving, BatchReady
<1>4. CASE /\ lockedAt # {}
           /\ Replaces(cur, first)
           /\ pool' = pool \ {first}
           /\ locked' = UnlockInputs(locked, first)
           /\ IF InPriced(priced, first)
                THEN wpc' = "validate" /\ UNCHANGED cur
                ELSE wpc' = "idle" /\ cur' = NoTx
  <2>1. first \in pool /\ wpc' \in {"validate", "idle"}
    BY <1>4 DEF Replaces
  <2>2. /\ AllLocked' /\ DisjointInputs' /\ PoolSpendsUnspent'
        /\ ChainNoDoubleSpend' /\ ChainApart' /\ PoolApart'
        /\ LockOwner' /\ BatchReserving' /\ BatchReady'
    BY <1>1, <1>4, <2>1, RemovePooled
  <2>3. kmin \in lockedAt
    <3>1. lockedAt \in SUBSET Nat
      BY <1>2
    <3>2. \E k \in lockedAt : \A m \in lockedAt : k <= m
      BY <1>4, <3>1, LeastExists
    <3>. QED
      BY <3>2
  <2>4. ins[kmin] \in InputSet(cur) /\ ins[kmin] \in Input /\ first # NoTx
    <3>1. kmin \in 1..Len(ins) /\ locked[ins[kmin]] # NoTx
      BY <2>3
    <3>2. ins[kmin] \in Input
      BY <1>2, <3>1, ElementOfSeq
    <3>. QED
      BY <1>2, <3>1, <3>2
  <2>5. ins[kmin] \in InputSet(first) /\ first \in Tx
    BY <2>1, <2>4 DEF SafeInv, LockInv, NoDanglingLocks, TypeOK
  <2>6. InputSet(cur) \subseteq InputSet(first)
    BY <1>1, <1>4, <2>4, <2>5 DEF SwapSafe, ReplacesByFee, Replaces
  <2>7. WorkerUnlocked'
    <3>. SUFFICES ASSUME wpc' = "validate", NEW k \in InputSet(cur')
                  PROVE  locked'[k] = NoTx
      BY <2>1 DEF WorkerUnlocked
    <3>1. cur' = cur /\ k \in InputSet(first)
      BY <1>4, <2>6
    <3>2. k \in Input
      BY <3>1, <2>5, InputSetType
    <3>3. UnlockInputs(locked, first)[k] = NoTx
      BY <3>1, <3>2 DEF UnlockInputs
    <3>. QED
      BY <1>4, <3>3
  <2>8. WorkerUnspent'
    BY <2>1 DEF WorkerUnspent
  <2>. QED
    BY <2>2, <2>7, <2>8 DEF Rest
<1>5. CASE wpc' = "idle" /\ UNCHANGED <<pool, priced, locked>>
  <2>1. Held' = Held /\ Spent' = Spent
    BY <1>1, <1>5, HeldOne DEF Spent
  <2>. QED
    BY <1>1, <1>5, <2>1 DEF SafeInv, Rest, AllLocked, DisjointInputs,
       PoolSpendsUnspent, ChainNoDoubleSpend, WorkerUnlocked, WorkerUnspent,
       ChainApart, PoolApart, LockOwner, BatchReserving, BatchReady
<1>. QED
  BY <1>3, <1>4, <1>5 DEF CheckInputs, LockedAt

\* clearPool after the forge latch: everything is dropped and the worker
\* stops; the forger cannot be inside ReserveTransactions, whose lock
\* clearPool waited for.
LEMMA ClearPoolStep ==
    ASSUME NEW f0, Forger = {f0}, SafeInv, ClearPool
    PROVE  Rest'
<1>1. /\ lock = Free /\ wpc' = "stopped"
      /\ pool' = {} /\ reserved' = {}
      /\ UNCHANGED <<chain, lock, fpc, batch, fi>>
  BY DEF ClearPool, forgerVars
<1>2. Held' = {} /\ Spent' = Spent
  BY <1>1, HeldOne DEF Spent
<1>3. fpc[f0] # "reserving"
  BY <1>1, TxAssumption DEF SafeInv, Rest, LockOwner
<1>4. AllLocked' /\ DisjointInputs' /\ PoolSpendsUnspent'
      /\ ChainNoDoubleSpend' /\ WorkerUnlocked' /\ WorkerUnspent'
  BY <1>1, <1>2 DEF SafeInv, Rest, AllLocked, DisjointInputs,
     PoolSpendsUnspent, ChainNoDoubleSpend, WorkerUnlocked, WorkerUnspent
<1>5. ChainApart' /\ PoolApart' /\ LockOwner' /\ BatchReserving'
  BY <1>1, <1>3 DEF SafeInv, Rest, ChainApart, PoolApart, LockOwner,
     BatchReserving
<1>6. BatchReady'
  BY <1>1, <1>2 DEF SafeInv, Rest, BatchReady
<1>. QED
  BY <1>4, <1>5, <1>6 DEF Rest

\* GetPendingTransactions and the entry of ReserveTransactions: only the
\* forger's own state and the order of the priced pool change.
LEMMA SelectStartStep ==
    ASSUME NEW f0, Forger = {f0}, SafeInv,
           SelectBatch(f0) \/ ReserveStart(f0)
    PROVE  Rest'
<1>1. /\ UNCHANGED <<pool, reserved, locked, chain, wpc, cur>>
      /\ fpc[f0] \in {"idle", "selected"}
      /\ fpc'[f0] \in {"selected", "reserving"}
      /\ fpc'[f0] = "reserving" => lock' = f0 /\ fi'[f0] = 1
      /\ fpc'[f0] = "selected" => lock' = Free
  BY TxAssumption DEF SelectBatch, ReserveStart, workerVars, SafeInv, LockInv,
     TypeOK
<1>2. Held' = Held /\ Spent' = Spent
  BY <1>1, HeldOne DEF Spent
<1>3. LockOwner' /\ BatchReserving' /\ BatchReady'
  BY <1>1, TxAssumption DEF LockOwner, BatchReserving, BatchReady
<1>. QED
  BY <1>1, <1>2, <1>3 DEF SafeInv, Rest, AllLocked, DisjointInputs,
     PoolSpendsUnspent, ChainNoDoubleSpend, WorkerUnlocked, WorkerUnspent,
     ChainApart, PoolApart

\* One iteration of ReserveTransactions' loop: the batch element moves
\* from the pool to the reserved pool, or the call returns an error.
LEMMA ReserveStepStep ==
    ASSUME NEW f0, Forger = {f0}, SafeInv, ReserveStep(f0)
    PROVE  Rest'
<1>. DEFINE t == batch[f0][fi[f0]]
<1>1. /\ fpc[f0] = "reserving" /\ lock = f0
      /\ UNCHANGED <<locked, chain, batch, wpc, cur>>
  BY DEF ReserveStep, workerVars
<1>2. CASE UNCHANGED <<pool, reserved>> /\ lock' = Free /\ fpc'[f0] = "idle"
  <2>1. Held' = Held /\ Spent' = Spent
    BY <1>1, <1>2, HeldOne DEF Spent
  <2>. QED
    BY <1>1, <1>2, <2>1, TxAssumption DEF SafeInv, Rest, AllLocked,
       DisjointInputs, PoolSpendsUnspent, ChainNoDoubleSpend, WorkerUnlocked,
       WorkerUnspent, ChainApart, PoolApart, LockOwner, BatchReserving,
       BatchReady
<1>. DEFINE Move == /\ t \in pool /\ t \notin reserved
                    /\ reserved' = reserved \cup {t}
                    /\ pool' = pool \ {t}
<1>3. ASSUME Move, fpc'[f0] \in {"reserving", "idle"}
      PROVE  /\ AllLocked' /\ DisjointInputs' /\ PoolSpendsUnspent'
             /\ ChainNoDoubleSpend' /\ WorkerUnlocked' /\ WorkerUnspent'
             /\ ChainApart' /\ PoolApart' /\ BatchReady'
  <2>1. Held' = Held /\ Spent' = Spent
    BY <1>1, <1>3, HeldOne DEF Spent
  <2>2. t \notin chain
    BY <1>3 DEF SafeInv, Rest, ChainApart
  <2>3. ChainApart' /\ PoolApart'
    BY <1>1, <1>3, <2>2 DEF SafeInv, Rest, ChainApart, PoolApart
  <2>. QED
    BY <1>1, <1>3, <2>1, <2>3 DEF SafeInv, Rest, AllLocked, DisjointInputs,
       PoolSpendsUnspent, ChainNoDoubleSpend, WorkerUnlocked, WorkerUnspent,
       BatchReady
<1>4. CASE Move /\ fi' = [fi EXCEPT ![f0] = @ + 1] /\ UNCHANGED <<lock, fpc>>
  <2>1. fi[f0] \in Nat
    BY DEF SafeInv, LockInv, TypeOK
  <2>2. BatchReserving'
    BY <1>1, <1>4, <2>1 DEF SafeInv, Rest, BatchReserving
  <2>3. LockOwner'
    BY <1>4 DEF SafeInv, Rest, LockOwner
  <2>. QED
    BY <1>1, <1>3, <1>4, <2>2, <2>3 DEF Rest
<1>5. CASE Move /\ lock' = Free /\ fpc'[f0] = "idle"
  <2>1. LockOwner' /\ BatchReserving'
    BY <1>5, TxAssumption DEF LockOwner, BatchReserving
  <2>. QED
    BY <1>3, <1>5, <2>1 DEF Rest
<1>6. ASSUME NEW err, ReserveFail(f0, err)
      PROVE  lock' = Free /\ fpc'[f0] = "idle"
  BY <1>6 DEF ReserveFail, SafeInv, LockInv, TypeOK
<1>. QED
  BY <1>2, <1>4, <1>5, <1>6 DEF ReserveStep

\* ReserveTransactions returns nil: the whole batch is reserved, so it
\* spends nothing spent and no UTXO twice.
LEMMA ReserveEndStep ==
    ASSUME NEW f0, Forger = {f0}, SafeInv, ReserveEnd(f0)
    PROVE  Rest'
<1>1. /\ fpc[f0] = "reserving" /\ fi[f0] > Len(batch[f0])
      /\ fpc'[f0] = "reserved" /\ lock' = Free
      /\ UNCHANGED <<pool, reserved, locked, chain, batch, fi, wpc, cur>>
  BY DEF ReserveEnd, workerVars, SafeInv, LockInv, TypeOK
<1>2. Held' = Held /\ Spent' = Spent /\ Held = pool \cup reserved
  BY <1>1, HeldOne DEF Spent
<1>3. Range(batch[f0]) \subseteq reserved
  <2>1. batch[f0] \in Seq(Tx) /\ fi[f0] \in Nat
    BY DEF SafeInv, LockInv, TypeOK
  <2>2. \A j \in 1..Len(batch[f0]) : batch[f0][j] \in reserved
    BY <1>1, <2>1 DEF SafeInv, Rest, BatchReserving
  <2>. QED
    BY <2>1, <2>2, LenProperties DEF Range
<1>4. \A x \in Range(batch[f0]) : x \notin chain /\ InputSet(x) \cap Spent = {}
  BY <1>1, <1>2, <1>3 DEF SafeInv, Rest, ChainApart, PoolSpendsUnspent
<1>5. \A x, y \in Range(batch[f0]) : x # y => InputSet(x) \cap InputSet(y) = {}
  BY <1>2, <1>3 DEF SafeInv, Rest, DisjointInputs
<1>6. BatchReady'
  BY <1>1, <1>2, <1>3, <1>4, <1>5 DEF BatchReady
<1>7. LockOwner' /\ BatchReserving'
  BY <1>1, TxAssumption DEF LockOwner, BatchReserving
<1>. QED
  BY <1>1, <1>2, <1>6, <1>7 DEF SafeInv, Rest, AllLocked, DisjointInputs,
     PoolSpendsUnspent, ChainNoDoubleSpend, WorkerUnlocked, WorkerUnspent,
     ChainApart, PoolApart

\* The block is stored: its transactions, reserved and clean, join the
\* chain, and no held transaction or the worker's spends one of their
\* inputs.
LEMMA CommitStep ==
    ASSUME NEW f0, Forger = {f0}, SafeInv, CommitBlock(f0)
    PROVE  Rest'
<1>. DEFINE B == Range(batch[f0])
<1>1. /\ fpc[f0] = "reserved" /\ fpc'[f0] = "committed"
      /\ chain' = chain \cup B
      /\ UNCHANGED <<pool, reserved, locked, lock, batch, fi, wpc, cur>>
  BY DEF CommitBlock, workerVars, SafeInv, LockInv, TypeOK
<1>2. Held' = Held /\ Held = pool \cup reserved
  BY <1>1, HeldOne
<1>3. \A k : k \in Spent' <=> k \in Spent \/ \E x \in B : k \in InputSet(x)
  BY <1>1 DEF Spent
<1>4. /\ B \subseteq reserved \/ (wpc = "stopped" /\ pool \cup reserved = {})
      /\ \A x \in B : x \notin chain /\ InputSet(x) \cap Spent = {}
      /\ \A x, y \in B : x # y => InputSet(x) \cap InputSet(y) = {}
  BY <1>1 DEF SafeInv, Rest, BatchReady
\* a held transaction other than a batch element shares no input with it
<1>5. \A t \in Held, x \in B : t # x => InputSet(t) \cap InputSet(x) = {}
  BY <1>2, <1>4 DEF SafeInv, Rest, DisjointInputs
<1>6. PoolSpendsUnspent'
  <2>. SUFFICES ASSUME NEW t \in Held', t \notin chain'
                PROVE  InputSet(t) \cap Spent' = {}
    BY DEF PoolSpendsUnspent
  <2>1. t \in Held /\ t \notin chain /\ t \notin B /\ InputSet(t) \cap Spent = {}
    BY <1>1, <1>2 DEF SafeInv, Rest, PoolSpendsUnspent
  <2>. QED
    BY <1>3, <1>5, <2>1
<1>7. ChainNoDoubleSpend'
  <2>1. \A a \in chain : InputSet(a) \subseteq Spent
    BY DEF Spent
  <2>. QED
    BY <1>1, <1>4, <2>1 DEF SafeInv, Rest, ChainNoDoubleSpend
<1>8. WorkerUnspent'
  <2>. SUFFICES ASSUME wpc = "register" PROVE InputSet(cur) \cap Spent' = {}
    BY <1>1 DEF WorkerUnspent
  <2>1. B \subseteq Held /\ cur \in Tx
    BY <1>2, <1>4 DEF SafeInv, LockInv, TypeOK
  <2>2. \A x \in B : InputSet(cur) \cap InputSet(x) = {}
    BY <2>1, HeldType, TxAssumption DEF SafeInv, Rest, AllLocked,
       WorkerUnlocked, LockInv
  <2>. QED
    BY <1>3, <2>2 DEF SafeInv, Rest, WorkerUnspent
<1>9. ChainApart'
  BY <1>1, <1>4 DEF SafeInv, Rest, ChainApart, PoolApart
<1>10. AllLocked' /\ DisjointInputs' /\ WorkerUnlocked' /\ PoolApart'
       /\ LockOwner' /\ BatchReserving' /\ BatchReady'
  BY <1>1, <1>2 DEF SafeInv, Rest, AllLocked, DisjointInputs, WorkerUnlocked,
     PoolApart, LockOwner, BatchReserving, BatchReady
<1>. QED
  BY <1>6, <1>7, <1>8, <1>9, <1>10 DEF Rest

\* FlushReserved(true) after the block is stored: the reserved pool goes,
\* with the locks of its inputs, and no pooled transaction loses a lock.
LEMMA FlushStep ==
    ASSUME NEW f0, Forger = {f0}, SafeInv, FlushReserved(f0)
    PROVE  Rest'
<1>1. /\ fpc[f0] = "committed" /\ fpc'[f0] = "idle" /\ lock = Free
      /\ locked' = FlushLocks(TRUE) /\ reserved' = {}
      /\ UNCHANGED <<pool, chain, lock, batch, fi, wpc, cur>>
  BY DEF FlushReserved, workerVars, SafeInv, LockInv, TypeOK
<1>2. Held = pool \cup reserved /\ Held' = pool /\ Spent' = Spent
  BY <1>1, HeldOne DEF Spent
<1>3. \A k \in Input :
         locked'[k] = IF \E r \in reserved : k \in InputSet(r) THEN NoTx
                                                               ELSE locked[k]
  BY <1>1 DEF FlushLocks
<1>4. AllLocked'
  <2>. SUFFICES ASSUME NEW t \in pool, NEW k \in InputSet(t)
                PROVE  locked'[k] = t
    BY <1>2 DEF AllLocked
  <2>1. locked[k] = t /\ k \in Input /\ t \notin reserved
    BY <1>1, <1>2, InputSetType DEF SafeInv, Rest, AllLocked, PoolApart,
       LockInv, TypeOK
  <2>2. \A r \in reserved : k \notin InputSet(r)
    BY <1>2, <2>1 DEF SafeInv, Rest, DisjointInputs
  <2>. QED
    BY <1>3, <2>1, <2>2
<1>5. WorkerUnlocked'
  <2>1. \A k \in Input : locked[k] = NoTx => locked'[k] = NoTx
    BY <1>3
  <2>2. wpc \in {"validate", "register"} => InputSet(cur) \subseteq Input
    BY InputSetType DEF SafeInv, LockInv, TypeOK
  <2>. QED
    BY <1>1, <2>1, <2>2 DEF SafeInv, Rest, WorkerUnlocked
<1>6. /\ DisjointInputs' /\ PoolSpendsUnspent' /\ ChainNoDoubleSpend'
      /\ WorkerUnspent' /\ ChainApart' /\ PoolApart'
  BY <1>1, <1>2 DEF SafeInv, Rest, DisjointInputs, PoolSpendsUnspent,
     ChainNoDoubleSpend, WorkerUnspent, ChainApart, PoolApart
<1>7. LockOwner' /\ BatchReserving' /\ BatchReady'
  BY <1>1, TxAssumption DEF LockOwner, BatchReserving, BatchReady
<1>. QED
  BY <1>4, <1>5, <1>6, <1>7 DEF Rest

\* RollbackReserved, first section: the reserved transactions go back to
\* the pool; the held set stays the same.
LEMMA RollbackStep ==
    ASSUME NEW f0, Forger = {f0}, SafeInv, RollbackReserved(f0)
    PROVE  Rest'
<1>1. /\ fpc[f0] = "reserved" /\ fpc'[f0] = "rollback"
      /\ pool' = pool \cup (reserved \ pool)
      /\ UNCHANGED <<reserved, locked, chain, lock, batch, fi, wpc, cur>>
  BY DEF RollbackReserved, workerVars, SafeInv, LockInv, TypeOK
<1>2. Held' = Held /\ Spent' = Spent
  BY <1>1, HeldOne DEF Spent
<1>3. ChainApart'
  BY <1>1 DEF SafeInv, Rest, ChainApart
<1>4. PoolApart' /\ LockOwner' /\ BatchReserving' /\ BatchReady'
  BY <1>1 DEF SafeInv, Rest, PoolApart, LockOwner, BatchReserving, BatchReady
<1>. QED
  BY <1>1, <1>2, <1>3, <1>4 DEF SafeInv, Rest, AllLocked, DisjointInputs,
     PoolSpendsUnspent, ChainNoDoubleSpend, WorkerUnlocked, WorkerUnspent

\* RollbackReserved, second section (FlushReserved(false)): the reserved
\* pool is emptied, the locks stay with the pool that took them back.
LEMMA RollbackFlushStep ==
    ASSUME NEW f0, Forger = {f0}, SafeInv, RollbackFlush(f0)
    PROVE  Rest'
<1>1. /\ fpc[f0] = "rollback" /\ fpc'[f0] = "idle" /\ lock = Free
      /\ reserved' = {}
      /\ UNCHANGED <<pool, locked, chain, lock, batch, fi, wpc, cur>>
  BY DEF RollbackFlush, FlushLocks, workerVars, SafeInv, LockInv, TypeOK
<1>2. Held' = Held /\ Spent' = Spent
  BY <1>1, HeldOne DEF Spent
<1>3. ChainApart' /\ PoolApart'
  BY <1>1 DEF SafeInv, Rest, ChainApart, PoolApart
<1>4. LockOwner' /\ BatchReserving' /\ BatchReady'
  BY <1>1, TxAssumption DEF SafeInv, Rest, LockOwner, BatchReserving,
     BatchReady
<1>. QED
  BY <1>1, <1>2, <1>3, <1>4 DEF SafeInv, Rest, AllLocked, DisjointInputs,
     PoolSpendsUnspent, ChainNoDoubleSpend, WorkerUnlocked, WorkerUnspent

-----------------------------------------------------------------------------
(* The invariant is inductive.                                             *)

LEMMA SafeStep ==
    ASSUME NEW f0, Forger = {f0}, SwapSafe
    PROVE  SafeInv /\ [Next]_vars => SafeInv'
<1>. SUFFICES ASSUME SafeInv, [Next]_vars PROVE SafeInv'
  OBVIOUS
<1>1. PricedInv' /\ LockInv'
  BY PricedStep, LockInvStep DEF SafeInv
<1>. SUFFICES Rest'
  BY <1>1 DEF SafeInv
<1>2. CASE StopWriting
  BY <1>2, QuietStep DEF StopWriting, forgerVars
<1>3. CASE GetTxQueue
  BY <1>3, QuietStep DEF GetTxQueue, workerVars, forgerVars
<1>4. CASE CatchForgeError
  BY <1>4, QuietStep DEF CatchForgeError, workerVars, forgerVars
<1>5. ASSUME NEW t \in Tx, Receive(t) PROVE Rest'
  BY <1>5, QuietStep DEF Receive, workerVars, forgerVars
<1>6. CASE ClearPool
  BY <1>6, ClearPoolStep
<1>7. CASE CheckInputs
  BY <1>7, CheckInputsStep
<1>8. CASE ValidateTx
  BY <1>8, ValidateStep
<1>9. CASE RegisterTx
  BY <1>9, RegisterStep
<1>10. ASSUME NEW t \in Tx, DeleteTransaction(t) PROVE Rest'
  BY <1>10, DeleteStep
<1>11. ASSUME NEW f \in Forger, SelectBatch(f) \/ ReserveStart(f) PROVE Rest'
  BY <1>11, SelectStartStep
<1>12. ASSUME NEW f \in Forger, ReserveStep(f) PROVE Rest'
  BY <1>12, ReserveStepStep
<1>13. ASSUME NEW f \in Forger, ReserveEnd(f) PROVE Rest'
  BY <1>13, ReserveEndStep
<1>14. ASSUME NEW f \in Forger, CommitBlock(f) PROVE Rest'
  BY <1>14, CommitStep
<1>15. ASSUME NEW f \in Forger, FlushReserved(f) PROVE Rest'
  BY <1>15, FlushStep
<1>16. ASSUME NEW f \in Forger, RollbackReserved(f) PROVE Rest'
  BY <1>16, RollbackStep
<1>17. ASSUME NEW f \in Forger, RollbackFlush(f) PROVE Rest'
  BY <1>17, RollbackFlushStep
<1>18. CASE UNCHANGED vars
  BY <1>18, QuietStep DEF vars
<1>. QED
  BY <1>2, <1>3, <1>4, <1>5, <1>6, <1>7, <1>8, <1>9, <1>10, <1>11, <1>12,
     <1>13, <1>14, <1>15, <1>16, <1>17, <1>18 DEF Next

\* With one forger and a SwapSafe catalogue the invariant holds throughout.
LEMMA SafeAlways ==
    ASSUME NEW f0, Forger = {f0}, SwapSafe
    PROVE  Spec => []SafeInv
<1>1. Init => SafeInv
  BY SafeInit
<1>2. SafeInv /\ [Next]_vars => SafeInv'
  BY SafeStep
<1>. QED
  BY <1>1, <1>2, PTL DEF Spec

-----------------------------------------------------------------------------
(* The double-spend properties the pool runs check.                        *)

\* Spec 3 (invariants 2 and 3): with one forger and a SwapSafe catalogue,
\* every input of a held transaction is locked by it and every lock names
\* a pooled or reserved transaction, through admission (checkInputs with
\* its swap, RegisterTx), deletes, reservation, flush and rollback.
THEOREM LockTableSoundOneForger ==
    ASSUME NEW f0, Forger = {f0}, SwapSafe
    PROVE  Spec => []LockTableSound
<1>1. SafeInv => LockTableSound
  BY HeldOne DEF SafeInv, Rest, AllLocked, LockInv, NoDanglingLocks,
     LockTableSound
<1>. QED
  BY <1>1, SafeAlways, PTL

\* Spec 8 (property 5): with one forger and a SwapSafe catalogue no two
\* held transactions spend the same UTXO.
THEOREM DisjointInputsOneForger ==
    ASSUME NEW f0, Forger = {f0}, SwapSafe
    PROVE  Spec => []DisjointInputs
<1>1. SafeInv => DisjointInputs
  BY DEF SafeInv, Rest
<1>. QED
  BY <1>1, SafeAlways, PTL

\* With one forger and a SwapSafe catalogue no held, uncommitted
\* transaction spends an output of a committed one: ValidateTransaction's
\* look at the UTXO store, made without the pool lock, is not outdated by
\* a block stored before RegisterTx.
THEOREM PoolSpendsUnspentOneForger ==
    ASSUME NEW f0, Forger = {f0}, SwapSafe
    PROVE  Spec => []PoolSpendsUnspent
<1>1. SafeInv => PoolSpendsUnspent
  BY DEF SafeInv, Rest
<1>. QED
  BY <1>1, SafeAlways, PTL

\* With one forger and a SwapSafe catalogue the blocks the forger stores
\* never spend one UTXO twice, even when clearPool runs between
\* ReserveTransactions and the store.
THEOREM ChainNoDoubleSpendOneForger ==
    ASSUME NEW f0, Forger = {f0}, SwapSafe
    PROVE  Spec => []ChainNoDoubleSpend
<1>1. SafeInv => ChainNoDoubleSpend
  BY DEF SafeInv, Rest
<1>. QED
  BY <1>1, SafeAlways, PTL

=============================================================================
