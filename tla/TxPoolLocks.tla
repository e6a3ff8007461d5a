----------------------------- MODULE TxPoolLocks -----------------------------
(***************************************************************************)
(* The lock table of the pool (tp.lockedInputs in txpool.go) for any       *)
(* number of forgers: a lock is never handed from one transaction to       *)
(* another (LocksNeverStolen).  RegisterTx writes every input key of the   *)
(* new transaction without looking at what was there; only checkInputs,   *)
(* two locked sections earlier, looked.  Between the two, no thread adds   *)
(* a lock (only the single ingest worker does), so what checkInputs saw    *)
(* free stays free; and where checkInputs swapped out the owner of the     *)
(* first locked input, SwapSafe makes that owner hold all the others.      *)
(* Unlike the invariants of TxPoolSafety, this needs no bound on the       *)
(* forgers: FlushReserved(true) of one forger may release the locks of     *)
(* another's reservation, but releasing is not stealing.                   *)
(***************************************************************************)
EXTENDS TxPoolSafety

\* every lock names a transaction that spends the locked input
LockOwnInput == \A k \in Input : locked[k] # NoTx => k \in InputSet(locked[k])

\* the inductive invariant: types, locks on own inputs, and the worker's
\* inputs free between checkInputs and RegisterTx (WorkerUnlocked)
StealInv == TypeOK /\ LockOwnInput /\ WorkerUnlocked

\* one step of LocksNeverStolen
NoSteal == \A k \in Input : locked[k] # NoTx => locked'[k] \in {locked[k], NoTx}

LEMMA StealInit == Init => StealInv
BY TypeInit DEF Init, StealInv, LockOwnInput, WorkerUnlocked

\* A step that at most releases locks and leaves the worker where it is.
LEMMA ReleaseStep ==
    ASSUME StealInv, TypeOK', UNCHANGED <<wpc, cur>>,
           \A k \in Input : locked'[k] \in {locked[k], NoTx}
    PROVE  StealInv' /\ NoSteal
<1>1. LockOwnInput'
  BY DEF StealInv, LockOwnInput
<1>2. WorkerUnlocked'
  <2>1. wpc \in {"validate", "register"} => InputSet(cur) \subseteq Input
    BY InputSetType DEF StealInv, TypeOK
  <2>2. InputSet(cur)' = InputSet(cur)
    BY DEF InputSet
  <2>. QED
    BY <2>1, <2>2 DEF StealInv, WorkerUnlocked
<1>3. NoSteal
  BY DEF NoSteal
<1>. QED
  BY <1>1, <1>2, <1>3 DEF StealInv

\* RegisterTx overwrites the keys of the worker's transaction: they were
\* all free.
LEMMA RegisterLocks ==
    ASSUME StealInv, TypeOK', RegisterTx
    PROVE  StealInv' /\ NoSteal
<1>1. /\ wpc = "register" /\ wpc' = "idle" /\ cur \in Tx
      /\ locked' = LockInputs(locked, cur)
  BY DEF RegisterTx, StealInv, TypeOK
<1>2. \A k \in Input : locked'[k] = IF k \in InputSet(cur) THEN cur ELSE locked[k]
  BY <1>1 DEF LockInputs
<1>3. \A k \in InputSet(cur) : locked[k] = NoTx
  BY <1>1 DEF StealInv, WorkerUnlocked
<1>4. LockOwnInput'
  BY <1>1, <1>2 DEF StealInv, LockOwnInput
<1>5. WorkerUnlocked'
  BY <1>1 DEF WorkerUnlocked
<1>6. NoSteal
  BY <1>2, <1>3 DEF NoSteal
<1>. QED
  BY <1>4, <1>5, <1>6 DEF StealInv

\* checkInputs only releases locks (the swap), and sends the worker on to
\* validation only with every input of its transaction free.
LEMMA CheckLocks ==
    ASSUME SwapSafe, StealInv, TypeOK', CheckInputs
    PROVE  StealInv' /\ NoSteal
<1>. DEFINE ins == TxInputs[cur]
            lockedAt == LockedAt(ins)
            kmin == CHOOSE k \in lockedAt : \A m \in lockedAt : k <= m
            first == locked[ins[kmin]]
<1>1. wpc = "check" /\ cur \in Tx
  BY DEF CheckInputs, StealInv, TypeOK
<1>2. ins \in Seq(Input) /\ Len(ins) \in Nat /\ DOMAIN ins = 1..Len(ins)
      /\ InputSet(cur) = {ins[k] : k \in 1..Len(ins)}
  BY <1>1, TxAssumption, LenProperties DEF InputSet, Range
<1>3. CASE lockedAt = {} /\ wpc' = "validate"
           /\ UNCHANGED <<pool, priced, locked, cur>>
  <2>1. WorkerUnlocked'
    BY <1>2, <1>3 DEF WorkerUnlocked, LockedAt
  <2>. QED
    BY <1>3, <2>1 DEF StealInv, LockOwnInput, NoSteal
<1>4. CASE /\ lockedAt # {}
           /\ Replaces(cur, first)
           /\ locked' = UnlockInputs(locked, first)
           /\ IF InPriced(priced, first)
                THEN wpc' = "validate" /\ UNCHANGED cur
                ELSE wpc' = "idle" /\ cur' = NoTx
  <2>1. \A k \in Input : locked'[k] = IF k \in InputSet(first) THEN NoTx
                                                              ELSE locked[k]
    BY <1>4, UnlockInputsAt
  <2>2. LockOwnInput' /\ NoSteal
    BY <2>1 DEF StealInv, LockOwnInput, NoSteal
  <2>3. kmin \in lockedAt
    <3>1. lockedAt \in SUBSET Nat
      BY <1>2 DEF LockedAt
    <3>2. \E k \in lockedAt : \A m \in lockedAt : k <= m
      BY <1>4, <3>1, LeastExists
    <3>. QED
      BY <3>2
  <2>4. ins[kmin] \in InputSet(cur) /\ ins[kmin] \in Input /\ first # NoTx
    <3>1. kmin \in 1..Len(ins) /\ locked[ins[kmin]] # NoTx
      BY <2>3 DEF LockedAt
    <3>2. ins[kmin] \in Input
      BY <1>2, <3>1, ElementOfSeq
    <3>. QED
      BY <1>2, <3>1, <3>2
  <2>5. ins[kmin] \in InputSet(first) /\ first \in Tx
    BY <2>4 DEF StealInv, LockOwnInput, TypeOK
  <2>6. InputSet(cur) \subseteq InputSet(first)
    BY <1>1, <1>4, <2>4, <2>5 DEF SwapSafe, ReplacesByFee, Replaces
  <2>7. WorkerUnlocked'
    <3>. SUFFICES ASSUME wpc' = "validate", NEW k \in InputSet(cur')
                  PROVE  locked'[k] = NoTx
      BY <1>4 DEF WorkerUnlocked
    <3>1. cur' = cur /\ k \in InputSet(first)
      BY <1>4, <2>6
    <3>2. k \in Input
      BY <3>1, <2>5, InputSetType
    <3>. QED
      BY <2>1, <3>1, <3>2
  <2>. QED
    BY <2>2, <2>7 DEF StealInv
<1>5. CASE wpc' = "idle" /\ UNCHANGED <<pool, priced, locked>>
  BY <1>5 DEF StealInv, LockOwnInput, WorkerUnlocked, NoSteal
<1>. QED
  BY <1>3, <1>4, <1>5 DEF CheckInputs, LockedAt

\* Every step keeps the invariant and steals no lock.
LEMMA StealStep ==
    ASSUME SwapSafe
    PROVE  StealInv /\ [Next]_vars => StealInv' /\ [NoSteal]_vars
<1>. SUFFICES ASSUME StealInv, [Next]_vars PROVE StealInv' /\ NoSteal
  OBVIOUS
<1>0. TypeOK'
  BY TypeStep DEF StealInv
<1>1. CASE ClearPool \/ StopWriting
  BY <1>0, <1>1 DEF ClearPool, StopWriting, StealInv, LockOwnInput,
     WorkerUnlocked, NoSteal
<1>2. CASE CheckInputs
  BY <1>0, <1>2, CheckLocks
<1>3. CASE ValidateTx
  BY <1>0, <1>3 DEF ValidateTx, StealInv, LockOwnInput, WorkerUnlocked, NoSteal
<1>4. CASE RegisterTx
  BY <1>0, <1>4, RegisterLocks
<1>5. CASE GetTxQueue \/ CatchForgeError
  BY <1>0, <1>5, ReleaseStep DEF GetTxQueue, CatchForgeError, workerVars
<1>6. ASSUME NEW t \in Tx, Receive(t) PROVE StealInv' /\ NoSteal
  BY <1>0, <1>6 DEF Receive, workerVars, StealInv, LockOwnInput,
     WorkerUnlocked, NoSteal
<1>7. ASSUME NEW t \in Tx, DeleteTransaction(t) PROVE StealInv' /\ NoSteal
  <2>1. \A k \in Input : locked'[k] \in {locked[k], NoTx}
    BY <1>7, UnlockInputsAt DEF DeleteTransaction
  <2>. QED
    BY <1>0, <1>7, <2>1, ReleaseStep DEF DeleteTransaction, workerVars
<1>8. ASSUME NEW f \in Forger,
             \/ SelectBatch(f) \/ ReserveStart(f) \/ ReserveStep(f)
             \/ ReserveEnd(f) \/ CommitBlock(f) \/ RollbackReserved(f)
      PROVE  StealInv' /\ NoSteal
  <2>1. UNCHANGED <<locked, wpc, cur>>
    BY <1>8 DEF SelectBatch, ReserveStart, ReserveStep, ReserveEnd,
       CommitBlock, RollbackReserved, workerVars
  <2>. QED
    BY <1>0, <2>1, ReleaseStep
<1>9. ASSUME NEW f \in Forger, FlushReserved(f) \/ RollbackFlush(f)
      PROVE  StealInv' /\ NoSteal
  <2>1. /\ \A k \in Input : locked'[k] \in {locked[k], NoTx}
        /\ UNCHANGED <<wpc, cur>>
    BY <1>9 DEF FlushReserved, RollbackFlush, FlushLocks, workerVars
  <2>. QED
    BY <1>0, <2>1, ReleaseStep
<1>10. CASE UNCHANGED vars
  BY <1>0, <1>10, ReleaseStep DEF vars
<1>. QED
  BY <1>1, <1>2, <1>3, <1>4, <1>5, <1>6, <1>7, <1>8, <1>9, <1>10 DEF Next

\* LocksNeverStolen, for any number of forgers, in every catalogue in which
\* checkInputs' swap cannot skip an input (SwapSafe): RegisterTx never
\* overwrites the lock of another transaction, so a pooled or reserved
\* transaction loses its locks only through deleteTransactionByHash,
\* FlushReserved or clearPool.  The run swap_skips_inputs shows the swap
\* that breaks SwapSafe overwriting a lock.
THEOREM NoLockStolen ==
    ASSUME SwapSafe
    PROVE  Spec => LocksNeverStolen
<1>1. Init => StealInv
  BY StealInit
<1>2. StealInv /\ [Next]_vars => StealInv' /\ [NoSteal]_vars
  BY StealStep
<1>. QED
  BY <1>1, <1>2, PTL DEF Spec, LocksNeverStolen, NoSteal
=============================================================================
