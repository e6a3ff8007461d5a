---------------------------- MODULE TxPoolLedger ----------------------------
(***************************************************************************)
(* The pool implements its promise PoolLedger under the mapping           *)
(* held <- Held (the pooled and reserved transactions, the pooled ones     *)
(* only while a rollback is between its two locked sections).  The proof  *)
(* rests on the inductive invariant SafeInv of TxPoolSafety, and so on its *)
(* hypotheses: one forger, and a catalogue in which checkInputs' swap      *)
(* cannot skip an input (SwapSafe).                                        *)
(***************************************************************************)
EXTENDS TxPoolSafety

\* The ledger's view of the data is the pool's.
LEMMA LedgerData ==
    /\ \A t : Ledger!Spends(t) = InputSet(t)
    /\ Ledger!ChainSpent = Spent
    /\ Ledger!ChainSpent' = Spent'
<1>1. \A t : Ledger!Spends(t) = InputSet(t)
  BY DEF Ledger!Spends, InputSet, Range, Ledger!Range
<1>. QED
  BY <1>1 DEF Ledger!ChainSpent, Spent

\* Removing one pooled transaction (DeleteTransaction, the swap of
\* checkInputs) drops it from the held set and from nothing else.
LEMMA DropPooled ==
    ASSUME NEW f0, Forger = {f0}, SafeInv, NEW t \in pool,
           pool' = pool \ {t}, UNCHANGED <<reserved, chain, fpc>>
    PROVE  Ledger!Drop({t})
<1>1. Held' = Held \ {t} /\ t \in Held
  BY HeldOne DEF SafeInv, Rest, PoolApart
<1>. QED
  BY <1>1 DEF Ledger!Drop

\* RegisterTx admits the worker's transaction: it is new (WorkerFresh,
\* and not on chain since its inputs are unspent), its inputs are unspent
\* (WorkerUnspent) and free (WorkerUnlocked), so apart from every held
\* transaction, whose inputs all carry its own lock (AllLocked).
LEMMA RegisterAdmits ==
    ASSUME NEW f0, Forger = {f0}, SafeInv, RegisterTx
    PROVE  Ledger!Admit(cur)
<1>1. /\ wpc = "register" /\ pool' = pool \cup {cur}
      /\ UNCHANGED <<reserved, chain, fpc>>
  BY DEF RegisterTx, forgerVars
<1>2. /\ cur \in Tx /\ cur \notin pool \cup reserved
      /\ \A k \in InputSet(cur) : locked[k] = NoTx
      /\ InputSet(cur) \cap Spent = {}
  BY <1>1 DEF SafeInv, PricedInv, WorkerFresh, TypeOK, Rest, WorkerUnlocked,
     WorkerUnspent
<1>3. Held' = Held \cup {cur} /\ Held \subseteq pool \cup reserved
  BY <1>1, HeldOne
<1>4. cur \notin chain
  BY <1>2, InputSetNonEmpty DEF Spent
<1>5. \A u \in Held : InputSet(cur) \cap InputSet(u) = {}
  BY <1>2, <1>3, HeldType, TxAssumption DEF SafeInv, Rest, AllLocked, LockInv
<1>. QED
  BY <1>1, <1>2, <1>3, <1>4, <1>5, LedgerData DEF Ledger!Admit, Ledger!Apart

\* A stored block commits a batch ReserveTransactions reserved: its
\* transactions are uncommitted, spend unspent outputs, conflict with no
\* other (BatchReady), and the rest of the held set is apart from them
\* (DisjointInputs), or empty after clearPool.
LEMMA CommitCommits ==
    ASSUME NEW f0, Forger = {f0}, SafeInv, CommitBlock(f0)
    PROVE  Ledger!Commit(Range(batch[f0]))
<1>. DEFINE B == Range(batch[f0])
<1>1. /\ fpc[f0] = "reserved" /\ fpc'[f0] = "committed"
      /\ chain' = chain \cup B
      /\ UNCHANGED <<pool, reserved>>
  BY DEF CommitBlock, SafeInv, LockInv, TypeOK
<1>2. Held' = Held /\ Held = pool \cup reserved
  BY <1>1, HeldOne
<1>3. /\ \/ B \subseteq reserved
         \/ pool \cup reserved = {}
      /\ \A x \in B : x \notin chain /\ InputSet(x) \cap Spent = {}
      /\ \A x, y \in B : x # y => InputSet(x) \cap InputSet(y) = {}
  BY <1>1 DEF SafeInv, Rest, BatchReady
<1>4. \A x \in B, u \in Held \ B : InputSet(x) \cap InputSet(u) = {}
  BY <1>2, <1>3 DEF SafeInv, Rest, DisjointInputs
<1>. QED
  BY <1>1, <1>2, <1>3, <1>4, LedgerData DEF Ledger!Commit, Ledger!Apart

\* Every step of the pool is a step of the ledger or leaves the held set
\* and the chain alone.
LEMMA LedgerStep ==
    ASSUME NEW f0, Forger = {f0}, SafeInv, [Next]_vars
    PROVE  [Ledger!Next]_<<Held, chain>>
<1>. DEFINE LN == [Ledger!Next]_<<Held, chain>>
<1>0. TypeOK
  BY DEF SafeInv, LockInv
<1>1. ASSUME NEW S \in SUBSET Held, Ledger!Drop(S) PROVE LN
  BY <1>1 DEF Ledger!Next
<1>2. ASSUME UNCHANGED <<pool, reserved, chain>>,
             \A f \in Forger : fpc'[f] = "rollback" <=> fpc[f] = "rollback"
      PROVE  LN
  BY <1>2 DEF Held
<1>3. CASE \/ StopWriting \/ ValidateTx \/ GetTxQueue \/ CatchForgeError
           \/ \E t \in Tx : Receive(t)
  BY <1>3, <1>2 DEF StopWriting, ValidateTx, GetTxQueue, CatchForgeError,
     Receive, forgerVars
<1>4. CASE RegisterTx
  <2>1. cur \in Tx
    BY <1>0, <1>4 DEF RegisterTx, TypeOK
  <2>2. Ledger!Admit(cur)
    BY <1>4, RegisterAdmits
  <2>. QED
    BY <2>1, <2>2 DEF Ledger!Next
<1>5. ASSUME NEW t \in Tx, DeleteTransaction(t) PROVE LN
  <2>1. Ledger!Drop({t}) /\ t \in Held
    BY <1>5, DropPooled, HeldOne DEF DeleteTransaction, forgerVars
  <2>. QED
    BY <2>1, <1>1
<1>6. CASE CheckInputs
  <2>. DEFINE ins == TxInputs[cur]
              lockedAt == LockedAt(ins)
              first == locked[ins[CHOOSE k \in lockedAt :
                                       \A m \in lockedAt : k <= m]]
  <2>1. UNCHANGED <<reserved, chain, fpc>>
    BY <1>6 DEF CheckInputs, forgerVars
  <2>2. CASE UNCHANGED pool
    BY <1>2, <2>1, <2>2
  <2>3. CASE Replaces(cur, first) /\ pool' = pool \ {first}
    <3>1. first \in pool
      BY <2>3 DEF Replaces
    <3>2. Ledger!Drop({first}) /\ first \in Held
      BY <2>1, <2>3, <3>1, DropPooled, HeldOne
    <3>. QED
      BY <3>2, <1>1
  <2>. QED
    BY <1>6, <2>2, <2>3 DEF CheckInputs, LockedAt
<1>7. CASE ClearPool
  <2>1. pool' = {} /\ reserved' = {} /\ UNCHANGED chain
    BY <1>7 DEF ClearPool
  <2>2. Held' = {}
    BY <2>1, HeldOne
  <2>3. Ledger!Drop(Held)
    BY <2>1, <2>2 DEF Ledger!Drop
  <2>. QED
    BY <2>3, <1>1
<1>8. CASE SelectBatch(f0) \/ ReserveStart(f0) \/ ReserveEnd(f0)
  <2>1. /\ fpc[f0] \in {"idle", "selected", "reserving"}
        /\ fpc'[f0] \in {"selected", "reserving", "reserved"}
        /\ UNCHANGED <<pool, reserved, chain>>
    BY <1>0, <1>8 DEF SelectBatch, ReserveStart, ReserveEnd, TypeOK
  <2>. QED
    BY <2>1, HeldOne
<1>14. CASE RollbackFlush(f0)
  <2>1. /\ fpc[f0] = "rollback" /\ fpc'[f0] = "idle"
        /\ UNCHANGED <<pool, chain>> /\ reserved' = {}
    BY <1>0, <1>14 DEF RollbackFlush, TypeOK
  <2>. QED
    BY <2>1, HeldOne
<1>9. CASE ReserveStep(f0)
  <2>. DEFINE t == batch[f0][fi[f0]]
  <2>1. fpc[f0] = "reserving" /\ fpc'[f0] \in {"reserving", "idle"}
        /\ UNCHANGED chain
    BY <1>0, <1>9 DEF ReserveStep, ReserveFail, TypeOK
  <2>2. CASE UNCHANGED <<pool, reserved>>
    BY <2>1, <2>2, HeldOne
  <2>3. CASE t \in pool /\ reserved' = reserved \cup {t} /\ pool' = pool \ {t}
    BY <2>1, <2>3, HeldOne
  <2>. QED
    BY <1>9, <2>2, <2>3 DEF ReserveStep
<1>10. CASE CommitBlock(f0)
  <2>1. Ledger!Commit(Range(batch[f0]))
    BY <1>10, CommitCommits
  <2>2. Range(batch[f0]) \in SUBSET Tx
    BY RangeOfSeq DEF SafeInv, LockInv, TypeOK
  <2>. QED
    BY <2>1, <2>2 DEF Ledger!Next
<1>11. CASE FlushReserved(f0)
  <2>1. /\ fpc[f0] = "committed" /\ fpc'[f0] = "idle"
        /\ UNCHANGED <<pool, chain>> /\ reserved' = {}
    BY <1>0, <1>11 DEF FlushReserved, TypeOK
  <2>2. Held = pool \cup reserved /\ Held' = pool
    BY <2>1, HeldOne
  <2>3. Ledger!Drop(Held \ pool)
    BY <2>1, <2>2 DEF Ledger!Drop
  <2>. QED
    BY <2>3, <1>1
<1>12. CASE RollbackReserved(f0)
  <2>1. /\ fpc[f0] = "reserved" /\ fpc'[f0] = "rollback"
        /\ pool' = pool \cup (reserved \ pool)
        /\ UNCHANGED <<reserved, chain>>
    BY <1>0, <1>12 DEF RollbackReserved, TypeOK
  <2>. QED
    BY <2>1, HeldOne
<1>13. CASE UNCHANGED vars
  BY <1>13, <1>2 DEF vars
<1>. QED
  BY <1>3, <1>4, <1>5, <1>6, <1>7, <1>8, <1>9, <1>10, <1>11, <1>12, <1>13,
     <1>14 DEF Next

\* Spec 4.3 and 5 (reserve then flush(true) is linearizable against
\* register), with one forger and SwapSafe: the pool implements the atomic
\* ledger PoolLedger under the mapping held <- Held.  Every admission is
\* of a new transaction, conflict-free and unspent; a reservation, a
\* rollback's return of its batch and the sorting of the priced pool
\* change nothing a caller of the ledger sees; every stored block commits
\* transactions that conflict with nothing still held.  With two forgers
\* TLC refutes the conclusion (two_forgers_double_spend commits a UTXO
\* twice, which no Commit allows).
THEOREM PoolRefinesLedger ==
    ASSUME NEW f0, Forger = {f0}, SwapSafe
    PROVE  Spec => LedgerSpec
<1>1. Init => Ledger!Init
  BY DEF Init, Held, Ledger!Init
<1>2. SafeInv /\ [Next]_vars => [Ledger!Next]_<<Held, chain>>
  BY LedgerStep
<1>3. Spec => []SafeInv
  BY SafeAlways
<1>. QED
  BY <1>1, <1>2, <1>3, PTL DEF Spec, LedgerSpec, Ledger!Spec, Ledger!ledgerVars
=============================================================================
