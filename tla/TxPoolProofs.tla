---------------------------- MODULE TxPoolProofs ----------------------------
(***************************************************************************)
(* Proofs about the transaction pool model TxPool, for every value of its  *)
(* constants allowed by TxAssumption.                                      *)
(***************************************************************************)
EXTENDS TxPool, TLAPS, SequenceTheorems, FiniteSetTheorems

-----------------------------------------------------------------------------
(* Lemmas about the helpers the actions are built from.                   *)

\* pricedTxPool.Sort only reorders the slice: a sorted order of a slice of
\* transactions is a slice of transactions.
LEMMA SortedOrdersType ==
    ASSUME NEW s \in Seq(Tx)
    PROVE  SortedOrders(s) \subseteq Seq(Tx)
<1>1. Range(s) \subseteq Tx /\ Len(s) \in Nat
  BY RangeOfSeq, LenProperties
<1>2. \A p \in [1..Len(s) -> Tx] : p \in Seq(Tx)
  BY <1>1
<1>. QED
  BY <1>1, <1>2 DEF SortedOrders

\* DeleteFromPricedPool (swap with the last element, then truncate) leaves
\* a slice of transactions.
LEMMA DeleteFromPricedType ==
    ASSUME NEW s \in Seq(Tx), NEW t
    PROVE  DeleteFromPriced(s, t) \in Seq(Tx)
<1>1. CASE InPriced(s, t)
  \* whatever index FindByTx picks, every kept cell holds a transaction
  <2>. DEFINE u == [s EXCEPT ![FindByTx(s, t)] = s[Len(s)]]
  <2>1. Len(s) \in Nat /\ s \in [1..Len(s) -> Tx]
    BY LenProperties
  <2>2. Len(s) >= 1
    BY <1>1, <2>1 DEF InPriced
  <2>3. \A i \in 1..(Len(s) - 1) : u[i] \in Tx
    BY <2>1, <2>2
  <2>4. SubSeq(u, 1, Len(s) - 1) \in Seq(Tx)
    BY <2>1, <2>3, SubSeqProperties
  <2>. QED
    BY <1>1, <2>4 DEF DeleteFromPriced
<1>2. CASE ~InPriced(s, t)
  BY <1>2 DEF DeleteFromPriced
<1>. QED
  BY <1>1, <1>2

\* RollbackReserved lists the transactions it moves back in map order:
\* any such listing of a set of transactions is a slice of transactions.
LEMMA ListingsType ==
    ASSUME NEW S \in SUBSET Tx
    PROVE  Listings(S) \subseteq Seq(Tx)
<1>1. Cardinality(S) \in Nat
  BY TxAssumption, FS_Subset, FS_CardinalityType
<1>. QED
  BY <1>1 DEF Listings

\* DeleteFromPricedPool on a slice that holds t exactly once removes t and
\* nothing else, and keeps every other transaction listed once.
LEMMA DeleteFromPricedRemoves ==
    ASSUME NEW s \in Seq(Tx), IsInjective(s), NEW t \in Range(s)
    PROVE  /\ DeleteFromPriced(s, t) \in Seq(Tx)
           /\ Range(DeleteFromPriced(s, t)) = Range(s) \ {t}
           /\ IsInjective(DeleteFromPriced(s, t))
<1>. DEFINE n == Len(s)
<1>1. n \in Nat /\ s \in [1..n -> Tx] /\ DOMAIN s = 1..n
  BY LenProperties
<1>2. PICK k0 \in 1..n : s[k0] = t
  BY <1>1 DEF Range
<1>3. \A m \in 1..n : s[m] = t <=> m = k0
  BY <1>1, <1>2 DEF IsInjective
<1>4. FindByTx(s, t) = k0
  <2>1. k0 \in 1..n /\ s[k0] = t /\ \A m \in 1..(k0 - 1) : s[m] # t
    BY <1>2, <1>3
  <2>. QED
    BY <2>1, <1>3 DEF FindByTx
<1>. DEFINE u == [s EXCEPT ![k0] = s[n]]
            r == SubSeq(u, 1, n - 1)
<1>5. InPriced(s, t) /\ DeleteFromPriced(s, t) = r
  BY <1>2, <1>4 DEF InPriced, DeleteFromPriced
<1>6. \A i \in 1..(n - 1) : u[i] = IF i = k0 THEN s[n] ELSE s[i]
  BY <1>1, <1>2
<1>7. /\ r \in Seq(Tx)
      /\ Len(r) = n - 1
      /\ \A i \in 1..(n - 1) : r[i] = u[i]
  <2>1. \A i \in 1..(n - 1) : u[i] \in Tx
    BY <1>1, <1>6
  <2>. QED
    BY <2>1, <1>1, <1>2, SubSeqProperties
<1>8. DOMAIN r = 1..(n - 1)
  BY <1>7, LenProperties
<1>9. Range(r) = Range(s) \ {t}
  <2>1. Range(r) = {u[i] : i \in 1..(n - 1)}
    BY <1>7, <1>8 DEF Range
  <2>2. Range(s) = {s[i] : i \in 1..n}
    BY <1>1 DEF Range
  <2>3. \A i \in 1..(n - 1) : u[i] \in Range(s) \ {t}
    BY <1>1, <1>3, <1>6, <2>2
  <2>4. \A j \in 1..n : s[j] # t => \E i \in 1..(n - 1) : u[i] = s[j]
    BY <1>1, <1>2, <1>3, <1>6
  <2>5. Range(r) \subseteq Range(s) \ {t}
    BY <2>1, <2>3
  <2>6. ASSUME NEW x \in Range(s) \ {t} PROVE x \in Range(r)
    <3>1. PICK j \in 1..n : s[j] = x
      BY <2>2
    <3>. QED
      BY <3>1, <2>4, <2>1
  <2>. QED
    BY <2>5, <2>6
<1>10. IsInjective(r)
  BY <1>1, <1>2, <1>3, <1>6, <1>7, <1>8 DEF IsInjective
<1>. QED
  BY <1>5, <1>7, <1>9, <1>10

\* RegisterTx appends a transaction the slice does not hold.
LEMMA AppendFresh ==
    ASSUME NEW s \in Seq(Tx), IsInjective(s), NEW t \in Tx \ Range(s)
    PROVE  /\ Append(s, t) \in Seq(Tx)
           /\ Range(Append(s, t)) = Range(s) \cup {t}
           /\ IsInjective(Append(s, t))
<1>1. /\ Append(s, t) \in Seq(Tx)
      /\ Len(Append(s, t)) = Len(s) + 1
      /\ \A i \in 1..Len(s) : Append(s, t)[i] = s[i]
      /\ Append(s, t)[Len(s) + 1] = t
  BY AppendProperties
<1>2. Len(s) \in Nat /\ DOMAIN s = 1..Len(s)
      /\ DOMAIN Append(s, t) = 1..(Len(s) + 1)
  BY <1>1, LenProperties
<1>. QED
  BY <1>1, <1>2 DEF Range, IsInjective

\* RollbackReserved appends a listing of transactions the slice does not hold.
LEMMA ConcatFresh ==
    ASSUME NEW s \in Seq(Tx), IsInjective(s), NEW e \in Seq(Tx), IsInjective(e),
           Range(s) \cap Range(e) = {}
    PROVE  /\ s \o e \in Seq(Tx)
           /\ Range(s \o e) = Range(s) \cup Range(e)
           /\ IsInjective(s \o e)
<1>1. /\ s \o e \in Seq(Tx)
      /\ Len(s \o e) = Len(s) + Len(e)
      /\ \A i \in 1..(Len(s) + Len(e)) :
            (s \o e)[i] = IF i <= Len(s) THEN s[i] ELSE e[i - Len(s)]
  BY ConcatProperties
<1>2. /\ Len(s) \in Nat /\ DOMAIN s = 1..Len(s)
      /\ Len(e) \in Nat /\ DOMAIN e = 1..Len(e)
      /\ DOMAIN (s \o e) = 1..(Len(s) + Len(e))
  BY <1>1, LenProperties
<1>3. Range(s \o e) = Range(s) \cup Range(e)
  BY RangeConcatenation
<1>4. IsInjective(s \o e)
  <2>. SUFFICES ASSUME NEW a \in 1..(Len(s) + Len(e)),
                       NEW b \in 1..(Len(s) + Len(e)),
                       (s \o e)[a] = (s \o e)[b]
                PROVE  a = b
    BY <1>2 DEF IsInjective
  <2>1. \A i \in 1..Len(s), j \in 1..Len(e) : s[i] # e[j]
    BY <1>2 DEF Range
  <2>2. CASE a <= Len(s) /\ b <= Len(s)
    BY <1>1, <1>2, <2>2 DEF IsInjective
  <2>3. CASE a > Len(s) /\ b > Len(s)
    BY <1>1, <1>2, <2>3 DEF IsInjective
  <2>4. CASE a <= Len(s) /\ b > Len(s)
    BY <1>1, <1>2, <2>1, <2>4
  <2>5. CASE a > Len(s) /\ b <= Len(s)
    BY <1>1, <1>2, <2>1, <2>5
  <2>. QED
    BY <2>2, <2>3, <2>4, <2>5
<1>. QED
  BY <1>1, <1>3, <1>4

\* The map-order listing RollbackReserved builds holds each transaction of
\* the set exactly once.
LEMMA ListingExact ==
    ASSUME NEW S \in SUBSET Tx, NEW e \in Listings(S)
    PROVE  /\ e \in Seq(Tx)
           /\ IsInjective(e)
           /\ Range(e) = S
<1>1. IsFiniteSet(S) /\ Cardinality(S) \in Nat
  BY TxAssumption, FS_Subset, FS_CardinalityType
<1>. DEFINE n == Cardinality(S)
<1>2. e \in [1..n -> S] /\ IsInjective(e)
  BY DEF Listings
<1>3. IsFiniteSet(1..n) /\ Cardinality(1..n) = n
  BY <1>1, FS_Interval
<1>4. e \in Injection(1..n, S)
  BY <1>2 DEF Injection
<1>5. e \in Surjection(1..n, S)
  BY <1>1, <1>3, <1>4, FS_Injection
<1>6. Range(e) = S
  BY <1>2, <1>5 DEF Surjection, Range
<1>. QED
  BY <1>1, <1>2, <1>6, ListingsType

\* pricedTxPool.Sort on a slice listing each transaction once gives a slice
\* listing the same transactions, each once.
LEMMA SortedExact ==
    ASSUME NEW s \in Seq(Tx), IsInjective(s), NEW p \in SortedOrders(s)
    PROVE  /\ p \in Seq(Tx)
           /\ Range(p) = Range(s)
           /\ IsInjective(p)
<1>. DEFINE n == Len(s)
<1>1. n \in Nat /\ DOMAIN s = 1..n /\ s \in [1..n -> Tx]
  BY LenProperties
<1>2. p \in [1..n -> Range(s)]
      /\ \A t \in Range(s) : Occurrences(p, t) = Occurrences(s, t)
  BY DEF SortedOrders
<1>3. ASSUME NEW t \in Range(s)
      PROVE  \E x : {k \in 1..n : p[k] = t} = {x}
  <2>1. PICK k0 \in 1..n : s[k0] = t
    BY <1>1 DEF Range
  <2>2. {k \in DOMAIN s : s[k] = t} = {k0}
    BY <1>1, <2>1 DEF IsInjective
  <2>3. Occurrences(s, t) = 1
    BY <2>2, FS_Singleton DEF Occurrences
  <2>4. Cardinality({k \in 1..n : p[k] = t}) = 1
    BY <1>2, <2>3 DEF Occurrences
  <2>5. IsFiniteSet({k \in 1..n : p[k] = t})
    <3>1. IsFiniteSet(1..n)
      BY <1>1, FS_Interval
    <3>2. {k \in 1..n : p[k] = t} \in SUBSET (1..n)
      OBVIOUS
    <3>. QED
      BY <3>1, <3>2, FS_Subset
  <2>. QED
    BY <2>4, <2>5, FS_Singleton
<1>4. Range(p) = Range(s)
  <2>1. Range(p) \subseteq Range(s)
    BY <1>2 DEF Range
  <2>2. ASSUME NEW t \in Range(s) PROVE t \in Range(p)
    BY <1>2, <1>3, <2>2 DEF Range
  <2>. QED
    BY <2>1, <2>2
<1>5. IsInjective(p)
  <2>. SUFFICES ASSUME NEW a \in 1..n, NEW b \in 1..n, p[a] = p[b]
                PROVE  a = b
    BY <1>2 DEF IsInjective
  <2>1. PICK x : {k \in 1..n : p[k] = p[a]} = {x}
    BY <1>2, <1>3
  <2>. QED
    BY <2>1
<1>6. p \in Seq(Tx)
  BY <1>1, <1>2, SortedOrdersType
<1>. QED
  BY <1>4, <1>5, <1>6

-----------------------------------------------------------------------------
\* The initial state of NewTxPool, with no forger and an idle worker, is
\* well typed.
LEMMA TypeInit == Init => TypeOK
<1>. SUFFICES ASSUME Init PROVE TypeOK
  OBVIOUS
<1>1. <<>> \in Seq(Tx)
  BY EmptySeq
<1>2. batch \in [Forger -> Seq(Tx)] /\ priced \in Seq(Tx)
  BY <1>1 DEF Init
<1>3. locked \in [Input -> Tx \cup {NoTx}] /\ fi \in [Forger -> Nat \ {0}]
  BY DEF Init
<1>4. /\ fpc \in [Forger -> ForgerPC]
      /\ fres \in [Forger -> ReserveResult]
      /\ wpc \in WorkerPC /\ wpc \notin {"check", "validate", "register"}
  BY DEF Init, ForgerPC, ReserveResult, WorkerPC
<1>5. lock \in Forger \cup {Free} /\ cur \in Tx \cup {NoTx}
      /\ forgeFailed \in BOOLEAN
  BY DEF Init
<1>. QED
  BY <1>2, <1>3, <1>4, <1>5 DEF Init, TypeOK

\* Every step of the pool, the ingest worker and the forgers keeps each
\* variable in its type: the priced slice stays a slice of transactions
\* through swaps, truncations, sorts and rollbacks, and the lock table maps
\* every input key to a transaction or to "no entry".
LEMMA TypeStep == TypeOK /\ [Next]_vars => TypeOK'
<1> SUFFICES ASSUME TypeOK, [Next]_vars PROVE TypeOK'
  OBVIOUS
<1>. USE DEF TypeOK, WorkerPC, ForgerPC, ReserveResult
<1>1. CASE ClearPool
  BY <1>1 DEF ClearPool, forgerVars
<1>2. CASE StopWriting
  BY <1>2 DEF StopWriting, forgerVars
<1>3. CASE CheckInputs
  <2>. DEFINE ins == TxInputs[cur]
  <2>1. cur \in Tx
    BY <1>3 DEF CheckInputs, LockedAt
  <2>2. \A t \in Tx : UnlockInputs(locked, t) \in [Input -> Tx \cup {NoTx}]
    BY DEF UnlockInputs
  <2>3. \A t : DeleteFromPriced(priced, t) \in Seq(Tx)
    BY DeleteFromPricedType
  <2>. DEFINE lockedAt == {k \in 1..Len(ins) : locked[ins[k]] # NoTx}
              first == locked[ins[CHOOSE k \in lockedAt :
                                       \A m \in lockedAt : k <= m]]
  <2>0. UNCHANGED <<reserved, chain, forgeFailed, lock, forgerVars>>
    BY <1>3 DEF CheckInputs, LockedAt
  <2>4. CASE lockedAt = {} /\ wpc' = "validate"
             /\ UNCHANGED <<pool, priced, locked, cur>>
    BY <1>3, <2>1, <2>4 DEF CheckInputs, LockedAt, forgerVars
  <2>5. CASE /\ Replaces(cur, first)
             /\ pool' = pool \ {first}
             /\ locked' = UnlockInputs(locked, first)
             /\ priced' = DeleteFromPriced(priced, first)
             /\ IF InPriced(priced, first)
                  THEN wpc' = "validate" /\ UNCHANGED cur
                  ELSE wpc' = "idle" /\ cur' = NoTx
    <3>1. first \in Tx
      BY <2>5 DEF Replaces
    <3>2. pool' \subseteq Tx /\ priced' \in Seq(Tx)
          /\ locked' \in [Input -> Tx \cup {NoTx}]
      BY <2>5, <3>1, <2>2, <2>3
    <3>3. wpc' \in WorkerPC /\ cur' \in Tx \cup {NoTx}
          /\ (wpc' \in {"check", "validate", "register"} => cur' \in Tx)
      BY <2>5, <2>1
    <3>. QED
      BY <2>0, <3>2, <3>3 DEF forgerVars
  <2>6. CASE /\ wpc' = "idle" /\ cur' = NoTx
             /\ UNCHANGED <<pool, priced, locked>>
    BY <1>3, <2>6 DEF CheckInputs, LockedAt, forgerVars
  <2>. QED
    BY <1>3, <2>4, <2>5, <2>6 DEF CheckInputs, LockedAt
<1>4. CASE ValidateTx
  BY <1>4 DEF ValidateTx, forgerVars
<1>5. CASE RegisterTx
  <2>1. cur \in Tx
    BY <1>5 DEF RegisterTx
  <2>. QED
    BY <1>5, <2>1 DEF RegisterTx, LockInputs, forgerVars
<1>6. CASE GetTxQueue
  BY <1>6, SortedOrdersType DEF GetTxQueue, workerVars, forgerVars
<1>7. CASE CatchForgeError
  BY <1>7 DEF CatchForgeError, workerVars, forgerVars
<1>8. ASSUME NEW t \in Tx, Receive(t) PROVE TypeOK'
  BY <1>8 DEF Receive, workerVars, forgerVars
<1>9. ASSUME NEW t \in Tx, DeleteTransaction(t) PROVE TypeOK'
  BY <1>9, DeleteFromPricedType DEF DeleteTransaction, UnlockInputs,
     workerVars, forgerVars
<1>10. ASSUME NEW f \in Forger, SelectBatch(f) PROVE TypeOK'
  <2>1. PICK q \in SortedOrders(priced), n \in 0..BatchMax :
              /\ n <= Len(q)
              /\ priced' = q
              /\ batch' = [batch EXCEPT ![f] = SubSeq(q, 1, n)]
    BY <1>10 DEF SelectBatch
  <2>2. q \in Seq(Tx)
    BY <2>1, SortedOrdersType
  <2>3. SubSeq(q, 1, n) \in Seq(Tx)
    BY <2>1, <2>2, SubSeqProperties, ElementOfSeq, TxAssumption
  <2>. QED
    BY <1>10, <2>1, <2>2, <2>3 DEF SelectBatch, workerVars
<1>11. ASSUME NEW f \in Forger, ReserveStart(f) PROVE TypeOK'
  BY <1>11 DEF ReserveStart, workerVars
<1>12. ASSUME NEW f \in Forger, ReserveStep(f) PROVE TypeOK'
  <2>. DEFINE t == batch[f][fi[f]]
  <2>1. t \in Tx
    BY <1>12, ElementOfSeq DEF ReserveStep
  <2>2. DeleteFromPriced(priced, t) \in Seq(Tx)
    BY DeleteFromPricedType
  <2>3. CASE t \notin pool /\ ReserveFail(f, "notFound")
             /\ UNCHANGED <<pool, reserved, priced, fi>>
    BY <1>12, <2>3 DEF ReserveStep, ReserveFail, workerVars
  <2>4. CASE t \in pool /\ t \in reserved /\ ReserveFail(f, "alreadyReserved")
             /\ UNCHANGED <<pool, reserved, priced, fi>>
    BY <1>12, <2>4 DEF ReserveStep, ReserveFail, workerVars
  <2>. DEFINE Move == /\ t \in pool /\ t \notin reserved
                      /\ reserved' = reserved \cup {t}
                      /\ pool' = pool \ {t}
                      /\ priced' = DeleteFromPriced(priced, t)
  <2>5. CASE Move /\ fi' = [fi EXCEPT ![f] = @ + 1]
             /\ UNCHANGED <<lock, fpc, fres>>
    BY <1>12, <2>1, <2>2, <2>5 DEF ReserveStep, workerVars
  <2>6. CASE Move /\ ReserveFail(f, "notInPriced") /\ UNCHANGED fi
    BY <1>12, <2>1, <2>2, <2>6 DEF ReserveStep, ReserveFail, workerVars
  <2>. QED
    BY <1>12, <2>3, <2>4, <2>5, <2>6 DEF ReserveStep
<1>13. ASSUME NEW f \in Forger, ReserveEnd(f) PROVE TypeOK'
  BY <1>13 DEF ReserveEnd, workerVars
<1>14. ASSUME NEW f \in Forger, CommitBlock(f) PROVE TypeOK'
  BY <1>14, RangeOfSeq DEF CommitBlock, workerVars
<1>15. ASSUME NEW f \in Forger, FlushReserved(f) PROVE TypeOK'
  BY <1>15 DEF FlushReserved, FlushLocks, workerVars
<1>16. ASSUME NEW f \in Forger, RollbackReserved(f) PROVE TypeOK'
  <2>. DEFINE back == reserved \ pool
  <2>1. PICK e \in Listings(back) : priced' = priced \o e
    BY <1>16 DEF RollbackReserved
  <2>2. e \in Seq(Tx)
    BY <2>1, ListingsType
  <2>3. priced' \in Seq(Tx)
    BY <2>1, <2>2, ConcatProperties
  <2>. QED
    BY <1>16, <2>3 DEF RollbackReserved, workerVars
<1>17. ASSUME NEW f \in Forger, RollbackFlush(f) PROVE TypeOK'
  BY <1>17 DEF RollbackFlush, FlushLocks, workerVars
<1>18. CASE UNCHANGED vars
  BY <1>18 DEF vars
<1>. QED
  BY <1>1, <1>2, <1>3, <1>4, <1>5, <1>6, <1>7, <1>8, <1>9, <1>10, <1>11,
     <1>12, <1>13, <1>14, <1>15, <1>16, <1>17, <1>18 DEF Next

\* TypeOK holds in every reachable state of the pool.
THEOREM TypeCorrect == Spec => []TypeOK
BY TypeInit, TypeStep, PTL DEF Spec

-----------------------------------------------------------------------------
(* The priced pool lists exactly the pool, each transaction once.          *)

\* The ingest worker holds a transaction in its validation phases only if
\* the lookup under the first lock found it neither pooled nor reserved,
\* and nothing can put it there until the worker itself inserts it.
WorkerFresh ==
    wpc \in {"check", "validate", "register"} => cur \notin pool \cup reserved

\* The inductive invariant behind PricedMatchesPool, checked with TLC as an
\* invariant of the pool instances before it was proved.
PricedInv == TypeOK /\ PricedMatchesPool /\ WorkerFresh

LEMMA PricedInit == Init => PricedInv
<1>. SUFFICES ASSUME Init PROVE PricedInv
  OBVIOUS
<1>1. Range(<<>>) = {} /\ IsInjective(<<>>)
  BY DEF Range, IsInjective
<1>. QED
  BY <1>1, TypeInit DEF Init, PricedInv, PricedMatchesPool, WorkerFresh

\* Every step keeps the priced slice a duplicate-free listing of the pool:
\* the swap-with-last delete of checkInputs, deleteTransactionByHash and
\* ReserveTransactions, the append of RegisterTx, the in-place sorts, and
\* the appends of RollbackReserved.
LEMMA PricedStep == PricedInv /\ [Next]_vars => PricedInv'
<1>. SUFFICES ASSUME PricedInv, [Next]_vars PROVE PricedInv'
  OBVIOUS
<1>0. TypeOK /\ TypeOK' /\ Range(priced) = pool /\ IsInjective(priced)
      /\ WorkerFresh
  BY TypeStep DEF PricedInv, PricedMatchesPool
<1>. USE <1>0 DEF PricedInv, PricedMatchesPool, WorkerFresh, TypeOK
<1>1. CASE ClearPool
  <2>1. Range(<<>>) = {} /\ IsInjective(<<>>)
    BY DEF Range, IsInjective
  <2>. QED
    BY <1>1, <2>1 DEF ClearPool
<1>2. CASE StopWriting
  BY <1>2 DEF StopWriting
<1>3. CASE CheckInputs
  <2>. DEFINE ins == TxInputs[cur]
              lockedAt == {k \in 1..Len(ins) : locked[ins[k]] # NoTx}
              first == locked[ins[CHOOSE k \in lockedAt :
                                       \A m \in lockedAt : k <= m]]
  <2>1. UNCHANGED reserved /\ wpc = "check"
    BY <1>3 DEF CheckInputs, LockedAt
  <2>2. CASE lockedAt = {} /\ wpc' = "validate"
             /\ UNCHANGED <<pool, priced, locked, cur>>
    BY <2>1, <2>2
  <2>3. CASE /\ Replaces(cur, first)
             /\ pool' = pool \ {first}
             /\ priced' = DeleteFromPriced(priced, first)
             /\ IF InPriced(priced, first)
                  THEN wpc' = "validate" /\ UNCHANGED cur
                  ELSE wpc' = "idle" /\ cur' = NoTx
    <3>1. first \in Range(priced)
      BY <2>3 DEF Replaces
    <3>2. Range(priced') = pool' /\ IsInjective(priced')
      BY <2>3, <3>1, DeleteFromPricedRemoves
    <3>3. WorkerFresh'
      BY <2>1, <2>3
    <3>. QED
      BY <3>2, <3>3
  <2>4. CASE wpc' = "idle" /\ UNCHANGED <<pool, priced>>
    BY <2>1, <2>4
  <2>. QED
    BY <1>3, <2>2, <2>3, <2>4 DEF CheckInputs, LockedAt
<1>4. CASE ValidateTx
  BY <1>4 DEF ValidateTx
<1>5. CASE RegisterTx
  <2>1. cur \in Tx \ Range(priced)
    BY <1>5 DEF RegisterTx
  <2>2. Range(priced') = pool' /\ IsInjective(priced')
    BY <1>5, <2>1, AppendFresh DEF RegisterTx
  <2>. QED
    BY <1>5, <2>2 DEF RegisterTx
<1>6. CASE GetTxQueue
  BY <1>6, SortedExact DEF GetTxQueue, workerVars
<1>7. CASE CatchForgeError
  BY <1>7 DEF CatchForgeError, workerVars
<1>8. ASSUME NEW t \in Tx, Receive(t) PROVE PricedInv'
  BY <1>8 DEF Receive, workerVars
<1>9. ASSUME NEW t \in Tx, DeleteTransaction(t) PROVE PricedInv'
  <2>1. Range(priced') = pool' /\ IsInjective(priced')
    BY <1>9, DeleteFromPricedRemoves DEF DeleteTransaction
  <2>. QED
    BY <1>9, <2>1 DEF DeleteTransaction, workerVars
<1>10. ASSUME NEW f \in Forger, SelectBatch(f) PROVE PricedInv'
  <2>1. PICK q \in SortedOrders(priced) : priced' = q
    BY <1>10 DEF SelectBatch
  <2>2. Range(priced') = pool' /\ IsInjective(priced')
    BY <1>10, <2>1, SortedExact DEF SelectBatch
  <2>. QED
    BY <1>10, <2>2 DEF SelectBatch, workerVars
<1>11. ASSUME NEW f \in Forger, ReserveStart(f) PROVE PricedInv'
  BY <1>11 DEF ReserveStart, workerVars
<1>12. ASSUME NEW f \in Forger, ReserveStep(f) PROVE PricedInv'
  <2>. DEFINE t == batch[f][fi[f]]
  <2>1. UNCHANGED <<wpc, cur>>
    BY <1>12 DEF ReserveStep, workerVars
  <2>2. CASE UNCHANGED <<pool, reserved, priced>>
    BY <2>1, <2>2
  <2>3. CASE /\ t \in pool
             /\ reserved' = reserved \cup {t}
             /\ pool' = pool \ {t}
             /\ priced' = DeleteFromPriced(priced, t)
    <3>1. Range(priced') = pool' /\ IsInjective(priced')
      BY <2>3, DeleteFromPricedRemoves
    <3>. QED
      BY <2>1, <2>3, <3>1
  <2>. QED
    BY <1>12, <2>2, <2>3 DEF ReserveStep
<1>13. ASSUME NEW f \in Forger, ReserveEnd(f) PROVE PricedInv'
  BY <1>13 DEF ReserveEnd, workerVars
<1>14. ASSUME NEW f \in Forger, CommitBlock(f) PROVE PricedInv'
  BY <1>14 DEF CommitBlock, workerVars
<1>15. ASSUME NEW f \in Forger, FlushReserved(f) PROVE PricedInv'
  BY <1>15 DEF FlushReserved, workerVars
<1>16. ASSUME NEW f \in Forger, RollbackReserved(f) PROVE PricedInv'
  <2>. DEFINE back == reserved \ pool
  <2>1. PICK e \in Listings(back) : priced' = priced \o e
    BY <1>16 DEF RollbackReserved
  <2>2. e \in Seq(Tx) /\ IsInjective(e) /\ Range(e) = back
    BY ListingExact
  <2>3. Range(priced') = pool' /\ IsInjective(priced')
    BY <1>16, <2>1, <2>2, ConcatFresh DEF RollbackReserved
  <2>. QED
    BY <1>16, <2>3 DEF RollbackReserved, workerVars
<1>17. ASSUME NEW f \in Forger, RollbackFlush(f) PROVE PricedInv'
  BY <1>17 DEF RollbackFlush, workerVars
<1>18. CASE UNCHANGED vars
  BY <1>18 DEF vars
<1>. QED
  BY <1>1, <1>2, <1>3, <1>4, <1>5, <1>6, <1>7, <1>8, <1>9, <1>10, <1>11,
     <1>12, <1>13, <1>14, <1>15, <1>16, <1>17, <1>18 DEF Next

\* Spec 3 (invariant 4), for every catalogue of transactions, inputs and
\* forgers: the priced pool lists exactly the pool, each transaction once,
\* whatever the interleaving of admission, swaps, deletes, sorts,
\* reservations and rollbacks.
THEOREM PricedCorrect == Spec => []PricedMatchesPool
<1>1. Init => PricedInv
  BY PricedInit
<1>2. PricedInv /\ [Next]_vars => PricedInv'
  BY PricedStep
<1>3. PricedInv => PricedMatchesPool
  BY DEF PricedInv
<1>. QED
  BY <1>1, <1>2, <1>3, PTL DEF Spec

-----------------------------------------------------------------------------
(* No lock dangles, with one forger.                                       *)

\* With one forger the held transactions are the pool and, unless a
\* rollback is between its two locked sections, the reserved pool.
LEMMA HeldOne ==
    ASSUME NEW f0, Forger = {f0}
    PROVE  /\ Held = IF fpc[f0] = "rollback" THEN pool ELSE pool \cup reserved
           /\ Held' = IF fpc'[f0] = "rollback" THEN pool' ELSE pool' \cup reserved'
BY DEF Held

\* unlockInputs clears exactly the input keys of the transaction.
LEMMA UnlockInputsAt ==
    ASSUME NEW lk, NEW t, NEW k \in Input
    PROVE  UnlockInputs(lk, t)[k] = IF k \in InputSet(t) THEN NoTx ELSE lk[k]
BY DEF UnlockInputs

LockInv == TypeOK /\ NoDanglingLocks

\* Removing a pooled transaction and unlocking its inputs, as
\* deleteTransactionByHash does for DeleteTransaction and for the swap of
\* checkInputs, leaves no lock naming it.
LEMMA RemoveKeepsLocks ==
    ASSUME NEW f0, Forger = {f0}, LockInv, NEW t \in Tx,
           pool' = pool \ {t}, locked' = UnlockInputs(locked, t),
           UNCHANGED <<reserved, fpc>>
    PROVE  NoDanglingLocks'
<1>. SUFFICES ASSUME NEW k \in Input, locked'[k] # NoTx
              PROVE  locked'[k] \in Held' /\ k \in InputSet(locked'[k])
  BY DEF NoDanglingLocks
<1>1. k \notin InputSet(t) /\ locked'[k] = locked[k]
  BY UnlockInputsAt
<1>2. locked[k] \in Held /\ k \in InputSet(locked[k])
  BY <1>1 DEF LockInv, NoDanglingLocks
<1>3. locked[k] # t
  BY <1>1, <1>2
<1>. QED
  BY <1>1, <1>2, <1>3, HeldOne

LEMMA LockInvStep ==
    ASSUME NEW f0, Forger = {f0}
    PROVE  LockInv /\ [Next]_vars => LockInv'
<1>. SUFFICES ASSUME LockInv, [Next]_vars PROVE LockInv'
  OBVIOUS
<1>1. TypeOK'
  BY TypeStep DEF LockInv
<1>. SUFFICES NoDanglingLocks'
  BY <1>1 DEF LockInv
\* the steps that leave the locks, the pool, the reserved pool and whether
\* a rollback is under way as they are
<1>2. ASSUME UNCHANGED <<locked, pool, reserved>>,
             fpc'[f0] = "rollback" <=> fpc[f0] = "rollback"
      PROVE  NoDanglingLocks'
  BY <1>2, HeldOne DEF LockInv, NoDanglingLocks
<1>3. CASE ClearPool
  BY <1>3 DEF ClearPool, NoDanglingLocks
<1>4. CASE StopWriting \/ ValidateTx \/ GetTxQueue \/ CatchForgeError
  BY <1>2, <1>4 DEF StopWriting, ValidateTx, GetTxQueue, CatchForgeError,
     forgerVars
<1>5. ASSUME NEW t \in Tx, Receive(t) PROVE NoDanglingLocks'
  BY <1>2, <1>5 DEF Receive, forgerVars
<1>6. CASE CheckInputs
  <2>. DEFINE ins == TxInputs[cur]
              lockedAt == {k \in 1..Len(ins) : locked[ins[k]] # NoTx}
              first == locked[ins[CHOOSE k \in lockedAt :
                                       \A m \in lockedAt : k <= m]]
  <2>1. UNCHANGED <<reserved, forgerVars>>
    BY <1>6 DEF CheckInputs, LockedAt
  <2>2. CASE UNCHANGED <<pool, locked>>
    BY <1>2, <2>1, <2>2 DEF forgerVars
  <2>3. CASE /\ Replaces(cur, first)
             /\ pool' = pool \ {first}
             /\ locked' = UnlockInputs(locked, first)
    <3>1. first \in Tx
      BY <2>3 DEF Replaces, LockInv, TypeOK
    <3>. QED
      BY <2>1, <2>3, <3>1, RemoveKeepsLocks DEF forgerVars
  <2>. QED
    BY <1>6, <2>2, <2>3 DEF CheckInputs, LockedAt
<1>7. CASE RegisterTx
  <2>. SUFFICES ASSUME NEW k \in Input, locked'[k] # NoTx
                PROVE  locked'[k] \in Held' /\ k \in InputSet(locked'[k])
    BY DEF NoDanglingLocks
  <2>1. /\ pool' = pool \cup {cur}
        /\ locked' = LockInputs(locked, cur)
        /\ UNCHANGED <<reserved, fpc>>
    BY <1>7 DEF RegisterTx, forgerVars
  <2>2. Held \cup {cur} \subseteq Held'
    BY <2>1, HeldOne
  <2>3. CASE k \in InputSet(cur)
    BY <2>1, <2>2, <2>3 DEF LockInputs
  <2>4. CASE k \notin InputSet(cur)
    BY <2>1, <2>2, <2>4 DEF LockInputs, LockInv, NoDanglingLocks
  <2>. QED
    BY <2>3, <2>4
<1>8. ASSUME NEW t \in Tx, DeleteTransaction(t) PROVE NoDanglingLocks'
  BY <1>8, RemoveKeepsLocks DEF DeleteTransaction, forgerVars
<1>9. ASSUME NEW f \in Forger,
             SelectBatch(f) \/ ReserveStart(f) \/ ReserveEnd(f)
             \/ CommitBlock(f)
      PROVE  NoDanglingLocks'
  <2>1. f = f0
    OBVIOUS
  <2>2. UNCHANGED <<locked, pool, reserved>>
        /\ fpc[f0] # "rollback" /\ fpc'[f0] # "rollback"
    BY <1>9, <2>1 DEF SelectBatch, ReserveStart, ReserveEnd, CommitBlock,
       LockInv, TypeOK
  <2>. QED
    BY <1>2, <2>2
<1>10. ASSUME NEW f \in Forger, ReserveStep(f) PROVE NoDanglingLocks'
  <2>1. f = f0 /\ fpc[f0] = "reserving"
    BY <1>10 DEF ReserveStep
  <2>2. /\ UNCHANGED locked
        /\ pool' \cup reserved' = pool \cup reserved
        /\ fpc'[f0] # "rollback"
    BY <1>10, <2>1 DEF ReserveStep, ReserveFail, LockInv, TypeOK
  <2>. QED
    BY <2>1, <2>2, HeldOne DEF LockInv, NoDanglingLocks
<1>11. ASSUME NEW f \in Forger, FlushReserved(f) PROVE NoDanglingLocks'
  <2>. SUFFICES ASSUME NEW k \in Input, locked'[k] # NoTx
                PROVE  locked'[k] \in Held' /\ k \in InputSet(locked'[k])
    BY DEF NoDanglingLocks
  <2>1. /\ f = f0 /\ fpc[f0] = "committed" /\ fpc'[f0] = "idle"
        /\ locked' = FlushLocks(TRUE) /\ reserved' = {} /\ UNCHANGED pool
    BY <1>11 DEF FlushReserved, LockInv, TypeOK
  <2>2. /\ \A r \in reserved : k \notin InputSet(r)
        /\ locked'[k] = locked[k]
    BY <2>1 DEF FlushLocks
  <2>3. locked[k] \in pool \cup reserved /\ k \in InputSet(locked[k])
    BY <2>1, <2>2, HeldOne DEF LockInv, NoDanglingLocks
  <2>4. locked[k] \in pool
    BY <2>2, <2>3
  <2>5. Held' = pool
    BY <2>1, HeldOne
  <2>. QED
    BY <2>2, <2>3, <2>4, <2>5
<1>12. ASSUME NEW f \in Forger, RollbackReserved(f) PROVE NoDanglingLocks'
  <2>1. /\ f = f0 /\ fpc[f0] = "reserved" /\ fpc'[f0] = "rollback"
        /\ pool' = pool \cup (reserved \ pool)
        /\ UNCHANGED <<locked, reserved>>
    BY <1>12 DEF RollbackReserved, LockInv, TypeOK
  <2>. QED
    BY <2>1, HeldOne DEF LockInv, NoDanglingLocks
<1>13. ASSUME NEW f \in Forger, RollbackFlush(f) PROVE NoDanglingLocks'
  <2>1. /\ f = f0 /\ fpc[f0] = "rollback" /\ fpc'[f0] = "idle"
        /\ locked' = locked /\ reserved' = {} /\ UNCHANGED pool
    BY <1>13 DEF RollbackFlush, FlushLocks, LockInv, TypeOK
  <2>. QED
    BY <2>1, HeldOne DEF LockInv, NoDanglingLocks
<1>14. CASE UNCHANGED vars
  BY <1>2, <1>14 DEF vars
<1>. QED
  BY <1>3, <1>4, <1>5, <1>6, <1>7, <1>8, <1>9, <1>10, <1>11, <1>12, <1>13,
     <1>14 DEF Next

\* With one forger, for every catalogue of transactions and inputs: no
\* input lock ever names a transaction the pool has dropped, or an input
\* that transaction does not spend, although checkInputs' swap, deletes,
\* reservations, flushes and the two-section rollback all touch the locks.
\* It holds even where the swap of checkInputs breaks LockTableSound (the
\* swap_skips_inputs catalogue).  With two forgers TLC refutes it: a
\* reservation made between the other forger's two rollback sections is
\* dropped with its locks in place.
THEOREM NoDanglingLocksOneForger ==
    ASSUME NEW f0, Forger = {f0}
    PROVE  Spec => []NoDanglingLocks
<1>1. Init => LockInv
  BY TypeInit DEF Init, LockInv, NoDanglingLocks
<1>2. LockInv /\ [Next]_vars => LockInv'
  BY LockInvStep
<1>3. LockInv => NoDanglingLocks
  BY DEF LockInv
<1>. QED
  BY <1>1, <1>2, <1>3, PTL DEF Spec

=============================================================================
