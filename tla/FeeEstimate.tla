---------------------------- MODULE FeeEstimate ----------------------------
(***************************************************************************)
(* TxPool.GetFee (src/blockchain/core/attestation/txpool.go): the minimal  *)
(* fee estimate, a pure computation over the priced queue (the pool in     *)
(* priority order).  A transaction of the queue is abstracted to its size  *)
(* and its fee.  The variable queue is the queue GetFee is called on; it   *)
(* never changes.                                                          *)
(***************************************************************************)
EXTENDS Naturals, Sequences

CONSTANTS
    BlockSize,   \* tp.cfg.BlockSize
    MinimalFee,  \* tp.cfg.MinimalFee
    TxSize,      \* the sizes a transaction may have
    TxFee,       \* the fees a transaction may have
    MaxQueue     \* model bound on the queue length

VARIABLE queue

Entry == [size : TxSize, fee : TxFee]

\* GetTxQueue sorts by fee, highest first (pricedTxPool.Less)
Queues ==
    UNION {{q \in [1..n -> Entry] :
               \A k \in 1..(n - 1) : q[k].fee >= q[k + 1].fee} : n \in 0..MaxQueue}

\* totalSize -= size: the code subtracts the queue length
CodeDrop(q, k, t) == t - Len(q)

\* The loop of GetFee, one iteration per transaction: the running total and
\* the 1-based index at which the block was filled exactly (0: not yet);
\* past the end, i == size is taken back to the last index.
FeeWalk(q) ==
    LET n == Len(q)
        W[k \in 0..n] ==
          IF k = 0 THEN [total |-> 0, stop |-> 0]
          ELSE LET p == W[k - 1]
                   t == p.total + q[k].size
               IN  IF p.stop # 0 THEN p
                   ELSE IF t <= BlockSize
                          THEN [total |-> t, stop |-> IF t = BlockSize THEN k ELSE 0]
                          ELSE [total |-> CodeDrop(q, k, t), stop |-> 0]
    IN  IF W[n].stop # 0 THEN W[n].stop ELSE n

\* Reference: the walk the comment "tx is too big try for look up another
\* one" describes: an oversized transaction is left out of the block and the
\* walk stops at the first transaction that fills the block exactly.
IntendedWalk(q) ==
    LET n == Len(q)
        Fits[k \in 0..n] ==    \* the bytes taken by the transactions kept
          IF k = 0 THEN 0
          ELSE IF Fits[k - 1] + q[k].size <= BlockSize
                 THEN Fits[k - 1] + q[k].size ELSE Fits[k - 1]
        Full == {k \in 1..n : Fits[k] = BlockSize}
    IN  IF Full = {} THEN n ELSE CHOOSE k \in Full : \A m \in Full : k <= m

\* GetFee: MinimalFee for an empty queue, else the mean of the highest fee
\* and the fee at the index where the walk stopped
FeeOf(q, i) == IF Len(q) = 0 THEN MinimalFee ELSE (q[1].fee + q[i].fee) \div 2

GetFee(q) == FeeOf(q, FeeWalk(q))

IntendedFee(q) == FeeOf(q, IntendedWalk(q))

Init == queue \in Queues

Next == UNCHANGED queue

Spec == Init /\ [][Next]_queue

-----------------------------------------------------------------------------
\* The comment at the overflow branch of GetFee says a transaction too big
\* for the remaining space is skipped and the next one tried: the estimate
\* is the one that walk gives.
FeeSkipsOversized == GetFee(queue) = IntendedFee(queue)

=============================================================================
