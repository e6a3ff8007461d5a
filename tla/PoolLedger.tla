----------------------------- MODULE PoolLedger -----------------------------
(***************************************************************************)
(* What the transaction pool of src/blockchain/core/attestation/txpool.go *)
(* promises the chain, with every call atomic (spec 4.3, 5: reserve then   *)
(* flush(true) is linearizable against register).  The pool holds a set   *)
(* of transactions; it admits one only when it spends no output the chain *)
(* has spent and no output a held transaction spends; it drops            *)
(* transactions (delete, swap, flush, clearPool); and the blocks built    *)
(* from it commit transactions that spend unspent outputs and conflict    *)
(* neither with each other nor with what the pool goes on holding.         *)
(* Reservation and rollback do not show here: a reserved transaction is   *)
(* still held.                                                              *)
(***************************************************************************)
EXTENDS Functions

CONSTANTS Tx, Input, TxInputs

VARIABLES held, chain

ledgerVars == <<held, chain>>

\* the UTXO keys a transaction spends (genKeyFromInput of each input)
Spends(t) == Range(TxInputs[t])

\* the outputs spent on chain
ChainSpent == UNION {Spends(t) : t \in chain}

\* two transactions that spend no UTXO in common
Apart(t, u) == Spends(t) \cap Spends(u) = {}

\* NewTxPool: nothing held, nothing committed
Init == held = {} /\ chain = {}

\* RegisterTx: a new transaction, spending unspent outputs that no held
\* transaction spends
Admit(t) ==
    /\ t \notin held \cup chain
    /\ Spends(t) \cap ChainSpent = {}
    /\ \A u \in held : Apart(t, u)
    /\ held' = held \cup {t}
    /\ UNCHANGED chain

\* deleteTransactionByHash, FlushReserved, clearPool
Drop(S) ==
    /\ S \subseteq held
    /\ held' = held \ S
    /\ UNCHANGED chain

\* a stored block: uncommitted transactions spending unspent outputs, none
\* two of them and none of them and a transaction still held in conflict
Commit(B) ==
    /\ B \cap chain = {}
    /\ \A x \in B : Spends(x) \cap ChainSpent = {}
    /\ \A x, y \in B : x # y => Apart(x, y)
    /\ \A x \in B, u \in held \ B : Apart(x, u)
    /\ chain' = chain \cup B
    /\ UNCHANGED held

Next ==
    \/ \E t \in Tx : Admit(t)
    \/ \E S \in SUBSET held : Drop(S)
    \/ \E B \in SUBSET Tx : Commit(B)

Spec == Init /\ [][Next]_ledgerVars

-----------------------------------------------------------------------------
\* What the promise gives: the held transactions spend no UTXO twice and
\* none already spent on chain, and the chain spends no UTXO twice.
LedgerSafe ==
    /\ \A a, b \in held : a # b => Apart(a, b)
    /\ \A a, b \in chain : a # b => Apart(a, b)
    /\ \A t \in held \ chain : Spends(t) \cap ChainSpent = {}

=============================================================================
