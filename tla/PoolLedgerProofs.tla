-------------------------- MODULE PoolLedgerProofs --------------------------
(***************************************************************************)
(* The pool's promise PoolLedger is enough for the chain: no two held      *)
(* transactions spend one UTXO, none of them spends an output the chain    *)
(* has spent, and no block double-spends.                                  *)
(***************************************************************************)
EXTENDS PoolLedger, TLAPS

\* A stored block spends, on top of what the chain spent, its own inputs.
LEMMA ChainSpentCommit ==
    ASSUME NEW B, chain' = chain \cup B
    PROVE  ChainSpent' = ChainSpent \cup UNION {Spends(x) : x \in B}
BY DEF ChainSpent

\* Admit keeps the held transactions apart and away from the chain.
LEMMA AdmitSafe ==
    ASSUME LedgerSafe, NEW t, Admit(t)
    PROVE  LedgerSafe'
<1>1. ChainSpent' = ChainSpent /\ held' = held \cup {t} /\ chain' = chain
  BY DEF Admit, ChainSpent
<1>2. \A a, b \in held' : a # b => Apart(a, b)
  BY <1>1 DEF Admit, LedgerSafe, Apart
<1>3. \A u \in held' \ chain' : Spends(u) \cap ChainSpent' = {}
  BY <1>1 DEF Admit, LedgerSafe
<1>. QED
  BY <1>1, <1>2, <1>3 DEF LedgerSafe

\* A Commit spends unspent outputs, none of them twice and none of them
\* an output a transaction left held still spends.
LEMMA CommitSafe ==
    ASSUME LedgerSafe, NEW B, Commit(B)
    PROVE  LedgerSafe'
<1>1. /\ chain' = chain \cup B /\ held' = held
      /\ ChainSpent' = ChainSpent \cup UNION {Spends(x) : x \in B}
  BY ChainSpentCommit DEF Commit
<1>2. \A a, b \in chain' : a # b => Apart(a, b)
  <2>. SUFFICES ASSUME NEW a \in chain', NEW b \in chain', a # b
                PROVE  Apart(a, b)
    OBVIOUS
  <2>1. CASE a \in chain /\ b \in chain
    BY <2>1 DEF LedgerSafe
  <2>2. CASE a \in B /\ b \in B
    BY <2>2 DEF Commit
  <2>3. CASE a \in B /\ b \in chain
    BY <2>3 DEF Commit, ChainSpent, Apart
  <2>4. CASE a \in chain /\ b \in B
    BY <2>4 DEF Commit, ChainSpent, Apart
  <2>. QED
    BY <1>1, <2>1, <2>2, <2>3, <2>4
<1>3. \A u \in held' \ chain' : Spends(u) \cap ChainSpent' = {}
  <2>. SUFFICES ASSUME NEW u \in held \ (chain \cup B),
                       NEW x \in B
                PROVE  Spends(u) \cap Spends(x) = {}
    BY <1>1 DEF LedgerSafe
  <2>. QED
    BY DEF Commit, Apart
<1>. QED
  BY <1>1, <1>2, <1>3 DEF LedgerSafe

\* Whatever the pool admits, drops and commits within its promise, the
\* held transactions never spend one UTXO twice nor an output the chain
\* has spent, and the chain never spends one UTXO twice.  This is what
\* DisjointInputs, PoolSpendsUnspent and ChainNoDoubleSpend say of the
\* pool itself; with PoolRefinesLedger it follows for the pool from the
\* promise alone.
THEOREM LedgerSafeAlways == Spec => []LedgerSafe
<1>1. Init => LedgerSafe
  BY DEF Init, LedgerSafe, ChainSpent
<1>2. LedgerSafe /\ [Next]_ledgerVars => LedgerSafe'
  <2>. SUFFICES ASSUME LedgerSafe, [Next]_ledgerVars PROVE LedgerSafe'
    OBVIOUS
  <2>1. ASSUME NEW t \in Tx, Admit(t) PROVE LedgerSafe'
    BY <2>1, AdmitSafe
  <2>2. ASSUME NEW S \in SUBSET held, Drop(S) PROVE LedgerSafe'
    BY <2>2 DEF Drop, LedgerSafe, ChainSpent
  <2>3. ASSUME NEW B \in SUBSET Tx, Commit(B) PROVE LedgerSafe'
    BY <2>3, CommitSafe
  <2>4. CASE UNCHANGED ledgerVars
    BY <2>4 DEF ledgerVars, LedgerSafe, ChainSpent
  <2>. QED
    BY <2>1, <2>2, <2>3, <2>4 DEF Next
<1>. QED
  BY <1>1, <1>2, PTL DEF Spec
=============================================================================
