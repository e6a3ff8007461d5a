---------------------------- MODULE SlotRegistry ----------------------------
(***************************************************************************)
(* The validator slot registry of                                          *)
(* src/blockchain/consensus/attestation/slots.go (ValidatorGerm).          *)
(*                                                                         *)
(* vg.slots is a Go slice: a backing array, a length and a capacity.  The  *)
(* model keeps the array (buf), the length (len) and the capacity (cap),   *)
(* because UnregisterStake shifts elements inside the same array and       *)
(* createRewardOutputs keeps only the slice header after RUnlock, then     *)
(* reads the array element by element.  An append past the capacity moves *)
(* the registry to a new array; a reader that still iterates the old one   *)
(* keeps what it held (frozen).                                            *)
(*                                                                         *)
(* RegisterStake reads the free slots under RLock, releases it, and        *)
(* appends under Lock: two steps.  UnregisterStake is one step under Lock. *)
(***************************************************************************)
EXTENDS Naturals, Sequences

CONSTANTS
    Addr,         \* staker addresses (their hex form)
    Writer,       \* threads calling RegisterStake / UnregisterStake
    Reader,       \* threads calling CreateRewardTx
    SlotsBound,   \* vg.slotsBound
    BlockReward,  \* vg.blockReward
    Word,         \* 2^64: uint64 arithmetic wraps modulo Word
    MaxLen,       \* model bound on the slice length
    None          \* an array cell never written

ASSUME RegistryAssumption ==
    /\ SlotsBound \in Nat \ {0}
    /\ BlockReward \in Nat
    /\ Word \in Nat /\ Word > MaxLen
    /\ MaxLen \in Nat /\ MaxLen >= SlotsBound
    /\ None \notin Addr

VARIABLES
    buf,      \* the backing array of vg.slots, cells 1..MaxLen
    len,      \* len(vg.slots)
    cap,      \* cap(vg.slots)
    wpc,      \* writer: "idle" or "append" between RegisterStake's locks
    waddr,    \* the address a writer is about to append
    rpc,      \* reader: "idle", "read" (iterating the slice) or "done"
    rn,       \* size read under RLock
    rk,       \* next index createRewardOutputs reads
    rview,    \* <<>> while reading the live array, else the frozen array
    routs,    \* reward outputs built so far (addresses)
    rpay,     \* amount each output pays
    rsnap     \* the slots as they were under RLock (for the property)

vars == <<buf, len, cap, wpc, waddr, rpc, rn, rk, rview, routs, rpay, rsnap>>

Cell == Addr \cup {None}

\* the registry's slots: the first len cells of the array
Slots == [k \in 1..len |-> buf[k]]

\* emptySlots := vg.slotsBound - uint64(len(vg.slots)), in uint64
EmptySlots == (SlotsBound + Word - len) % Word

\* CanStake: vg.slotsBound-uint64(len(vg.slots)) > 0
CanStake == EmptySlots > 0

-----------------------------------------------------------------------------
\* NewValidator and LoadSlots: the stake deposits are registered in order;
\* more deposits than slots make NewValidator fail, so at most SlotsBound
Init ==
    /\ \E n \in 0..SlotsBound, s \in [1..SlotsBound -> Addr] :
          /\ len = n
          /\ buf = [k \in 1..MaxLen |-> IF k <= n THEN s[k] ELSE None]
    /\ cap = SlotsBound
    /\ wpc = [w \in Writer |-> "idle"]
    /\ waddr = [w \in Writer |-> None]
    /\ rpc = [r \in Reader |-> "idle"]
    /\ rn = [r \in Reader |-> 0]
    /\ rk = [r \in Reader |-> 1]
    /\ rview = [r \in Reader |-> <<>>]
    /\ routs = [r \in Reader |-> <<>>]
    /\ rpay = [r \in Reader |-> 0]
    /\ rsnap = [r \in Reader |-> <<>>]

readerVars == <<rpc, rn, rk, rview, routs, rpay, rsnap>>

\* (mutant) RegisterStake without the free-slot check
RegisterCheckNoLimit(w, a) ==
    /\ wpc[w] = "idle" /\ len < MaxLen
    /\ wpc' = [wpc EXCEPT ![w] = "append"]
    /\ waddr' = [waddr EXCEPT ![w] = a]
    /\ UNCHANGED <<buf, len, cap, readerVars>>

\* RegisterStake, under RLock: fail when emptySlots is 0
RegisterCheck(w, a) ==
    /\ wpc[w] = "idle" /\ len < MaxLen
    /\ EmptySlots # 0
    /\ wpc' = [wpc EXCEPT ![w] = "append"]
    /\ waddr' = [waddr EXCEPT ![w] = a]
    /\ UNCHANGED <<buf, len, cap, readerVars>>

\* RegisterStake, under Lock: vg.slots = append(vg.slots, address.Hex()).
\* Past the capacity append copies into a new array of twice the capacity:
\* readers still on the old array keep its contents.
RegisterAppend(w) ==
    /\ wpc[w] = "append" /\ len < MaxLen
    /\ buf' = [buf EXCEPT ![len + 1] = waddr[w]]
    /\ len' = len + 1
    /\ IF len < cap
         THEN UNCHANGED <<cap, rview>>
         ELSE /\ cap' = 2 * cap
              /\ rview' = [r \in Reader |->
                             IF rpc[r] = "read" /\ rview[r] = <<>>
                               THEN [k \in 1..rn[r] |-> buf[k]]
                               ELSE rview[r]]
    /\ wpc' = [wpc EXCEPT ![w] = "idle"]
    /\ waddr' = [waddr EXCEPT ![w] = None]
    /\ UNCHANGED <<rpc, rn, rk, routs, rpay, rsnap>>

\* (mutant) UnregisterStake that ignores notFound and shrinks anyway
UnregisterStakeBlind(w, a) ==
    /\ wpc[w] = "idle"
    /\ len' = len - 1
    /\ UNCHANGED <<buf, cap, wpc, waddr, readerVars>>

\* (mutant) UnregisterStake cutting out the slot after the match
UnregisterStakeNext(w, a) ==
    /\ wpc[w] = "idle"
    /\ \E i \in 1..len :
          /\ buf[i] = a
          /\ \A j \in 1..(i - 1) : buf[j] # a
          /\ buf' = [k \in 1..MaxLen |-> IF i < k /\ k < len THEN buf[k + 1]
                                                          ELSE buf[k]]
    /\ len' = len - 1
    /\ UNCHANGED <<cap, wpc, waddr, readerVars>>

\* UnregisterStake under Lock: the first slot equal to a is cut out with
\* append(vg.slots[:i], vg.slots[i+1:]...), which shifts the tail left in
\* the same array; an address with no slot is an error
UnregisterStake(w, a) ==
    /\ wpc[w] = "idle"
    /\ \E i \in 1..len :
          /\ buf[i] = a
          /\ \A j \in 1..(i - 1) : buf[j] # a
          /\ buf' = [k \in 1..MaxLen |-> IF i <= k /\ k < len THEN buf[k + 1]
                                                           ELSE buf[k]]
    /\ len' = len - 1
    /\ UNCHANGED <<cap, wpc, waddr, readerVars>>

\* createRewardOutputs under RLock: size, the slice header, the reward;
\* no stakers gives no outputs (ErrNoStakers)
RewardStart(r) ==
    /\ rpc[r] \in {"idle", "done"}
    /\ rn' = [rn EXCEPT ![r] = len]
    /\ rk' = [rk EXCEPT ![r] = 1]
    /\ rview' = [rview EXCEPT ![r] = <<>>]
    /\ routs' = [routs EXCEPT ![r] = <<>>]
    /\ rpay' = [rpay EXCEPT ![r] = IF len = 0 THEN 0 ELSE BlockReward \div len]
    /\ rsnap' = [rsnap EXCEPT ![r] = Slots]
    /\ rpc' = [rpc EXCEPT ![r] = IF len = 0 THEN "done" ELSE "read"]
    /\ UNCHANGED <<buf, len, cap, wpc, waddr>>

\* after RUnlock: one output per element of the slice it kept
RewardStep(r) ==
    /\ rpc[r] = "read" /\ rk[r] <= rn[r]
    /\ LET a == IF rview[r] = <<>> THEN buf[rk[r]] ELSE rview[r][rk[r]]
       IN routs' = [routs EXCEPT ![r] = Append(@, a)]
    /\ rk' = [rk EXCEPT ![r] = @ + 1]
    /\ UNCHANGED <<buf, len, cap, wpc, waddr, rpc, rn, rview, rpay, rsnap>>

\* the outputs are complete; CreateRewardTx builds the reward transaction
RewardEnd(r) ==
    /\ rpc[r] = "read" /\ rk[r] > rn[r]
    /\ rpc' = [rpc EXCEPT ![r] = "done"]
    /\ UNCHANGED <<buf, len, cap, wpc, waddr, rn, rk, rview, routs, rpay,
                   rsnap>>

Next ==
    \/ \E w \in Writer :
          \/ RegisterAppend(w)
          \/ \E a \in Addr : RegisterCheck(w, a) \/ UnregisterStake(w, a)
    \/ \E r \in Reader : RewardStart(r) \/ RewardStep(r) \/ RewardEnd(r)

Spec == Init /\ [][Next]_vars

-----------------------------------------------------------------------------
TypeOK ==
    /\ buf \in [1..MaxLen -> Cell]
    /\ len \in 0..MaxLen
    /\ cap \in Nat
    /\ wpc \in [Writer -> {"idle", "append"}]
    /\ waddr \in [Writer -> Cell]
    /\ rpc \in [Reader -> {"idle", "read", "done"}]
    /\ rn \in [Reader -> 0..MaxLen]
    /\ rk \in [Reader -> Nat]
    /\ rview \in [Reader -> Seq(Cell)]
    /\ routs \in [Reader -> Seq(Cell)]
    /\ rpay \in [Reader -> Nat]
    /\ rsnap \in [Reader -> Seq(Cell)]

\* Spec 3 and 8 (property 6): |slots| <= bound at all times, although
\* RegisterStake checks the free slots and appends under separate locks.
SlotsBounded == len <= SlotsBound

\* Spec 4.4: the slot list read under the shared lock is what the reward
\* pays: a finished reward transaction has one output per slot of that
\* list, in order, even if stakes are unregistered while it is built.
RewardPaysSnapshot ==
    \A r \in Reader : rpc[r] = "done" => routs[r] = rsnap[r]

\* Spec 3 and 8: the registry behaves as the atomic slot list of SlotSet,
\* whose list is the first len cells of the array: RegisterStake's two
\* lock sections together append below the bound, UnregisterStake cuts
\* out the first matching slot, and building a reward changes nothing.
Abs == INSTANCE SlotSet WITH slots <- Slots

AbsSpec == Abs!Spec

=============================================================================
