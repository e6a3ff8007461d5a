------------------------------ MODULE SlotSet ------------------------------
(***************************************************************************)
(* What the validator slot registry of                                     *)
(* src/blockchain/consensus/attestation/slots.go promises its callers,     *)
(* with every call atomic: the staker list is an ordered list of           *)
(* addresses, never longer than slotsBound; RegisterStake appends an       *)
(* address while a slot is free, and UnregisterStake removes the first     *)
(* occurrence of an address, keeping the order of the others.  Reading    *)
(* the list (CanStake, CreateRewardTx) does not change it.                 *)
(***************************************************************************)
EXTENDS Naturals, Sequences

CONSTANTS Addr, SlotsBound

VARIABLE slots

\* the list of s without its i-th element
RemoveIndex(s, i) == [k \in 1..(Len(s) - 1) |-> IF k < i THEN s[k] ELSE s[k + 1]]

\* LoadSlots registers the stake deposits found on chain, at most slotsBound
Init == slots \in Seq(Addr) /\ Len(slots) <= SlotsBound

\* RegisterStake: fails when no slot is free, else appends the address
Register(a) ==
    /\ Len(slots) < SlotsBound
    /\ slots' = Append(slots, a)

\* UnregisterStake: the first slot holding the address is cut out
Unregister(a) ==
    \E i \in 1..Len(slots) :
        /\ slots[i] = a
        /\ \A j \in 1..(i - 1) : slots[j] # a
        /\ slots' = RemoveIndex(slots, i)

Next == \E a \in Addr : Register(a) \/ Unregister(a)

Spec == Init /\ [][Next]_slots

=============================================================================
