--------------------------- MODULE MCSlotRegistry ---------------------------
(* Small instances of SlotRegistry: three stakers, a few slots, a slice     *)
(* that can grow one past its bound before the model stops it.              *)
EXTENDS SlotRegistry

\* uint64 wraps at 2^64; only "emptySlots = 0" is observed, which is the same
\* for every modulus above the lengths reached
MCWord == 65536

=============================================================================
