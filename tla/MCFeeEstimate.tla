--------------------------- MODULE MCFeeEstimate ---------------------------
(* Queues of up to four transactions of sizes 1, 2, 5 and two fees, for a   *)
(* block of three bytes: enough for a transaction to overflow the block     *)
(* and a later one to fill it exactly.                                      *)
EXTENDS FeeEstimate

=============================================================================
