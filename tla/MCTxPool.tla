------------------------------ MODULE MCTxPool ------------------------------
(***************************************************************************)
(* Small catalogues of transactions for checking TxPool with TLC.          *)
(*                                                                         *)
(* Senders X and Y; X owns u1 and u2, Y owns u3.                           *)
(*   a : X, num 1, fee 1, spends <<u1>>                                    *)
(*   b : X, num 1, fee 2, spends <<u1>>      replaces a by fee             *)
(*   c : X, num 2, fee 1, spends <<u1, u2>>  same sender, other num        *)
(*   d : Y, num 1, fee 1, spends <<u3>>      independent of X              *)
(*   e : Y, num 1, fee 2, spends <<u1>>      claims X's output             *)
(*   g : X, num 2, fee 1, spends <<u2>>      second input of h             *)
(*   h : X, num 1, fee 3, spends <<u1, u2>>  replaces a/b on its first     *)
(*                                           input only                    *)
(* The Base catalogue is a..e; Swap adds g and h.                          *)
(***************************************************************************)
EXTENDS TxPool

CONSTANTS a, b, c, d, e, g, h, u1, u2, u3, X, Y

BaseTx == {a, b, c, d, e}
SwapTx == {a, g, h, d}
PairTx == {a, d}

MCInput == {u1, u2, u3}
MCSender == {X, Y}

MCTxInputs ==
    [t \in {a, b, c, d, e, g, h} |->
        CASE t = a -> <<u1>>     [] t = b -> <<u1>>  [] t = c -> <<u1, u2>>
          [] t = d -> <<u3>>     [] t = e -> <<u1>>  [] t = g -> <<u2>>
          [] t = h -> <<u1, u2>>]

MCTxSender ==
    [t \in {a, b, c, d, e, g, h} |-> IF t \in {d, e} THEN Y ELSE X]

MCTxNum ==
    [t \in {a, b, c, d, e, g, h} |-> IF t \in {c, g} THEN 2 ELSE 1]

MCTxFee ==
    [t \in {a, b, c, d, e, g, h} |->
        CASE t \in {a, c, d, g} -> 1 [] t \in {b, e} -> 2 [] t = h -> 3]

MCTxTime ==
    [t \in {a, b, c, d, e, g, h} |->
        CASE t \in {a, d} -> 1 [] t \in {b, g} -> 2 [] t \in {c, h} -> 3
          [] t = e -> 4]

MCOwner == [k \in MCInput |-> IF k = u3 THEN Y ELSE X]

=============================================================================
