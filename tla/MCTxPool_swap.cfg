CONSTANTS
    a = a  b = b  c = c  d = d  e = e  g = g  h = h
    u1 = u1  u2 = u2  u3 = u3  X = X  Y = Y
    NoTx = NoTx
    Free = Free
    Forger = {f1}
    Tx <- SwapTx
    Input <- MCInput
    Sender <- MCSender
    TxInputs <- MCTxInputs
    TxSender <- MCTxSender
    TxNum <- MCTxNum
    TxFee <- MCTxFee
    TxTime <- MCTxTime
    Owner <- MCOwner
    BatchMax = 2

SPECIFICATION Spec

INVARIANT DisjointInputs
