\* GetFee against the walk its comment describes.
CONSTANTS
    BlockSize = 3
    MinimalFee = 1
    TxSize = {1, 2, 5}
    TxFee = {2, 4}
    MaxQueue = 4
SPECIFICATION Spec
INVARIANT FeeSkipsOversized
