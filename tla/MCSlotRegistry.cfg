\* One writer (the block processor) and one reward builder.
CONSTANTS
    Addr = {A1, A2, A3}
    Writer = {w1}
    Reader = {r1}
    None = None
    SlotsBound = 3
    BlockReward = 10
    MaxLen = 4
    Word <- MCWord
SPECIFICATION Spec
INVARIANTS TypeOK SlotsBounded
PROPERTY AbsSpec
