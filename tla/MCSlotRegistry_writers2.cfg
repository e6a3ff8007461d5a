\* Two threads register stakes at once.
CONSTANTS
    Addr = {A1, A2, A3}
    Writer = {w1, w2}
    Reader = {r1}
    None = None
    SlotsBound = 2
    BlockReward = 10
    MaxLen = 3
    Word <- MCWord
SPECIFICATION Spec
INVARIANTS SlotsBounded
