\* A stake is unregistered while a reward transaction is built.
CONSTANTS
    Addr = {A1, A2, A3}
    Writer = {w1}
    Reader = {r1}
    None = None
    SlotsBound = 2
    BlockReward = 10
    MaxLen = 3
    Word <- MCWord
SPECIFICATION Spec
INVARIANTS RewardPaysSnapshot
