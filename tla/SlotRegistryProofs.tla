------------------------- MODULE SlotRegistryProofs -------------------------
(***************************************************************************)
(* Proofs about the slot registry model SlotRegistry.                      *)
(***************************************************************************)
EXTENDS SlotRegistry, TLAPS, SequenceTheorems

\* The part of the state the slot bound depends on.
LenType == len \in 0..MaxLen /\ wpc \in [Writer -> {"idle", "append"}]

\* RegisterStake's uint64 free-slot count is the true difference while the
\* registry is within its bound: it is 0 exactly when the slots are full.
LEMMA EmptySlotsExact ==
    ASSUME len \in 0..SlotsBound
    PROVE  EmptySlots = SlotsBound - len
<1>1. SlotsBound + Word - len \in Word..(Word + SlotsBound)
  BY RegistryAssumption
<1>2. SlotsBound - len \in 0..(Word - 1)
  BY RegistryAssumption
<1>. QED
  BY <1>1, <1>2, RegistryAssumption DEF EmptySlots

\* With one thread calling RegisterStake and UnregisterStake, a writer that
\* passed the free-slot check still has a free slot when it appends.
BoundInv ==
    /\ LenType
    /\ len <= SlotsBound
    /\ \A w \in Writer : wpc[w] = "append" => len < SlotsBound

\* One step of a lone writer keeps a free slot for its pending append.
LEMMA BoundInvStep ==
    ASSUME NEW w0, Writer = {w0}
    PROVE  BoundInv /\ [Next]_vars => BoundInv'
<1>. SUFFICES ASSUME BoundInv, [Next]_vars PROVE BoundInv'
  OBVIOUS
<1>. USE DEF BoundInv, LenType
<1>1. ASSUME NEW a \in Addr, RegisterCheck(w0, a) PROVE BoundInv'
  <2>1. EmptySlots = SlotsBound - len
    BY EmptySlotsExact, RegistryAssumption
  <2>2. len < SlotsBound
    BY <1>1, <2>1, RegistryAssumption DEF RegisterCheck
  <2>. QED
    BY <1>1, <2>2 DEF RegisterCheck
<1>2. CASE RegisterAppend(w0)
  BY <1>2, RegistryAssumption DEF RegisterAppend
<1>3. ASSUME NEW a \in Addr, UnregisterStake(w0, a) PROVE BoundInv'
  <2>1. len >= 1 /\ len' = len - 1 /\ UNCHANGED wpc
    BY <1>3 DEF UnregisterStake
  <2>. QED
    BY <2>1, RegistryAssumption
<1>4. ASSUME NEW r \in Reader,
             RewardStart(r) \/ RewardStep(r) \/ RewardEnd(r)
      PROVE  BoundInv'
  BY <1>4 DEF RewardStart, RewardStep, RewardEnd
<1>5. CASE UNCHANGED vars
  BY <1>5 DEF vars
<1>. QED
  BY <1>1, <1>2, <1>3, <1>4, <1>5 DEF Next

\* Spec 8 (property 6) when stakes are registered and unregistered by one
\* thread, as LoadSlots and block processing do: the slot list never
\* exceeds the bound, while reward transactions are built concurrently.
\* With two registering threads TLC refutes it (run registry_two_writers).
THEOREM SlotsBoundedOneWriter ==
    ASSUME NEW w0, Writer = {w0}
    PROVE  Spec => []SlotsBounded
<1>1. Init => BoundInv
  BY RegistryAssumption DEF Init, BoundInv, LenType
<1>2. BoundInv /\ [Next]_vars => BoundInv'
  BY BoundInvStep
<1>3. BoundInv => SlotsBounded
  BY DEF BoundInv, SlotsBounded
<1>. QED
  BY <1>1, <1>2, <1>3, PTL DEF Spec

-----------------------------------------------------------------------------
(* Type correctness, for any number of writers and readers.                *)

\* The reward share BlockReward / len of a non-empty registry.
LEMMA DivNat ==
    ASSUME NEW x \in Nat, NEW y \in Nat \ {0}
    PROVE  x \div y \in Nat
BY SMT

\* TypeOK is not inductive alone: RewardStep indexes the frozen array, so
\* a reader's index starts at 1 and a frozen array has the length it read.
TypeInv ==
    /\ TypeOK
    /\ \A r \in Reader :
          /\ rk[r] >= 1
          /\ rview[r] # <<>> => Len(rview[r]) = rn[r]

LEMMA TypeInvInit == Init => TypeInv
<1>. SUFFICES ASSUME Init PROVE TypeInv
  OBVIOUS
<1>1. PICK n \in 0..SlotsBound, s \in [1..SlotsBound -> Addr] :
          /\ len = n
          /\ buf = [k \in 1..MaxLen |-> IF k <= n THEN s[k] ELSE None]
  BY DEF Init
<1>2. buf \in [1..MaxLen -> Cell] /\ len \in 0..MaxLen
  BY <1>1, RegistryAssumption DEF Cell
<1>. QED
  BY <1>2, RegistryAssumption DEF Init, TypeInv, TypeOK, Cell

LEMMA TypeInvStep == TypeInv /\ [Next]_vars => TypeInv'
<1>. SUFFICES ASSUME TypeInv, [Next]_vars PROVE TypeInv'
  OBVIOUS
<1>. USE RegistryAssumption DEF TypeInv, TypeOK
<1>1. ASSUME NEW w \in Writer, NEW a \in Addr, RegisterCheck(w, a)
      PROVE TypeInv'
  BY <1>1 DEF RegisterCheck, Cell, readerVars
<1>2. ASSUME NEW w \in Writer, RegisterAppend(w) PROVE TypeInv'
  <2>1. len < MaxLen /\ len' = len + 1 /\ waddr[w] \in Cell
    BY <1>2 DEF RegisterAppend
  <2>2. buf' \in [1..MaxLen -> Cell] /\ len' \in 0..MaxLen
    BY <1>2, <2>1 DEF RegisterAppend
  <2>3. \A r \in Reader :
          \A m \in 0..MaxLen : [k \in 1..m |-> buf[k]] \in Seq(Cell)
                               /\ Len([k \in 1..m |-> buf[k]]) = m
    OBVIOUS
  <2>4. wpc' \in [Writer -> {"idle", "append"}] /\ waddr' \in [Writer -> Cell]
    BY <1>2 DEF RegisterAppend, Cell
  <2>5. CASE len < cap
    BY <1>2, <2>2, <2>4, <2>5 DEF RegisterAppend
  <2>6. CASE ~(len < cap)
    <3>1. /\ rview' = [r \in Reader |->
                         IF rpc[r] = "read" /\ rview[r] = <<>>
                           THEN [k \in 1..rn[r] |-> buf[k]]
                           ELSE rview[r]]
          /\ cap' = 2 * cap
      BY <1>2, <2>6 DEF RegisterAppend
    <3>2. /\ rview' \in [Reader -> Seq(Cell)]
          /\ \A r \in Reader : rview'[r] # <<>> => Len(rview'[r]) = rn[r]
      BY <3>1, <2>3
    <3>. QED
      BY <1>2, <2>2, <2>4, <3>1, <3>2 DEF RegisterAppend
  <2>. QED
    BY <2>5, <2>6
<1>3. ASSUME NEW w \in Writer, NEW a \in Addr, UnregisterStake(w, a)
      PROVE TypeInv'
  <2>1. len >= 1
    BY <1>3 DEF UnregisterStake
  <2>2. buf' \in [1..MaxLen -> Cell]
    BY <1>3 DEF UnregisterStake
  <2>. QED
    BY <1>3, <2>1, <2>2 DEF UnregisterStake, readerVars
<1>4. ASSUME NEW r \in Reader, RewardStart(r) PROVE TypeInv'
  <2>1. Slots \in Seq(Cell)
    BY DEF Slots
  <2>2. (IF len = 0 THEN 0 ELSE BlockReward \div len) \in Nat
    <3>1. CASE len = 0
      BY <3>1
    <3>2. CASE len # 0
      <4>1. len \in Nat \ {0} /\ BlockReward \in Nat
        BY <3>2
      <4>. QED
        BY <3>2, <4>1, DivNat
    <3>. QED
      BY <3>1, <3>2
  <2>. QED
    BY <1>4, <2>1, <2>2 DEF RewardStart
<1>5. ASSUME NEW r \in Reader, RewardStep(r) PROVE TypeInv'
  <2>1. rk[r] \in 1..rn[r] /\ rn[r] \in 0..MaxLen
    BY <1>5 DEF RewardStep
  <2>2. (IF rview[r] = <<>> THEN buf[rk[r]] ELSE rview[r][rk[r]]) \in Cell
    BY <2>1
  <2>3. Append(routs[r], IF rview[r] = <<>> THEN buf[rk[r]]
                                           ELSE rview[r][rk[r]])
          \in Seq(Cell)
    BY <2>2, AppendProperties
  <2>4. /\ routs' = [routs EXCEPT ![r] = Append(routs[r],
                        IF rview[r] = <<>> THEN buf[rk[r]] ELSE rview[r][rk[r]])]
        /\ rk' = [rk EXCEPT ![r] = rk[r] + 1]
        /\ UNCHANGED <<buf, len, cap, wpc, waddr, rpc, rn, rview, rpay, rsnap>>
    BY <1>5 DEF RewardStep
  <2>5. routs' \in [Reader -> Seq(Cell)]
    BY <2>3, <2>4 DEF TypeOK
  <2>6. rk' \in [Reader -> Nat] /\ \A q \in Reader : rk'[q] >= 1
    BY <2>1, <2>4 DEF TypeOK
  <2>7. \A q \in Reader : rview'[q] # <<>> => Len(rview'[q]) = rn'[q]
    BY <2>4
  <2>. QED
    BY <2>4, <2>5, <2>6, <2>7 DEF TypeOK
<1>6. ASSUME NEW r \in Reader, RewardEnd(r) PROVE TypeInv'
  BY <1>6 DEF RewardEnd
<1>7. CASE UNCHANGED vars
  BY <1>7 DEF vars
<1>. QED
  BY <1>1, <1>2, <1>3, <1>4, <1>5, <1>6, <1>7 DEF Next

\* Every reachable registry state is well typed, whatever the number of
\* threads registering stakes and building reward transactions: in
\* particular no append writes outside the array and no reward output is
\* read past the end of the slice it kept.
THEOREM RegistryTypeCorrect == Spec => []TypeOK
<1>1. TypeInv => TypeOK
  BY DEF TypeInv
<1>. QED
  BY TypeInvInit, TypeInvStep, <1>1, PTL DEF Spec

-----------------------------------------------------------------------------
(* Refinement: with one writer the registry implements SlotSet.            *)

\* The cells of the live slice hold staker addresses, and so does the
\* address a writer is about to append.
SlotsAddr ==
    /\ \A k \in 1..len : buf[k] \in Addr
    /\ \A w \in Writer : wpc[w] = "append" => waddr[w] \in Addr

RefInv == TypeInv /\ BoundInv /\ SlotsAddr

\* Slots, the refinement mapping, is a list of addresses of length len.
LEMMA SlotsIsList ==
    ASSUME len \in Nat, \A k \in 1..len : buf[k] \in Addr
    PROVE  Slots \in Seq(Addr) /\ Len(Slots) = len
BY DEF Slots

LEMMA RefInvInit == Init => RefInv
<1>. SUFFICES ASSUME Init PROVE RefInv
  OBVIOUS
<1>1. PICK n \in 0..SlotsBound, s \in [1..SlotsBound -> Addr] :
          /\ len = n
          /\ buf = [k \in 1..MaxLen |-> IF k <= n THEN s[k] ELSE None]
  BY DEF Init
<1>2. SlotsAddr
  BY <1>1, RegistryAssumption DEF Init, SlotsAddr
<1>3. BoundInv
  BY <1>1, RegistryAssumption DEF Init, BoundInv, LenType
<1>. QED
  BY <1>2, <1>3, TypeInvInit DEF RefInv

LEMMA RefInvStep ==
    ASSUME NEW w0, Writer = {w0}
    PROVE  RefInv /\ [Next]_vars => RefInv'
<1>. SUFFICES ASSUME RefInv, [Next]_vars PROVE RefInv'
  OBVIOUS
<1>1. TypeInv' /\ BoundInv'
  BY BoundInvStep, TypeInvStep DEF RefInv
<1>. SUFFICES SlotsAddr'
  BY <1>1 DEF RefInv
<1>. USE RegistryAssumption DEF RefInv, TypeInv, TypeOK, SlotsAddr
<1>2. ASSUME NEW a \in Addr, RegisterCheck(w0, a) PROVE SlotsAddr'
  BY <1>2 DEF RegisterCheck
<1>3. CASE RegisterAppend(w0)
  <2>1. /\ wpc[w0] = "append" /\ len < MaxLen /\ len' = len + 1
        /\ buf' = [buf EXCEPT ![len + 1] = waddr[w0]]
        /\ wpc' = [wpc EXCEPT ![w0] = "idle"]
    BY <1>3 DEF RegisterAppend
  <2>2. \A k \in 1..len' : buf'[k] \in Addr
    BY <2>1
  <2>3. \A w \in Writer : wpc'[w] # "append"
    BY <2>1
  <2>. QED
    BY <2>2, <2>3
<1>4. ASSUME NEW a \in Addr, UnregisterStake(w0, a) PROVE SlotsAddr'
  BY <1>4 DEF UnregisterStake
<1>5. ASSUME NEW r \in Reader,
             RewardStart(r) \/ RewardStep(r) \/ RewardEnd(r)
      PROVE  SlotsAddr'
  BY <1>5 DEF RewardStart, RewardStep, RewardEnd
<1>6. CASE UNCHANGED vars
  BY <1>6 DEF vars
<1>. QED
  BY <1>2, <1>3, <1>4, <1>5, <1>6 DEF Next

\* Spec 3 and 8 with one thread registering and unregistering stakes: the
\* registry implements the atomic slot list SlotSet under the mapping
\* Slots (the first len cells of the backing array).  RegisterStake's
\* check and append are one Register step, UnregisterStake's shift is the
\* removal of the first matching slot, and readers never change the list.
\* With two writers TLC refutes it (the bound of Register fails).
THEOREM RegistryRefinesSlotSet ==
    ASSUME NEW w0, Writer = {w0}
    PROVE  Spec => AbsSpec
<1>1. Init => Abs!Init
  BY RefInvInit, SlotsIsList DEF RefInv, TypeInv, TypeOK, BoundInv,
     SlotsAddr, Abs!Init
<1>2. RefInv /\ [Next]_vars => [Abs!Next]_Slots
  <2>. SUFFICES ASSUME RefInv, [Next]_vars PROVE [Abs!Next]_Slots
    OBVIOUS
  <2>. USE RegistryAssumption DEF RefInv, TypeInv, TypeOK, SlotsAddr,
           BoundInv, LenType
  <2>1. Slots \in Seq(Addr) /\ Len(Slots) = len
    BY SlotsIsList
  <2>2. CASE RegisterAppend(w0)
    <3>1. len < SlotsBound /\ waddr[w0] \in Addr /\ len' = len + 1
          /\ buf' = [buf EXCEPT ![len + 1] = waddr[w0]]
      BY <2>2 DEF RegisterAppend
    <3>2. Slots' = Append(Slots, waddr[w0])
      BY <3>1 DEF Slots
    <3>. QED
      BY <2>1, <3>1, <3>2 DEF Abs!Next, Abs!Register
  <2>3. ASSUME NEW a \in Addr, UnregisterStake(w0, a)
        PROVE  [Abs!Next]_Slots
    <3>1. PICK i \in 1..len :
              /\ buf[i] = a
              /\ \A j \in 1..(i - 1) : buf[j] # a
              /\ buf' = [k \in 1..MaxLen |-> IF i <= k /\ k < len
                                               THEN buf[k + 1] ELSE buf[k]]
      BY <2>3 DEF UnregisterStake
    <3>2. len' = len - 1
      BY <2>3 DEF UnregisterStake
    <3>3. Slots' = Abs!RemoveIndex(Slots, i)
      BY <2>1, <3>1, <3>2 DEF Slots, Abs!RemoveIndex
    <3>4. /\ Slots[i] = a
          /\ \A j \in 1..(i - 1) : Slots[j] # a
      BY <3>1 DEF Slots
    <3>. QED
      BY <2>1, <3>3, <3>4 DEF Abs!Next, Abs!Unregister
  <2>4. ASSUME NEW w \in Writer, NEW a \in Addr, RegisterCheck(w, a)
        PROVE  UNCHANGED Slots
    BY <2>4 DEF RegisterCheck, Slots
  <2>5. ASSUME NEW r \in Reader,
               RewardStart(r) \/ RewardStep(r) \/ RewardEnd(r)
        PROVE  UNCHANGED Slots
    BY <2>5 DEF RewardStart, RewardStep, RewardEnd, Slots
  <2>6. CASE UNCHANGED vars
    BY <2>6 DEF vars, Slots
  <2>. QED
    BY <2>2, <2>3, <2>4, <2>5, <2>6 DEF Next
<1>3. Spec => []RefInv
  BY RefInvInit, RefInvStep, PTL DEF Spec
<1>. QED
  BY <1>1, <1>2, <1>3, PTL DEF Spec, AbsSpec, Abs!Spec

=============================================================================
