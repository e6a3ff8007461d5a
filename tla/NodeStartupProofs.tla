------------------------- MODULE NodeStartupProofs -------------------------
(***************************************************************************)
(* Proofs about the start-up model NodeStartup, for every value of its     *)
(* constants allowed by StartupAssumption: any orders of the producers,    *)
(* any channel capacities and any bounds on the environment's inputs.      *)
(***************************************************************************)
EXTENDS NodeStartup, TLAPS, SequenceTheorems

-----------------------------------------------------------------------------
(* Type correctness.                                                       *)

LEMMA CapType == \A c \in StSub : Cap(c) \in Nat
BY StartupAssumption DEF Cap, StSub

LEMMA TypeInit == Init => TypeOK
<1>. SUFFICES ASSUME Init PROVE TypeOK
  OBVIOUS
<1>1. stCh \in [StSub -> Seq(Event)] /\ \A c \in StSub : Len(stCh[c]) <= Cap(c)
  BY CapType DEF Init
<1>2. order \in Orders /\ ei \in 1..(Len(order) + 1)
  <2>1. order \in Seq(Produced)
    BY StartupAssumption DEF Init
  <2>. QED
    BY <2>1 DEF Init
<1>3. gq \in 0..GossipCap /\ pq \in 0..PoolCap /\ nraw \in 0..MaxRaw
      /\ ngossip \in 0..MaxGossip /\ nfail \in 0..MaxFails /\ unheard \in Nat
  BY StartupAssumption DEF Init
<1>4. stSend \in [StSender -> SUBSET StSub] /\ stEv \in [StSender -> Event]
      /\ txSend \in [TxSender -> SUBSET TxSub]
  BY DEF Init, Event
<1>. QED
  BY <1>1, <1>2, <1>3, <1>4 DEF Init, TypeOK, StSub, TxSub

\* Taking the head of a non-empty channel leaves a channel of states of
\* the same capacity.
LEMMA TakeType ==
    ASSUME TypeOK, NEW c \in StSub, stCh[c] # <<>>,
           stCh' = [stCh EXCEPT ![c] = Tail(@)]
    PROVE  /\ stCh' \in [StSub -> Seq(Event)]
           /\ \A d \in StSub : Len(stCh'[d]) <= Cap(d)
           /\ Head(stCh[c]) \in Event
<1>1. stCh[c] \in Seq(Event) /\ Len(stCh[c]) <= Cap(c) /\ Cap(c) \in Nat
  BY CapType DEF TypeOK
<1>2. /\ Head(stCh[c]) \in Event
      /\ Tail(stCh[c]) \in Seq(Event)
      /\ Len(Tail(stCh[c])) = Len(stCh[c]) - 1
  BY <1>1, HeadTailProperties
<1>3. Len(stCh[c]) \in Nat
  BY <1>1, LenProperties
<1>. QED
  BY <1>1, <1>2, <1>3 DEF TypeOK

\* Handing a state to a channel with room keeps it within its capacity.
LEMMA DeliverType ==
    ASSUME TypeOK, NEW p \in StSender, NEW c \in StSub, Deliver(p, c)
    PROVE  TypeOK'
<1>1. stCh[c] \in Seq(Event) /\ stEv[p] \in Event /\ Len(stCh[c]) < Cap(c)
  BY DEF TypeOK, Deliver
<1>2. Append(stCh[c], stEv[p]) \in Seq(Event)
      /\ Len(Append(stCh[c], stEv[p])) = Len(stCh[c]) + 1
  BY <1>1, AppendProperties
<1>3. Len(stCh[c]) \in Nat /\ Cap(c) \in Nat
  BY <1>1, LenProperties, CapType
<1>4. stCh' \in [StSub -> Seq(Event)] /\ \A d \in StSub : Len(stCh'[d]) <= Cap(d)
  BY <1>1, <1>2, <1>3 DEF TypeOK, Deliver
<1>5. stSend' \in [StSender -> SUBSET StSub]
  BY DEF TypeOK, Deliver
<1>. QED
  BY <1>4, <1>5 DEF TypeOK, Deliver, startVars, attVars, txVars, envVars

LEMMA TypeStep == TypeOK /\ [Next]_vars => TypeOK'
<1>. SUFFICES ASSUME TypeOK, [Next]_vars PROVE TypeOK'
  OBVIOUS
<1>. USE StartupAssumption
<1>1. CASE StartHandlers
  BY <1>1, SMTT(30) DEF StartHandlers, StartSend, StSender, TypeOK, Event,
     Produced, attVars, txVars, envVars
<1>2. CASE StartSync
  BY <1>2, SMTT(30) DEF StartSync, StartSend, StSender, TypeOK, Event,
     Produced, attVars, txVars, envVars
<1>13. CASE StartInitClosed
  BY <1>13, SMTT(30) DEF StartInitClosed, TypeOK, attVars, txVars, envVars
<1>14. CASE InitHandoff
  BY <1>14, SMTT(30) DEF InitHandoff, TypeOK, attVars, txVars, envVars
<1>15. CASE StartStake
  BY <1>15, SMTT(30) DEF StartStake, TypeOK, attVars, txVars, envVars
<1>16. CASE StartGossip
  BY <1>16, SMTT(30) DEF StartGossip, TypeOK, attVars, txVars, envVars
<1>3. CASE ListenerSubscribe
  BY <1>3 DEF ListenerSubscribe, TypeOK, StSub, startVars, attVars, txVars,
     envVars
<1>4. CASE ListenerRecv
  <2>1. stCh["listener"] # <<>> /\ Take("listener")
    BY <1>4 DEF ListenerRecv
  <2>2. /\ stCh' \in [StSub -> Seq(Event)]
        /\ \A d \in StSub : Len(stCh'[d]) <= Cap(d)
    BY <2>1, TakeType DEF Take, StSub
  <2>3. /\ stSubs' \subseteq StSub
        /\ stSend' \in [StSender -> SUBSET StSub]
        /\ lpc' \in {"spawned", "loop", "sendinit", "exit"}
    BY <1>4 DEF ListenerRecv, Unsubscribe, TypeOK
  <2>4. stakeSynced' \in BOOLEAN /\ initialized' \in BOOLEAN
    BY <1>4 DEF ListenerRecv, TypeOK
  <2>5. UNCHANGED <<startVars, attVars, stEv, txVars, envVars>>
    BY <1>4 DEF ListenerRecv
  <2>. QED
    BY <2>2, <2>3, <2>4, <2>5, SMTT(30) DEF TypeOK, startVars, attVars,
       txVars, envVars
<1>5. ASSUME NEW p \in StSender, NEW c \in StSub, Deliver(p, c) PROVE TypeOK'
  BY <1>5, DeliverType
<1>6. CASE EnvSend
  <2>1. order \in Seq(Produced) /\ ei \in 1..Len(order) /\ Len(order) \in Nat
    BY <1>6, LenProperties DEF EnvSend, TypeOK
  <2>2. order[ei] \in Event
    BY <2>1 DEF Event
  <2>3. stEv' \in [StSender -> Event] /\ stSend' \in [StSender -> SUBSET StSub]
    BY <1>6, <2>2 DEF EnvSend, StartSend, TypeOK
  <2>4. order' \in Orders /\ ei' \in 1..(Len(order') + 1)
    BY <1>6, <2>1 DEF EnvSend, TypeOK
  <2>. QED
    BY <1>6, <2>3, <2>4 DEF EnvSend, TypeOK, startVars, attVars, txVars
<1>7. CASE ForgerSend
  BY <1>7, SMTT(30) DEF ForgerSend, StartSend, StSender, TypeOK, Event,
     startVars, attVars, txVars
<1>8. CASE WaitNodeSync \/ LookForgeError
  <2>1. \E c \in StSub : stCh[c] # <<>> /\ stCh' = [stCh EXCEPT ![c] = Tail(@)]
    BY <1>8 DEF WaitNodeSync, LookForgeError, Take, StSub
  <2>2. /\ stCh' \in [StSub -> Seq(Event)]
        /\ \A d \in StSub : Len(stCh'[d]) <= Cap(d)
    BY <2>1, TakeType
  <2>3. CASE WaitNodeSync
    BY <1>8, <2>2, <2>3, SMTT(30) DEF WaitNodeSync, TypeOK, startVars,
       txVars, envVars
  <2>4. CASE LookForgeError
    BY <1>8, <2>2, <2>4, SMTT(30) DEF LookForgeError, TypeOK, startVars,
       txVars, envVars
  <2>. QED
    BY <1>8, <2>3, <2>4
<1>9. ASSUME NEW p \in TxSender, NEW c \in TxSub, TxDeliver(p, c)
      PROVE TypeOK'
  <2>1. txSend' \in [TxSender -> SUBSET TxSub]
    BY <1>9 DEF TxDeliver, TypeOK
  <2>2. gq' \in 0..GossipCap /\ pq' \in 0..PoolCap
    BY <1>9 DEF TxDeliver, TxCap, TypeOK, TxSub
  <2>3. UNCHANGED <<startVars, lpc, initialized, stakeSynced, attVars, stSubs,
                    stCh, stSend, stEv, txSubs, unheard, envVars>>
    BY <1>9 DEF TxDeliver
  <2>. QED
    BY <2>1, <2>2, <2>3, SMTT(30) DEF TypeOK, startVars, attVars, envVars
<1>10. CASE SendRawTx
  BY <1>10, SMTT(30) DEF SendRawTx, StartTxSend, TxSender, TypeOK,
     startVars, attVars
<1>17. CASE ListenIncoming
  BY <1>17, SMTT(30) DEF ListenIncoming, StartTxSend, TxSender, TypeOK,
     startVars, attVars
<1>11. CASE GossipEvents
  BY <1>11, SMTT(30) DEF GossipEvents, TypeOK, startVars, attVars, envVars
<1>18. CASE PoolSubscribe
  BY <1>18, SMTT(30) DEF PoolSubscribe, TypeOK, TxSub, startVars, envVars
<1>19. CASE ReadingLoop
  <2>1. /\ ppc' \in {"none", "spawned", "loop", "exit"}
        /\ txSubs' \subseteq TxSub
        /\ txSend' \in [TxSender -> SUBSET TxSub]
        /\ pq' \in 0..PoolCap
    BY <1>19 DEF ReadingLoop, TypeOK
  <2>2. UNCHANGED <<startVars, lpc, initialized, stakeSynced, apc, fpc,
                    forgeFailed, stSubs, stCh, stSend, stEv, gq, unheard,
                    envVars>>
    BY <1>19 DEF ReadingLoop
  <2>. QED
    BY <2>1, <2>2, SMTT(30) DEF TypeOK, startVars, envVars
<1>12. CASE UNCHANGED vars
  BY <1>12 DEF vars, TypeOK
<1>. QED
  BY <1>1, <1>2, <1>3, <1>4, <1>5, <1>6, <1>7, <1>8, <1>9, <1>10, <1>11,
     <1>12, <1>13, <1>14, <1>15, <1>16, <1>17, <1>18, <1>19
     DEF Next, StartStep

\* Every reachable state of the start-up model is well typed; in particular
\* no state channel ever holds more than its buffer, whatever the orders.
THEOREM NodeTypeCorrect == Spec => []TypeOK
BY TypeInit, TypeStep, PTL DEF Spec

-----------------------------------------------------------------------------
(* The pool starts only after the sync service has synced.                 *)
(*                                                                         *)
(* PoolStartsAfterSync is not inductive by itself: waitNodeSync starts the *)
(* pool on any Synced it takes from its channel, so the proof needs that   *)
(* no Synced is in that channel, or pending in a Send, while s.synced is   *)
(* still 0.  Only Start sends Synced, and it sets s.synced first.          *)

NoSyncedInFlight ==
    synced = 0 =>
      /\ \A i \in 1..Len(stCh["att"]) : stCh["att"][i] # "Synced"
      /\ \A p \in StSender : stSend[p] # {} => stEv[p] # "Synced"

IInv == TypeOK /\ NoSyncedInFlight /\ PoolStartsAfterSync

LEMMA IInvInit == Init => IInv
<1>1. Init => NoSyncedInFlight /\ PoolStartsAfterSync
  BY DEF Init, NoSyncedInFlight, PoolStartsAfterSync, StSub, StSender
<1>. QED
  BY <1>1, TypeInit DEF IInv

\* A channel that loses its head, or gains a state other than Synced,
\* still holds no Synced.
LEMMA TailNoSynced ==
    ASSUME NEW s \in Seq(Event), s # <<>>,
           \A i \in 1..Len(s) : s[i] # "Synced"
    PROVE  \A i \in 1..Len(Tail(s)) : Tail(s)[i] # "Synced"
BY HeadTailProperties

LEMMA AppendNoSynced ==
    ASSUME NEW s \in Seq(Event), NEW e \in Event, e # "Synced",
           \A i \in 1..Len(s) : s[i] # "Synced"
    PROVE  \A i \in 1..Len(Append(s, e)) : Append(s, e)[i] # "Synced"
BY AppendProperties

LEMMA IInvStep == IInv /\ [Next]_vars => IInv'
<1>. SUFFICES ASSUME IInv, [Next]_vars PROVE IInv'
  OBVIOUS
<1>1. TypeOK'
  BY TypeStep DEF IInv
<1>. SUFFICES NoSyncedInFlight' /\ PoolStartsAfterSync'
  BY <1>1 DEF IInv
<1>. USE DEF IInv
<1>2. CASE StartHandlers \/ StartSync
  BY <1>2 DEF StartHandlers, StartSync, StartSend, TypeOK, StSender,
     NoSyncedInFlight, PoolStartsAfterSync, attVars
<1>3. CASE StartInitClosed \/ InitHandoff \/ StartStake \/ StartGossip
  BY <1>3 DEF StartInitClosed, InitHandoff, StartStake, StartGossip,
     NoSyncedInFlight, PoolStartsAfterSync, attVars
<1>4. CASE ListenerSubscribe \/ ListenerRecv
  <2>1. UNCHANGED <<synced, ppc, stEv>> /\ stCh'["att"] = stCh["att"]
        /\ \A p \in StSender : stSend'[p] \subseteq stSend[p]
    BY <1>4 DEF ListenerSubscribe, ListenerRecv, Take, Unsubscribe, TypeOK,
       StSub, startVars, attVars
  <2>. QED
    BY <2>1 DEF NoSyncedInFlight, PoolStartsAfterSync
<1>5. ASSUME NEW p \in StSender, NEW c \in StSub, Deliver(p, c)
      PROVE NoSyncedInFlight' /\ PoolStartsAfterSync'
  <2>1. UNCHANGED <<synced, ppc, stEv>>
        /\ \A q \in StSender : stSend'[q] \subseteq stSend[q]
    BY <1>5 DEF Deliver, TypeOK, startVars, attVars
  <2>2. CASE c = "att" /\ synced = 0
    <3>1. stSend[p] # {} /\ stEv[p] \in Event /\ stCh["att"] \in Seq(Event)
      BY <1>5, <2>2 DEF Deliver, TypeOK, StSub
    <3>2. /\ stEv[p] # "Synced"
          /\ \A i \in 1..Len(stCh["att"]) : stCh["att"][i] # "Synced"
      BY <3>1, <2>2 DEF NoSyncedInFlight
    <3>3. stCh'["att"] = Append(stCh["att"], stEv[p])
      BY <1>5, <2>2 DEF Deliver, TypeOK, StSub
    <3>4. \A i \in 1..Len(stCh'["att"]) : stCh'["att"][i] # "Synced"
      BY <3>1, <3>2, <3>3, AppendNoSynced
    <3>. QED
      BY <2>1, <2>2, <3>4 DEF NoSyncedInFlight, PoolStartsAfterSync
  <2>3. CASE c # "att" \/ synced = 1
    <3>1. synced = 0 => stCh'["att"] = stCh["att"]
      BY <1>5, <2>3 DEF Deliver, TypeOK, StSub
    <3>. QED
      BY <2>1, <3>1 DEF NoSyncedInFlight, PoolStartsAfterSync
  <2>. QED
    BY <2>2, <2>3 DEF TypeOK
<1>6. CASE EnvSend
  <2>1. order[ei] # "Synced"
    <3>1. order \in Seq(Produced) /\ ei \in 1..Len(order)
      BY <1>6, StartupAssumption DEF EnvSend, TypeOK
    <3>. QED
      BY <3>1 DEF Produced
  <2>. QED
    BY <1>6, <2>1 DEF EnvSend, StartSend, TypeOK, NoSyncedInFlight,
       PoolStartsAfterSync, attVars, startVars
<1>7. CASE ForgerSend
  BY <1>7 DEF ForgerSend, NoSyncedInFlight, PoolStartsAfterSync, startVars
<1>8. CASE WaitNodeSync \/ LookForgeError
  <2>1. stCh["att"] # <<>> /\ stCh["att"] \in Seq(Event)
        /\ stCh'["att"] = Tail(stCh["att"])
    BY <1>8 DEF WaitNodeSync, LookForgeError, Take, TypeOK, StSub
  <2>2. UNCHANGED <<synced, stSend, stEv>>
    BY <1>8 DEF WaitNodeSync, LookForgeError, startVars
  <2>3. synced = 0 => \A i \in 1..Len(stCh'["att"]) : stCh'["att"][i] # "Synced"
    BY <2>1, TailNoSynced DEF NoSyncedInFlight
  <2>4. synced = 0 => Head(stCh["att"]) # "Synced"
    BY <2>1 DEF NoSyncedInFlight
  <2>5. PoolStartsAfterSync'
    BY <1>8, <2>2, <2>4 DEF WaitNodeSync, LookForgeError, PoolStartsAfterSync,
       TypeOK
  <2>. QED
    BY <2>2, <2>3, <2>5 DEF NoSyncedInFlight
<1>9. CASE \/ \E p \in TxSender, c \in TxSub : TxDeliver(p, c)
           \/ SendRawTx \/ ListenIncoming \/ GossipEvents \/ PoolSubscribe
  BY <1>9 DEF TxDeliver, SendRawTx, ListenIncoming, GossipEvents,
     PoolSubscribe, StartTxSend, NoSyncedInFlight, PoolStartsAfterSync,
     startVars, attVars
<1>10. CASE ReadingLoop
  BY <1>10 DEF ReadingLoop, NoSyncedInFlight, PoolStartsAfterSync, startVars
<1>11. CASE UNCHANGED vars
  BY <1>11 DEF vars, NoSyncedInFlight, PoolStartsAfterSync
<1>. QED
  BY <1>2, <1>3, <1>4, <1>5, <1>6, <1>7, <1>8, <1>9, <1>10, <1>11
     DEF Next, StartStep

\* The transaction pool's ReadingLoop is never started before the sync
\* service has set s.synced: attestation's waitNodeSync only returns on the
\* Synced state that Start pushes after atomic.AddInt32(&s.synced, 1).
THEOREM PoolAfterSync == Spec => []PoolStartsAfterSync
<1>1. IInv => PoolStartsAfterSync
  BY DEF IInv
<1>. QED
  BY IInvInit, IInvStep, <1>1, PTL DEF Spec

====
