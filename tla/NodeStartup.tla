---------------------------- MODULE NodeStartup -----------------------------
(***************************************************************************)
(* Start-up of the node's sync and attestation services and the event     *)
(* feeds between them:                                                     *)
(*   src/blockchain/sync/service.go        Start, stateListener,           *)
(*                                         listenIncoming, gossipEvents    *)
(*   src/blockchain/core/attestation/service.go  Start, waitNodeSync,      *)
(*                                         lookForgeError                  *)
(*   src/blockchain/core/attestation/txpool.go   SendRawTx, ReadingLoop    *)
(*                                                                         *)
(* Every goroutine is a process with its own program counter.  A feed     *)
(* (StateFeed, TxFeed) delivers each sent value to every channel that is  *)
(* subscribed when Send is called, and Send returns once every one of     *)
(* them has taken it: a full buffered channel blocks the sender.  A       *)
(* channel unsubscribed during a Send is dropped from it.                  *)
(*                                                                         *)
(* The producers of Initialized, StakePoolInitialized and LocalSynced, the *)
(* block forger that reports ForgeFailed, the gRPC clients and the peers  *)
(* are the environment.  Transactions are not told apart: a channel of     *)
(* them is a count.  What RegisterTx does with one is the TxPool module.  *)
(***************************************************************************)
EXTENDS Naturals, Sequences

CONSTANTS
    Orders,      \* the orders in which the producers send their states
    EarlyEmit,   \* may they send before stateListener has subscribed?
    StateCap,    \* stateCount: buffer of the sync service's state channel
    AttCap,      \* buffer of the attestation service's state channel
    GossipCap,   \* txGossipCount: buffer of the sync service's tx channel
    PoolCap,     \* txProcessLimit: buffer of the pool's ingest channel
    MaxRaw,      \* model bound on SendRawTx calls
    MaxGossip,   \* model bound on transactions received from peers
    MaxFails     \* model bound on ForgeFailed reports

\* the values of state.State this code sends or switches on
Produced == {"Initialized", "StakePoolInitialized", "LocalSynced"}
Event == Produced \cup {"ConnectionHandlersReady", "Synced", "ForgeFailed"}

ASSUME StartupAssumption ==
    /\ Orders \subseteq Seq(Produced)
    /\ EarlyEmit \in BOOLEAN
    /\ StateCap \in Nat \ {0} /\ AttCap \in Nat \ {0}
    /\ GossipCap \in Nat \ {0} /\ PoolCap \in Nat \ {0}
    /\ MaxRaw \in Nat /\ MaxGossip \in Nat /\ MaxFails \in Nat

StSub == {"listener", "att"}       \* sync.stateEvent, attestation stateEvent
StSender == {"start", "env", "forger"}
TxSub == {"gossip", "pool"}        \* sync.txEvent, tp.txEvent
TxSender == {"rpc", "incoming"}    \* SendRawTx, listenIncoming

VARIABLES
    spc,          \* sync Service.Start
    lpc,          \* sync stateListener goroutine
    synced,       \* s.synced
    initialized,  \* s.initialized closed
    stakeSynced,  \* s.stakeSynced closed
    ipc,          \* listenIncoming goroutine started
    gpc,          \* gossipEvents goroutine started
    apc,          \* attestation Service.Start (waitNodeSync)
    fpc,          \* lookForgeError goroutine
    ppc,          \* tp.ReadingLoop goroutine
    forgeFailed,  \* tp.forgeFailed
    stSubs,       \* channels subscribed to StateFeed
    stCh,         \* their contents
    stSend,       \* per sender: channels its Send has still to reach
    stEv,         \* per sender: the value it sends
    txSubs,       \* channels subscribed to TxFeed
    gq, pq,       \* number of transactions in sync.txEvent, tp.txEvent
    txSend,       \* per sender: channels its TxFeed.Send has still to reach
    order, ei,    \* the producers' order and the next state they send
    nraw, ngossip, nfail,   \* environment inputs so far
    unheard       \* transactions published while the pool was not listening

vars == <<spc, lpc, synced, initialized, stakeSynced, ipc, gpc, apc, fpc,
          ppc, forgeFailed, stSubs, stCh, stSend, stEv, txSubs, gq, pq,
          txSend, order, ei, nraw, ngossip, nfail, unheard>>

Cap(c) == IF c = "listener" THEN StateCap ELSE AttCap
TxCap(c) == IF c = "gossip" THEN GossipCap ELSE PoolCap

\* Feed.Send: the value goes to every channel subscribed now
StartSend(p, e) ==
    /\ stSend' = [stSend EXCEPT ![p] = stSubs]
    /\ stEv' = [stEv EXCEPT ![p] = e]

\* sub.Unsubscribe(): the channel leaves the feed and every pending Send
Unsubscribe(c) ==
    /\ stSubs' = stSubs \ {c}
    /\ stSend' = [p \in StSender |-> stSend[p] \ {c}]

\* the state channel c receives its next value
Take(c) == stCh' = [stCh EXCEPT ![c] = Tail(@)]

-----------------------------------------------------------------------------
\* NewService of both services and of the pool: sync subscribes txEvent to
\* TxFeed; the attestation state channel is subscribed to StateFeed by the
\* node's wiring; both Start methods run in goroutines of their own.
Init ==
    /\ spc = "handlers" /\ lpc = "spawned"
    /\ synced = 0 /\ initialized = FALSE /\ stakeSynced = FALSE
    /\ ipc = "none" /\ gpc = "none"
    /\ apc = "wait" /\ fpc = "none" /\ ppc = "none" /\ forgeFailed = 0
    /\ stSubs = {"att"}
    /\ stCh = [c \in StSub |-> <<>>]
    /\ stSend = [p \in StSender |-> {}]
    /\ stEv = [p \in StSender |-> "Synced"]
    /\ txSubs = {"gossip"} /\ gq = 0 /\ pq = 0
    /\ txSend = [p \in TxSender |-> {}]
    /\ order \in Orders /\ ei = 1
    /\ nraw = 0 /\ ngossip = 0 /\ nfail = 0 /\ unheard = 0

startVars == <<spc, synced, ipc, gpc>>
attVars == <<apc, fpc, ppc, forgeFailed>>
txVars == <<txSubs, gq, pq, txSend, unheard>>
envVars == <<order, ei, nraw, ngossip, nfail>>

\* Start: handlers are added, then pushStateEvent(ConnectionHandlersReady)
StartHandlers ==
    /\ spc = "handlers"
    /\ StartSend("start", "ConnectionHandlersReady")
    /\ spc' = "init"
    /\ UNCHANGED <<lpc, synced, initialized, stakeSynced, ipc, gpc, attVars,
                   stSubs, stCh, txVars, envVars>>

\* Start: <-s.initialized returns once it is closed
StartInitClosed ==
    /\ spc = "init" /\ stSend["start"] = {} /\ initialized
    /\ spc' = "stake"
    /\ UNCHANGED <<lpc, synced, initialized, stakeSynced, ipc, gpc, attVars,
                   stSubs, stCh, stSend, stEv, txVars, envVars>>

\* Start: <-s.initialized meets stateListener's s.initialized <- struct{}{}
InitHandoff ==
    /\ spc = "init" /\ stSend["start"] = {} /\ lpc = "sendinit"
    /\ spc' = "stake" /\ lpc' = "loop"
    /\ UNCHANGED <<synced, initialized, stakeSynced, ipc, gpc, attVars,
                   stSubs, stCh, stSend, stEv, txVars, envVars>>

\* Start: <-s.stakeSynced, then go forkWatcher() and go listenIncoming()
StartStake ==
    /\ spc = "stake" /\ stakeSynced
    /\ spc' = "sync" /\ ipc' = "run"
    /\ UNCHANGED <<lpc, synced, initialized, stakeSynced, gpc, attVars,
                   stSubs, stCh, stSend, stEv, txVars, envVars>>

\* Start: SyncWithNetwork (or none), atomic.AddInt32(&s.synced, 1),
\* pushSyncedState
StartSync ==
    /\ spc = "sync"
    /\ synced' = 1
    /\ StartSend("start", "Synced")
    /\ spc' = "synced"
    /\ UNCHANGED <<lpc, initialized, stakeSynced, ipc, gpc, attVars, stSubs,
                   stCh, txVars, envVars>>

\* Start: once the Send returns, go gossipEvents(); Start returns
StartGossip ==
    /\ spc = "synced" /\ stSend["start"] = {}
    /\ spc' = "done" /\ gpc' = "run"
    /\ UNCHANGED <<lpc, synced, initialized, stakeSynced, ipc, attVars,
                   stSubs, stCh, stSend, stEv, txVars, envVars>>

-----------------------------------------------------------------------------
\* stateListener: sub := s.cfg.StateFeed.Subscribe(s.stateEvent)
ListenerSubscribe ==
    /\ lpc = "spawned"
    /\ stSubs' = stSubs \cup {"listener"}
    /\ lpc' = "loop"
    /\ UNCHANGED <<startVars, initialized, stakeSynced, attVars, stCh, stSend,
                   stEv, txVars, envVars>>

\* (mutant) LocalSynced returns without close(s.initialized)
ListenerRecvNoClose ==
    /\ lpc = "loop" /\ stCh["listener"] # <<>>
    /\ LET st == Head(stCh["listener"]) IN
       /\ Take("listener")
       /\ stakeSynced' = (stakeSynced \/ st = "StakePoolInitialized")
       /\ UNCHANGED initialized
       /\ CASE st = "Initialized" ->
                 lpc' = "sendinit" /\ UNCHANGED <<stSubs, stSend>>
            [] st \in {"StakePoolInitialized", "ConnectionHandlersReady",
                       "Synced"} ->
                 lpc' = "loop" /\ UNCHANGED <<stSubs, stSend>>
            [] OTHER -> lpc' = "exit" /\ Unsubscribe("listener")
    /\ UNCHANGED <<startVars, attVars, stEv, txVars, envVars>>

\* stateListener: st := <-s.stateEvent and its switch.  LocalSynced and an
\* unknown state return, and the deferred Unsubscribe runs.
ListenerRecv ==
    /\ lpc = "loop" /\ stCh["listener"] # <<>>
    /\ LET st == Head(stCh["listener"]) IN
       /\ Take("listener")
       /\ stakeSynced' = (stakeSynced \/ st = "StakePoolInitialized")
       /\ initialized' = (initialized \/ st = "LocalSynced")
       /\ CASE st = "Initialized" ->
                 lpc' = "sendinit" /\ UNCHANGED <<stSubs, stSend>>
            [] st \in {"StakePoolInitialized", "ConnectionHandlersReady",
                       "Synced"} ->
                 lpc' = "loop" /\ UNCHANGED <<stSubs, stSend>>
            [] OTHER -> lpc' = "exit" /\ Unsubscribe("listener")
    /\ UNCHANGED <<startVars, attVars, stEv, txVars, envVars>>

-----------------------------------------------------------------------------
\* (mutant) a Send that never waits for room in the channel
DeliverNoRoom(p, c) ==
    /\ c \in stSend[p]
    /\ stCh' = [stCh EXCEPT ![c] = Append(@, stEv[p])]
    /\ stSend' = [stSend EXCEPT ![p] = @ \ {c}]
    /\ UNCHANGED <<startVars, lpc, initialized, stakeSynced, attVars, stSubs,
                   stEv, txVars, envVars>>

\* a pending Send hands its value to one subscribed channel with room
Deliver(p, c) ==
    /\ c \in stSend[p] /\ Len(stCh[c]) < Cap(c)
    /\ stCh' = [stCh EXCEPT ![c] = Append(@, stEv[p])]
    /\ stSend' = [stSend EXCEPT ![p] = @ \ {c}]
    /\ UNCHANGED <<startVars, lpc, initialized, stakeSynced, attVars, stSubs,
                   stEv, txVars, envVars>>

\* a producer outside src/ sends the next state of its order
EnvSend ==
    /\ ei <= Len(order) /\ stSend["env"] = {}
    /\ EarlyEmit \/ lpc # "spawned"
    /\ StartSend("env", order[ei])
    /\ ei' = ei + 1
    /\ UNCHANGED <<startVars, lpc, initialized, stakeSynced, attVars, stSubs,
                   stCh, txVars, order, nraw, ngossip, nfail>>

\* the block forger reports a failed forge after the node has synced
ForgerSend ==
    /\ synced = 1 /\ nfail < MaxFails /\ stSend["forger"] = {}
    /\ StartSend("forger", "ForgeFailed")
    /\ nfail' = nfail + 1
    /\ UNCHANGED <<startVars, lpc, initialized, stakeSynced, attVars, stSubs,
                   stCh, txVars, order, ei, nraw, ngossip>>

-----------------------------------------------------------------------------
\* (mutant) waitNodeSync that returns on the first state it receives
WaitNodeSyncAny ==
    /\ apc = "wait" /\ stCh["att"] # <<>>
    /\ Take("att")
    /\ apc' = "started" /\ fpc' = "loop" /\ ppc' = "spawned"
    /\ UNCHANGED <<startVars, lpc, initialized, stakeSynced, forgeFailed,
                   stSubs, stSend, stEv, txVars, envVars>>

\* waitNodeSync: range s.stateEvent until Synced; then Start runs
\* go s.lookForgeError() and go s.txPool.ReadingLoop()
WaitNodeSync ==
    /\ apc = "wait" /\ stCh["att"] # <<>>
    /\ Take("att")
    /\ IF Head(stCh["att"]) = "Synced"
         THEN apc' = "started" /\ fpc' = "loop" /\ ppc' = "spawned"
         ELSE UNCHANGED <<apc, fpc, ppc>>
    /\ UNCHANGED <<startVars, lpc, initialized, stakeSynced, forgeFailed,
                   stSubs, stSend, stEv, txVars, envVars>>

\* lookForgeError: range s.stateEvent until ForgeFailed, then
\* catchForgeError (atomic store of tp.forgeFailed) and return
LookForgeError ==
    /\ fpc = "loop" /\ stCh["att"] # <<>>
    /\ Take("att")
    /\ IF Head(stCh["att"]) = "ForgeFailed"
         THEN fpc' = "exit" /\ forgeFailed' = 1
         ELSE UNCHANGED <<fpc, forgeFailed>>
    /\ UNCHANGED <<startVars, lpc, initialized, stakeSynced, apc, ppc, stSubs,
                   stSend, stEv, txVars, envVars>>

-----------------------------------------------------------------------------
\* TxFeed.Send: a transaction goes to every channel subscribed now; one the
\* pool is not yet (or no longer) listening on is never registered
StartTxSend(p) ==
    /\ txSend' = [txSend EXCEPT ![p] = txSubs]
    /\ unheard' = unheard + (IF "pool" \notin txSubs /\ ppc # "exit"
                                THEN 1 ELSE 0)

\* a pending TxFeed.Send hands the transaction to one channel with room
TxDeliver(p, c) ==
    /\ c \in txSend[p]
    /\ (IF c = "gossip" THEN gq ELSE pq) < TxCap(c)
    /\ gq' = IF c = "gossip" THEN gq + 1 ELSE gq
    /\ pq' = IF c = "pool" THEN pq + 1 ELSE pq
    /\ txSend' = [txSend EXCEPT ![p] = @ \ {c}]
    /\ UNCHANGED <<startVars, lpc, initialized, stakeSynced, attVars, stSubs,
                   stCh, stSend, stEv, txSubs, unheard, envVars>>

\* SendRawTx: the transaction is well formed, is sent to TxFeed, and the
\* call returns nil.  The health interceptor's "Not ready" rejection
\* (rpc/service.go:125-128) reads a status kept outside src/ and is left out.
SendRawTx ==
    /\ nraw < MaxRaw /\ txSend["rpc"] = {}
    /\ StartTxSend("rpc")
    /\ nraw' = nraw + 1
    /\ UNCHANGED <<startVars, lpc, initialized, stakeSynced, attVars, stSubs,
                   stCh, stSend, stEv, txSubs, gq, pq, order, ei, ngossip,
                   nfail>>

\* listenIncoming: a TxTopic notification; skipped while synced is 0,
\* else TxFeed.Send(types.NewTransaction(tx))
ListenIncoming ==
    /\ ipc = "run" /\ ngossip < MaxGossip /\ txSend["incoming"] = {}
    /\ ngossip' = ngossip + 1
    /\ IF synced = 0 THEN UNCHANGED <<txSend, unheard>>
                     ELSE StartTxSend("incoming")
    /\ UNCHANGED <<startVars, lpc, initialized, stakeSynced, attVars, stSubs,
                   stCh, stSend, stEv, txSubs, gq, pq, order, ei, nraw,
                   nfail>>

\* gossipEvents: td := <-s.txEvent, marshalled and published to peers
GossipEvents ==
    /\ gpc = "run" /\ gq > 0
    /\ gq' = gq - 1
    /\ UNCHANGED <<startVars, lpc, initialized, stakeSynced, attVars, stSubs,
                   stCh, stSend, stEv, txSubs, pq, txSend, unheard, envVars>>

\* ReadingLoop: sub := tp.cfg.TxFeed.Subscribe(tp.txEvent)
PoolSubscribe ==
    /\ ppc = "spawned"
    /\ txSubs' = txSubs \cup {"pool"}
    /\ ppc' = "loop"
    /\ UNCHANGED <<startVars, lpc, initialized, stakeSynced, apc, fpc,
                   forgeFailed, stSubs, stCh, stSend, stEv, gq, pq, txSend,
                   unheard, envVars>>

\* ReadingLoop: td := <-tp.txEvent; with forgeFailed set, clearPool and
\* return (the deferred Unsubscribe runs), else RegisterTx(td)
ReadingLoop ==
    /\ ppc = "loop" /\ pq > 0
    /\ pq' = pq - 1
    /\ IF forgeFailed = 1
         THEN /\ ppc' = "exit"
              /\ txSubs' = txSubs \ {"pool"}
              /\ txSend' = [p \in TxSender |-> txSend[p] \ {"pool"}]
         ELSE UNCHANGED <<ppc, txSubs, txSend>>
    /\ UNCHANGED <<startVars, lpc, initialized, stakeSynced, apc, fpc,
                   forgeFailed, stSubs, stCh, stSend, stEv, gq, unheard,
                   envVars>>

-----------------------------------------------------------------------------
\* the steps of the service goroutines (the environment's are the others)
StartStep ==
    \/ StartHandlers \/ StartInitClosed \/ InitHandoff \/ StartStake
    \/ StartSync \/ StartGossip

Next ==
    \/ StartStep
    \/ ListenerSubscribe \/ ListenerRecv
    \/ \E p \in StSender, c \in StSub : Deliver(p, c)
    \/ EnvSend \/ ForgerSend
    \/ WaitNodeSync \/ LookForgeError
    \/ \E p \in TxSender, c \in TxSub : TxDeliver(p, c)
    \/ SendRawTx \/ ListenIncoming \/ GossipEvents
    \/ PoolSubscribe \/ ReadingLoop

\* The Go scheduler runs every runnable goroutine eventually, and a blocked
\* Send resumes once its channel has room: weak fairness on each of them.
\* The producers of the start-up states are assumed to send them.  Nothing
\* obliges a client, a peer or the forger to send anything.
Fairness ==
    /\ WF_vars(StartStep)
    /\ WF_vars(ListenerSubscribe) /\ WF_vars(ListenerRecv)
    /\ \A p \in StSender, c \in StSub : WF_vars(Deliver(p, c))
    /\ WF_vars(EnvSend)
    /\ WF_vars(WaitNodeSync) /\ WF_vars(LookForgeError)
    /\ \A p \in TxSender, c \in TxSub : WF_vars(TxDeliver(p, c))
    /\ WF_vars(GossipEvents)
    /\ WF_vars(PoolSubscribe) /\ WF_vars(ReadingLoop)

Spec == Init /\ [][Next]_vars /\ Fairness

-----------------------------------------------------------------------------
TypeOK ==
    /\ spc \in {"handlers", "init", "stake", "sync", "synced", "done"}
    /\ lpc \in {"spawned", "loop", "sendinit", "exit"}
    /\ synced \in {0, 1}
    /\ initialized \in BOOLEAN /\ stakeSynced \in BOOLEAN
    /\ ipc \in {"none", "run"} /\ gpc \in {"none", "run"}
    /\ apc \in {"wait", "started"}
    /\ fpc \in {"none", "loop", "exit"}
    /\ ppc \in {"none", "spawned", "loop", "exit"}
    /\ forgeFailed \in {0, 1}
    /\ stSubs \subseteq StSub
    /\ stCh \in [StSub -> Seq(Event)]
    /\ \A c \in StSub : Len(stCh[c]) <= Cap(c)
    /\ stSend \in [StSender -> SUBSET StSub]
    /\ stEv \in [StSender -> Event]
    /\ txSubs \subseteq TxSub
    /\ gq \in 0..GossipCap /\ pq \in 0..PoolCap
    /\ txSend \in [TxSender -> SUBSET TxSub]
    /\ order \in Orders /\ ei \in 1..(Len(order) + 1)
    /\ nraw \in 0..MaxRaw /\ ngossip \in 0..MaxGossip /\ nfail \in 0..MaxFails
    /\ unheard \in Nat

\* The pool's ingest loop runs only once the sync service has synced with
\* the network: waitNodeSync skips every state on the shared channel until
\* the Synced that Start pushes after atomic.AddInt32(&s.synced, 1).
PoolStartsAfterSync == ppc # "none" => synced = 1

\* Both Start methods return: the sync service's Start gets past
\* <-s.initialized and <-s.stakeSynced and pushes Synced, and the
\* attestation service's waitNodeSync sees it and starts the pool.
StartupCompletes == <>(spc = "done" /\ apc = "started")

\* Every transaction SendRawTx accepts (returns nil for) reaches the pool's
\* ingest channel, unless the pool has already stopped.
RawTxReachesPool == unheard = 0

\* Every Send on StateFeed returns: no sender waits forever on a subscribed
\* channel that nobody reads.
StateSendsReturn == \A p \in StSender : stSend[p] # {} ~> stSend[p] = {}

====
