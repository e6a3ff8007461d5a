--------------------------- MODULE MCNodeStartup ----------------------------
(***************************************************************************)
(* Orders of the start-up states for checking NodeStartup with TLC.       *)
(* Initialized may be sent or not; the others are sent once each.         *)
(***************************************************************************)
EXTENDS NodeStartup

\* StakePoolInitialized is sent before LocalSynced
StakeFirstOrders ==
    { <<"Initialized", "StakePoolInitialized", "LocalSynced">>,
      <<"StakePoolInitialized", "Initialized", "LocalSynced">>,
      <<"StakePoolInitialized", "LocalSynced">> }

\* every order of the three producers
AnyOrders ==
    StakeFirstOrders \cup
    { <<"Initialized", "LocalSynced", "StakePoolInitialized">>,
      <<"LocalSynced", "Initialized", "StakePoolInitialized">>,
      <<"LocalSynced", "StakePoolInitialized">> }

====
