------------------------- MODULE MCRealtimeChannel -------------------------
(* Instances of RealtimeChannel for TLC.                                   *)
EXTENDS RealtimeChannel, TLC

CONSTANTS c1, c2, u1, u2, k1, k2, g1, g2

OneId     == (c1 :> u1)   \* u2 is the uuid of some other builder

AllOps    == FireOps \cup AwaitOps
LiveOps   == {"Unsubscribe", "SubscribeBlocking", "ReAuth", "Query"}
JoinOps   == {"Subscribe", "SubscribeBlocking"}
AllFaults == {"cancel", "conn_loss", "use_after_leave", "callback_panic"}
NoFaults  == {}

Connections == Permutations({g1, g2})

=============================================================================
