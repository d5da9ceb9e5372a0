-------------------------- MODULE MCRealtimeClient --------------------------
(* Instances of RealtimeClient for TLC.                                    *)
EXTENDS RealtimeClient, TLC

CONSTANTS c1, c2, t1, t2, k1, k2

OneTopic   == (c1 :> t1)
SameTopic  == (c1 :> t1) @@ (c2 :> t1)

UserOps    == {"Connect", "Disconnect", "SetAccessToken", "GetState"}
LeaveOps   == {"Disconnect"}
TokenOps   == {"SetAccessToken"}
NoOps      == {}
AllFaults  == {"cancel", "conn_loss", "dial_fail", "channel_panic"}
LossFaults == {"conn_loss"}
NoFaults   == {}

AnyEndpoint  == {"good", "bad", "partial"}
GoodEndpoint == {"good"}

Channels == Permutations({c1, c2})   \* of one topic, so interchangeable

=============================================================================
