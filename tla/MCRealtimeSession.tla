------------------------- MODULE MCRealtimeSession -------------------------
(* An instance of RealtimeSession for TLC: one channel, the topic of       *)
(* heartbeats, and one for the frames that are no text.                    *)
EXTENDS RealtimeSession, TLC

CONSTANTS c1, t1, t2, t3, k1

OneTopic     == (c1 :> t1)
UserOps      == {"Connect", "Disconnect", "SetAccessToken"}
LossFaults   == {"conn_loss"}
GoodEndpoint == {"good"}

=============================================================================
