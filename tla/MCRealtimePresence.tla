------------------------- MODULE MCRealtimePresence -------------------------
(* Instances of RealtimePresence for TLC.                                  *)
EXTENDS RealtimePresence

CONSTANTS i1, i2, d1, d2

SharedKey == (d1 :> i1) @@ (d2 :> i1)   \* two devices of one user

=============================================================================
