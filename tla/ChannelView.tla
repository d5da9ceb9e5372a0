----------------------------- MODULE ChannelView -----------------------------
(***************************************************************************)
(* A channel as its client and its holder see it through a ChannelManager: *)
(* the state it is in, the connection it sends on and the access token it  *)
(* joins with, with no queue, no frame and no message task.                *)
(*                                                                         *)
(* RealtimeChannel, the channel in full, implements this specification;    *)
(* RealtimeClient composes its actions with the client, so what it assumes *)
(* of a channel is what a channel does.                                    *)
(***************************************************************************)
EXTENDS Naturals

CONSTANTS
  Channel,  \* channels
  Conn      \* connections

VARIABLES
  chan,   \* chan[c]: what channel c shows
  open,   \* the connections that still accept frames
  token   \* the client's access token, as the number of times it was set

vars == <<chan, open, token>>

-----------------------------------------------------------------------------
LiveStates == {"Closed", "Errored", "Joining", "Joined", "Leaving"}
Unbuilt    == [st |-> "unbuilt"]
Broken     == [st |-> "panicked"]
Shown      == [st : LiveStates, tx : Conn, tok : Nat]

Live(c) == chan[c].st \in LiveStates
Moves(c, st) == chan' = [chan EXCEPT ![c].st = st]

Init ==
  /\ chan = [c \in Channel |-> Unbuilt]
  /\ open \subseteq Conn
  /\ token = 0

\* build_common, with a sender and a token that may be out of date.
Built(c, g, t) ==
  /\ chan[c] = Unbuilt
  /\ chan' = [chan EXCEPT ![c] = [st |-> "Closed", tx |-> g, tok |-> t]]

\* subscribe, in any state.
Subscribes(c) == Live(c) /\ Moves(c, "Joining")

\* An ok reply of the server, in any state.
Confirmed(c) == Live(c) /\ Moves(c, "Joined")

\* unsubscribe, when there is something to leave and a connection to say it on.
Leaves(c) ==
  /\ Live(c) /\ chan[c].st \notin {"Closed", "Leaving"} /\ chan[c].tx \in open
  /\ Moves(c, "Leaving")

\* ClientTx
Rebinds(c, g) == Live(c) /\ chan' = [chan EXCEPT ![c].tx = g]

\* reauth. A joined channel also has to tell the server.
TakesToken(c) ==
  /\ Live(c) /\ (chan[c].st = "Joined" => chan[c].tx \in open)
  /\ chan' = [chan EXCEPT ![c].tok = token]

\* An unwrap() of the actor fails; nothing is heard of the channel any more.
Breaks(c) == Live(c) /\ chan' = [chan EXCEPT ![c] = Broken]

\* The client and the network.
Around == /\ UNCHANGED chan
          /\ open' \subseteq Conn
          /\ token' \in Nat /\ token' >= token

Next ==
  \/ \E c \in Channel :
       \/ Subscribes(c) \/ Confirmed(c) \/ Leaves(c) \/ TakesToken(c) \/ Breaks(c)
       \/ \E g \in Conn : Rebinds(c, g) \/ \E t \in 0..token : Built(c, g, t)
  \/ Around

Spec == Init /\ [][Next]_vars

=============================================================================
