------------------------------ MODULE Delivery ------------------------------
(***************************************************************************)
(* What the client promises about the messages of the server: over one     *)
(* connection a channel is given messages of its topic only, each at most  *)
(* once, in the order the server sent them.  Messages may be passed over:  *)
(* a channel that is not in the list, or whose task has returned, gets     *)
(* none.                                                                   *)
(***************************************************************************)
EXTENDS Naturals, Sequences

CONSTANTS
  Chan,     \* channels
  TopicOf   \* the topic of each channel

VARIABLES
  sent,  \* every message of the server, with its connection and its topic
  got    \* got[c]: the positions in sent of the messages given to c

vars == <<sent, got>>

Init == sent = <<>> /\ got = [c \in Chan |-> <<>>]

\* sent grows by one message.
Send ==
  /\ Len(sent') = Len(sent) + 1
  /\ \A i \in DOMAIN sent : sent'[i] = sent[i]
  /\ UNCHANGED got

\* Nothing that c was given over this connection is as new as message m.
Newest(c, m) ==
  \A i \in DOMAIN got[c] : sent[got[c][i]].conn = sent[m].conn => got[c][i] < m

Deliver(c) ==
  /\ \E m \in DOMAIN sent :
       /\ sent[m].topic = TopicOf[c] /\ Newest(c, m)
       /\ got' = [got EXCEPT ![c] = Append(@, m)]
  /\ UNCHANGED sent

Next == Send \/ \E c \in Chan : Deliver(c)

Spec == Init /\ [][Next]_vars

=============================================================================
