-------------------------- MODULE RealtimeSession --------------------------
(***************************************************************************)
(* The client and its channels together with what they are there for: the  *)
(* membership of each channel on the server.  To RealtimeClient this       *)
(* module adds the write half of each connection, whose send task takes    *)
(* the frames of the channels out of its queue one by one and loses those  *)
(* still queued when it is aborted or the socket breaks, and a server that *)
(* lets channels join and leave, confirms the joins, and forgets them with *)
(* the connection.                                                         *)
(***************************************************************************)
EXTENDS RealtimeClient

CONSTANT Phoenix   \* the topic of heartbeats

ASSUME SessionAssumption == Phoenix \in Topic \ Unreadable /\ \A c \in Chan : TopicOf[c] # Phoenix

VARIABLES
  written,  \* written[g]: how many of out[g] the send task has written
  member,   \* member[g]: the channels that the server holds on connection g
  owed,     \* owed[g]: those whose join it has still to confirm
  beats     \* connections with a heartbeat that was not answered

serverVars  == <<member, owed, beats>>
sessionVars == <<vars, written, serverVars>>

SessionInit ==
  /\ Init
  /\ written = [g \in Gen |-> 0]
  /\ member = [g \in Gen |-> {}] /\ owed = [g \in Gen |-> {}] /\ beats = {}

-----------------------------------------------------------------------------
Queued(g) == written[g] < Len(out[g])

\* What the server makes of a frame.
ServerTakes(g, f) ==
  LET c == f.from IN
  \/ /\ f.event = "phx_join"
     /\ member' = [member EXCEPT ![g] = @ \cup {c}]
     /\ owed' = [owed EXCEPT ![g] = @ \cup {c}]
     /\ UNCHANGED beats
  \/ /\ f.event = "phx_leave"
     /\ member' = [member EXCEPT ![g] = @ \ {c}]
     /\ UNCHANGED <<owed, beats>>
  \/ f.event = "access_token" /\ UNCHANGED serverVars

\* The send task forwards the next frame of its queue to the socket. A task that
\* was told to abort may still do so.
Write(g) ==
  /\ g \in sending /\ stream[g] = "up" /\ Queued(g)
  /\ ServerTakes(g, out[g][written[g] + 1])
  /\ written' = [written EXCEPT ![g] = @ + 1]
  /\ UNCHANGED vars

\* The heartbeat task sends a heartbeat, on time or late; the send is refused in
\* silence when the send task has ended. Heartbeats are counted apart from the
\* frames, which they do not hold up.
Heartbeat(g) ==
  /\ g \in sending /\ stream[g] = "up"
  /\ beats' = beats \cup {g}
  /\ Spend
  /\ UNCHANGED <<wireRest, stream, inq, sent, written, member, owed>>

\* The socket is closed for the server when it broke, and when both halves that
\* the tasks held are dropped.
Hangs(g) == stream[g] # "up" \/ (g \notin sending /\ recv[g].at = "gone")

ServerForgets(g) ==
  /\ g \in 1..gen /\ Hangs(g) /\ (member[g] \cup owed[g] # {} \/ g \in beats)
  /\ member' = [member EXCEPT ![g] = {}] /\ owed' = [owed EXCEPT ![g] = {}]
  /\ beats' = beats \ {g}
  /\ UNCHANGED <<vars, written>>

ServerConfirms(g, c) ==
  /\ c \in owed[g] /\ ~Hangs(g)
  /\ Confirms(g, c)
  /\ owed' = [owed EXCEPT ![g] = @ \ {c}]
  /\ UNCHANGED <<budget, written, member, beats>>

ServerAnswers(g) ==
  /\ g \in beats /\ ~Hangs(g)
  /\ ServerSends(g, Phoenix, NoOne)
  /\ beats' = beats \ {g}
  /\ UNCHANGED <<budget, written, member, owed>>

\* Messages for the members.
ServerTells(g, c) ==
  /\ c \in member[g] /\ ~Hangs(g)
  /\ ServerSends(g, TopicOf[c], NoOne) /\ Spend
  /\ UNCHANGED <<written, serverVars>>

\* A frame that is no text.
ServerGarbles(g) ==
  /\ ~Hangs(g)
  /\ \E t \in Unreadable : ServerSends(g, t, NoOne)
  /\ Spend
  /\ UNCHANGED <<written, serverVars>>

SessionNext ==
  \/ Local /\ UNCHANGED <<written, serverVars>>
  \/ \E g \in Gen : \/ Write(g) \/ Heartbeat(g) \/ ServerForgets(g) \/ ServerAnswers(g)
                    \/ ServerGarbles(g)
                    \/ \E c \in Chan : ServerConfirms(g, c) \/ ServerTells(g, c)

SessionSpec == SessionInit /\ [][SessionNext]_sessionVars

\* The fairness of RealtimeClient, over the larger state, and that of the send
\* tasks, the network and a server that answers.
ActorSteps == ClientActor /\ UNCHANGED <<written, serverVars>>
LockSteps  == (LockToRebind \/ LockToReAuth \/ StartDisconnect \/ HandleAddChannel)
                /\ UNCHANGED <<written, serverVars>>
SessionFairness ==
  /\ WF_sessionVars(ActorSteps) /\ SF_sessionVars(LockSteps)
  /\ \A g \in Gen :
       /\ WF_sessionVars(ReceiveTask(g) /\ UNCHANGED <<written, serverVars>>)
       /\ SF_sessionVars(LockToRoute(g) /\ UNCHANGED <<written, serverVars>>)
       /\ WF_sessionVars(Cancelled(g) /\ UNCHANGED <<written, serverVars>>)
       /\ WF_sessionVars(SendEnds(g) /\ UNCHANGED <<written, serverVars>>)
       /\ WF_sessionVars(Write(g)) /\ WF_sessionVars(ServerForgets(g))
       /\ \A c \in Chan : WF_sessionVars(ServerConfirms(g, c))
  /\ \A c \in Chan :
       WF_sessionVars(ChannelTasks(c) /\ UNCHANGED <<written, serverVars>>)

FairSession == SessionSpec /\ SessionFairness

-----------------------------------------------------------------------------
(* What the whole promises.                                                *)

\* Everything between channel c and the server has been dealt with: the connection
\* it sends on is up, and no request, frame, confirmation or message is under way.
Settled(c) ==
  /\ View!Live(c) /\ pc = "recv" /\ mail[c] = <<>> /\ heard[c] = Len(got[c])
  /\ LET g == chan[c].tx IN
       /\ g \in sending /\ stream[g] = "up" /\ ~Queued(g) /\ owed[g] = {}
       /\ recv[g].at = "reading" /\ inq[g] = <<>>

\* The last that c said of its membership on its connection is a phx_leave.
Says(c, f) == f.from = c /\ f.event # "access_token"
LastSaidLeave(c) ==
  LET o == out[chan[c].tx] IN
  \E i \in DOMAIN o : /\ o[i].from = c /\ o[i].event = "phx_leave"
                      /\ \A j \in DOMAIN o : j > i => ~Says(c, o[j])

\* Once settled, client and server agree on each channel: the server holds none
\* that is Closed or Leaving, one that it holds is Joined as long as the client
\* still routes to it, and one that is Joined is held, but for the channel whose
\* unsubscribe was overtaken by the reply to its join.
Agrees ==
  \A c \in Chan : Settled(c) =>
    LET held == c \in member[chan[c].tx] IN
    /\ held => chan[c].st \in {"Joining", "Joined"}
    /\ held /\ c \in Range(channels) \ deaf => chan[c].st = "Joined"
    /\ chan[c].st = "Joined" => held \/ LastSaidLeave(c)

\* A client that is reconnecting makes a connection newer than the one it lost, which
\* is the one it last had Open, and brings every channel that was subscribed back to
\* the server on it: unless the channel is left or breaks, the client gives up, is
\* disconnected or dies, or the newer connection breaks too. States in which a receive
\* task is rebuilding the list are left out: it may have seen the channel Closed before
\* it was subscribed, and then drops it from the list.
Loses(c, g) ==
  /\ cstate = "Reconnecting" /\ wsTx = g
  /\ c \in Range(channels) /\ \A h \in Gen : ~At(h, "filter")
  /\ View!Live(c) /\ chan[c].st \in {"Joining", "Joined"}
LostIsRejoined ==
  \A c \in Chan, g \in Gen :
    Loses(c, g) ~> \/ gen > g /\ (c \in member[gen] \/ stream[gen] # "up")
                   \/ pc = "dead" \/ attempts = MaxAttempts \/ ~wanted
                   \/ ~View!Live(c) \/ chan[c].st = "Leaving"

\* A join ends: the channel is confirmed, or left, unless its connection goes, the
\* client does not route to it, or nobody reads the connection, be it that a newer one
\* has replaced it or that a frame was no text.
JoinsSettle ==
  \A c \in Chan :
    chan[c].st = "Joining"
      ~> \/ chan[c].st # "Joining" \/ c \notin Range(channels) \/ c \in deaf
         \/ chan[c].tx \notin sending \/ stream[chan[c].tx] # "up"
         \/ recv[chan[c].tx].at = "gone" \/ pc = "dead"

\* After a disconnect the server holds no channel for long, be it that a phx_leave
\* was lost with the send task or that a channel was no more in the list: unless
\* the client is connected again, by a caller or by a reconnection under way.
ServerIsLeft ==
  ~wanted ~> \/ wanted \/ cstate = "Open"
             \/ \A g \in Gen : member[g] = {}

=============================================================================
