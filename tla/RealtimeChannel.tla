-------------------------- MODULE RealtimeChannel --------------------------
(***************************************************************************)
(* The channel side of the library (src/src/realtime_channel.rs): for each *)
(* channel the actor that owns it (RealtimeChannel::manager_recv), the     *)
(* task that consumes the messages routed to it (client_recv) and the      *)
(* tasks spawned by subscribe_blocking that spin on the channel state.     *)
(*                                                                         *)
(* The environment is open: callers post requests through a ChannelManager *)
(* in any order, any message may be routed to a channel at any time, the   *)
(* access token may change and, when Faults says so, connections drop and  *)
(* callers abandon their calls.                                            *)
(*                                                                         *)
(* A handler is one step.  It awaits only the state mutex and the          *)
(* access-token mutex (in that case the token first, then the state), and  *)
(* every interleaving of its pieces ends in a state that some order of     *)
(* whole handlers also reaches: the one other writer of the state is the   *)
(* task of client_recv, which only ever writes Joined.                     *)
(***************************************************************************)
EXTENDS Integers, Sequences, Functions

CONSTANTS
  Channel,   \* channels that can be built
  Caller,    \* tasks that call a ChannelManager and await its oneshot answer
  Conn,      \* websocket connections, each with the queue a ws_tx feeds
  Id,        \* uuids
  IdOf,      \* the uuid of the builder each channel comes from
  NoOne,     \* in place of a caller: nobody awaits the answer
  Ops,       \* the requests that callers post
  Faults,    \* subset of {"cancel", "conn_loss", "use_after_leave", "callback_panic"}
  MaxEnv     \* bound on the steps of the environment

ASSUME ChannelAssumption ==
  /\ IdOf \in [Channel -> Id]
  /\ NoOne \notin Caller
  /\ MaxEnv \in Nat

VARIABLES
  actor,      \* actor[c]: has channel c been built, is its manager_recv loop alive
  mailbox,    \* mailbox[c]: the unbounded mpsc queue behind ChannelManager.tx
  chState,    \* chState[c]: Arc<Mutex<ChannelState>>
  clientTx,   \* clientTx[c]: the connection whose queue client_tx feeds
  joinToken,  \* joinToken[c]: join_payload.access_token
  rx,         \* rx[c]: messages routed to the channel and not yet handled
  msgTask,    \* msgTask[c]: the task spawned by client_recv
  spinners,   \* spinners[c]: answers owed by the tasks of subscribe_blocking
  call,       \* call[k]: the call caller k has outstanding
  out,        \* out[g]: every frame accepted by the queue of connection g
  txOpen,     \* txOpen[g]: the receiving half of that queue is alive
  token,      \* the client's access token, as the number of times it was set
  retired,    \* retired[c]: some holder of the manager has called unsubscribe
  fault,      \* which of the first three faults have happened
  budget      \* steps left to the environment

chanVars == <<actor, mailbox, chState, clientTx, joinToken, rx, msgTask,
              spinners>>
wireVars == <<out, txOpen>>
vars == <<chanVars, call, wireVars, token, retired, fault, budget>>

-----------------------------------------------------------------------------
ChannelStates == {"Closed", "Errored", "Joined", "Joining", "Leaving"}

\* ChannelManagerMessage. Query stands for the four handlers that only read:
\* GetState, GetTx, GetTopic and GetPresenceState.
SendOps   == {"Broadcast", "PresenceTrack", "PresenceUntrack"}
FireOps   == {"Subscribe", "Broadcast"}           \* carry no responder
AwaitOps  == {"Unsubscribe", "SubscribeBlocking", "PresenceTrack",
              "PresenceUntrack", "ReAuth", "Query", "ClientTx"}
Request   == [op : (FireOps \cup AwaitOps) \ {"ClientTx"}, res : Caller \cup {NoOne}]
               \cup [op : {"ClientTx"}, res : Caller \cup {NoOne}, tx : Conn]

\* What the server sends a channel: a reply to a join, a message some callback
\* may be registered for.
Inbound == [kind : {"Response"}, ref : Id, status : {"ok", "error"}]
             \cup [kind : {"Event"}]

\* Frames the channel writes. phx_join and access_token carry the token.
TokenEvents == {"phx_join", "access_token"}
PlainEvents == {"phx_leave", "broadcast", "presence", "untrack"}
Frame == [event : TokenEvents, from : Channel, tok : Nat]
           \cup [event : PlainEvents, from : Channel]

Answer == ChannelStates \cup {"unit", "SendError", "none"}
Call   == [st : {"idle", "waiting", "done", "refused"},
           op : AwaitOps \cup {"none"}, val : Answer]
Idle   == [st |-> "idle", op |-> "none", val |-> "none"]

TypeOK ==
  /\ actor \in [Channel -> {"unbuilt", "running", "panicked"}]
  /\ mailbox \in [Channel -> Seq(Request)]
  /\ chState \in [Channel -> ChannelStates]
  /\ clientTx \in [Channel -> Conn]
  /\ joinToken \in [Channel -> Nat]
  /\ rx \in [Channel -> Seq(Inbound)]
  /\ msgTask \in [Channel -> {"none", "running", "ended"}]
  /\ spinners \in [Channel -> SUBSET (Caller \cup {NoOne})]
  /\ call \in [Caller -> Call]
  /\ out \in [Conn -> Seq(Frame)]
  /\ txOpen \in [Conn -> BOOLEAN]
  /\ token \in Nat
  /\ retired \in [Channel -> BOOLEAN]
  /\ fault \subseteq {"cancel", "conn_loss", "use_after_leave"}
  /\ budget \in Nat

Init ==
  /\ actor = [c \in Channel |-> "unbuilt"]
  /\ mailbox = [c \in Channel |-> <<>>]
  /\ chState = [c \in Channel |-> "Closed"]
  /\ \E g \in Conn : clientTx = [c \in Channel |-> g]
  /\ joinToken = [c \in Channel |-> 0]
  /\ rx = [c \in Channel |-> <<>>]
  /\ msgTask = [c \in Channel |-> "none"]
  /\ spinners = [c \in Channel |-> {}]
  /\ call = [k \in Caller |-> Idle]
  /\ out = [g \in Conn |-> <<>>]
  /\ txOpen = [g \in Conn |-> TRUE]
  /\ token = 0
  /\ retired = [c \in Channel |-> FALSE]
  /\ fault = {}
  /\ budget = MaxEnv

-----------------------------------------------------------------------------
(* Pieces of the handlers.                                                 *)

Req(c)  == Head(mailbox[c])
Pop(c)  == mailbox' = [mailbox EXCEPT ![c] = Tail(@)]

\* The head of the mailbox is a request op and the actor is there to take it.
Handles(c, op) ==
  /\ actor[c] = "running"
  /\ mailbox[c] # <<>>
  /\ Req(c).op = op

\* Callers whose responders sit in the mailbox.
Awaiting(c) == {r.res : r \in Range(mailbox[c])} \ {NoOne}

\* An unwrap() fails: the task unwinds and drops the mailbox with every
\* responder in it, so the callers get a RecvError.
Panic(c) ==
  /\ actor' = [actor EXCEPT ![c] = "panicked"]
  /\ mailbox' = [mailbox EXCEPT ![c] = <<>>]
  /\ call' = [k \in Caller |->
                IF k \in Awaiting(c) THEN [call[k] EXCEPT !.st = "refused"]
                                     ELSE call[k]]

\* mutant: the responder is kept, as subscribe_blocking does, and never used
Respond_Keeps(c, v) == Pop(c) /\ UNCHANGED <<actor, call>>

\* res.send(v).unwrap(): fails when the caller has dropped its receiver.
Respond(c, v) ==
  \/ /\ Req(c).res = NoOne
     /\ Panic(c)
  \/ /\ Req(c).res # NoOne
     /\ Pop(c)
     /\ call' = [call EXCEPT ![Req(c).res].st = "done", ![Req(c).res].val = v]
     /\ UNCHANGED actor

\* RealtimeChannel::send refuses when Leaving; client_tx.send fails when the
\* receiver is gone, that is once the send task of the connection has ended.
MaySend_WhenLeaving(c) == TRUE   \* mutant: the check of the state is dropped
MaySend(c)   == chState[c] # "Leaving"
Connected_Always(c) == TRUE   \* mutant: the error of client_tx.send is dropped
Connected(c) == txOpen[clientTx[c]]
SendFrame(c, f) ==
  /\ MaySend(c) /\ Connected(c)
  /\ out' = [out EXCEPT ![clientTx[c]] = Append(@, f)]
SendFails(c) ==
  /\ ~MaySend(c) \/ ~Connected(c)
  /\ UNCHANGED out

PlainFrame(c, e) == [event |-> e, from |-> c]
JoinFrame_NoToken(c) == PlainFrame(c, "phx_join")   \* mutant: token left out
JoinFrame(c) == [event |-> "phx_join", from |-> c, tok |-> joinToken[c]]

\* subscribe(): the state becomes Joining first, so only a closed connection can
\* refuse the join, and then the error is ignored.
StartJoin(c) ==
  /\ chState' = [chState EXCEPT ![c] = "Joining"]
  /\ \/ /\ Connected(c)
        /\ out' = [out EXCEPT ![clientTx[c]] = Append(@, JoinFrame(c))]
     \/ /\ ~Connected(c)
        /\ UNCHANGED out

-----------------------------------------------------------------------------
(* The actor, one action per arm of manager_recv.                          *)

HandleSubscribe(c) ==
  /\ Handles(c, "Subscribe")
  /\ StartJoin(c)
  /\ Pop(c)
  /\ UNCHANGED <<actor, clientTx, joinToken, rx, msgTask, spinners,
                 call, txOpen, token, retired, fault, budget>>

\* The responder moves to a task that spins until it sees Joined.
SpawnSpinner_Forgets(c, k) == UNCHANGED spinners   \* mutant: no task spawned
SpawnSpinner(c, k) == spinners' = [spinners EXCEPT ![c] = @ \cup {k}]

HandleSubscribeBlocking(c) ==
  /\ Handles(c, "SubscribeBlocking")
  /\ StartJoin(c)
  /\ SpawnSpinner(c, Req(c).res)
  /\ Pop(c)
  /\ UNCHANGED <<actor, clientTx, joinToken, rx, msgTask, call,
                 txOpen, token, retired, fault, budget>>

HandleUnsubscribe(c) ==
  /\ Handles(c, "Unsubscribe")
  /\ \/ /\ chState[c] \in {"Closed", "Leaving"}
        /\ Respond(c, chState[c])
        /\ UNCHANGED <<chState, out>>
     \/ /\ chState[c] \notin {"Closed", "Leaving"}
        /\ SendFrame(c, PlainFrame(c, "phx_leave"))
        /\ chState' = [chState EXCEPT ![c] = "Leaving"]
        /\ Respond(c, "Leaving")
     \/ /\ chState[c] \notin {"Closed", "Leaving"}
        /\ SendFails(c)
        /\ Respond(c, "SendError")
        /\ UNCHANGED chState
  /\ UNCHANGED <<clientTx, joinToken, rx, msgTask, spinners,
                 txOpen, token, retired, fault, budget>>

\* broadcast().await.unwrap(): both errors of send end the actor.
HandleBroadcast(c) ==
  /\ Handles(c, "Broadcast")
  /\ \/ /\ SendFrame(c, PlainFrame(c, "broadcast"))
        /\ Pop(c)
        /\ UNCHANGED <<actor, call>>
     \/ SendFails(c) /\ Panic(c)
  /\ UNCHANGED <<chState, clientTx, joinToken, rx, msgTask, spinners,
                 txOpen, token, retired, fault, budget>>

\* track().await.unwrap() and untrack().await.unwrap(), then the answer.
HandlePresence(c, op, event) ==
  /\ Handles(c, op)
  /\ \/ SendFrame(c, PlainFrame(c, event)) /\ Respond(c, "unit")
     \/ SendFails(c) /\ Panic(c)
  /\ UNCHANGED <<chState, clientTx, joinToken, rx, msgTask, spinners,
                 txOpen, token, retired, fault, budget>>

HandlePresenceTrack(c)   == HandlePresence(c, "PresenceTrack", "presence")
HandlePresenceUntrack(c) == HandlePresence(c, "PresenceUntrack", "untrack")

\* The join payload takes the new token whatever the state; only a joined
\* channel tells the server, and the result is unwrapped.
TakeToken_OnlyTheServer(c) == UNCHANGED joinToken   \* mutant: payload kept
TakeToken(c) == joinToken' = [joinToken EXCEPT ![c] = token]
TellsServer_Always(c) == TRUE   \* mutant: the early return is dropped
TellsServer(c) == chState[c] = "Joined"

HandleReAuth(c) ==
  /\ Handles(c, "ReAuth")
  /\ TakeToken(c)
  /\ \/ ~TellsServer(c) /\ Respond(c, "unit") /\ UNCHANGED out
     \/ /\ TellsServer(c)
        /\ SendFrame(c, [event |-> "access_token", from |-> c, tok |-> token])
        /\ Respond(c, "unit")
     \/ TellsServer(c) /\ SendFails(c) /\ Panic(c)
  /\ UNCHANGED <<chState, clientTx, rx, msgTask, spinners, txOpen,
                 token, retired, fault, budget>>

HandleClientTx(c) ==
  /\ Handles(c, "ClientTx")
  /\ clientTx' = [clientTx EXCEPT ![c] = Req(c).tx]
  /\ Respond(c, "unit")
  /\ UNCHANGED <<chState, joinToken, rx, msgTask, spinners, wireVars,
                 token, retired, fault, budget>>

\* GetState answers the state; the other three answer data that is not modelled.
HandleQuery(c) ==
  /\ Handles(c, "Query")
  /\ Respond(c, chState[c])
  /\ UNCHANGED <<chState, clientTx, joinToken, rx, msgTask, spinners,
                 wireVars, token, retired, fault, budget>>

Actor(c) ==
  \/ HandleSubscribe(c) \/ HandleSubscribeBlocking(c) \/ HandleUnsubscribe(c)
  \/ HandleBroadcast(c) \/ HandlePresenceTrack(c) \/ HandlePresenceUntrack(c)
  \/ HandleReAuth(c) \/ HandleClientTx(c) \/ HandleQuery(c)

-----------------------------------------------------------------------------
(* The task of client_recv and the tasks of subscribe_blocking.            *)

NextMsg(c) ==
  /\ msgTask[c] = "running"
  /\ rx[c] # <<>>

PopRx(c) == rx' = [rx EXCEPT ![c] = Tail(@)]

\* The receiver of rx is dropped with whatever is still queued.
TaskReturns(c) ==
  /\ msgTask' = [msgTask EXCEPT ![c] = "ended"]
  /\ rx' = [rx EXCEPT ![c] = <<>>]

\* A reply that carries another uuid makes the task return.
HandleForeignReply(c) ==
  /\ NextMsg(c)
  /\ Head(rx[c]).kind = "Response"
  /\ Head(rx[c]).ref # IdOf[c]
  /\ TaskReturns(c)
  /\ UNCHANGED <<actor, mailbox, chState, clientTx, joinToken, spinners,
                 call, wireVars, token, retired, fault, budget>>

\* An ok reply sets Joined whatever the state is; an error reply changes nothing.
AfterReply_Inverted(s, status) == IF status = "ok" THEN s ELSE "Joined"   \* mutant
AfterReply(s, status) == IF status = "ok" THEN "Joined" ELSE s

HandleJoinReply(c) ==
  /\ NextMsg(c)
  /\ Head(rx[c]).kind = "Response"
  /\ Head(rx[c]).ref = IdOf[c]
  /\ chState' = [chState EXCEPT ![c] = AfterReply(@, Head(rx[c]).status)]
  /\ PopRx(c)
  /\ UNCHANGED <<actor, mailbox, clientTx, joinToken, msgTask, spinners,
                 call, wireVars, token, retired, fault, budget>>

\* Broadcast, PostgresChanges, PresenceDiff and PresenceState run the callbacks
\* registered for them, under no condition on the state of the channel, and any
\* other payload nothing. Callbacks are the application's; what the presence
\* messages do to the presence of the channel is in RealtimePresence.
HandleEvent(c) ==
  /\ NextMsg(c)
  /\ Head(rx[c]).kind = "Event"
  /\ PopRx(c)
  /\ UNCHANGED <<actor, mailbox, chState, clientTx, joinToken, msgTask, spinners,
                 call, wireVars, token, retired, fault, budget>>

\* A callback panics, and the task unwinds with the mutexes and the queue: the
\* channel goes on, and no longer hears the server.
CallbackPanics(c) ==
  /\ "callback_panic" \in Faults
  /\ NextMsg(c)
  /\ Head(rx[c]).kind = "Event"
  /\ TaskReturns(c)
  /\ UNCHANGED <<actor, mailbox, chState, clientTx, joinToken, spinners,
                 call, wireVars, token, retired, fault, budget>>

\* channel_rx.recv() returns None: the actor, and with it the only sender that
\* is kept, is gone and the queue is drained.
MsgTaskEnds(c) ==
  /\ msgTask[c] = "running"
  /\ actor[c] = "panicked"
  /\ rx[c] = <<>>
  /\ msgTask' = [msgTask EXCEPT ![c] = "ended"]
  /\ UNCHANGED <<actor, mailbox, chState, clientTx, joinToken, rx, spinners,
                 call, wireVars, token, retired, fault, budget>>

MsgTask(c) ==
  \/ HandleForeignReply(c) \/ HandleJoinReply(c) \/ HandleEvent(c)
  \/ CallbackPanics(c) \/ MsgTaskEnds(c)

SeesJoined_Joining(c) == chState[c] = "Joining"   \* mutant: the wrong state
SeesJoined(c) == chState[c] = "Joined"

\* The loop of subscribe_blocking sees Joined and answers. When the caller has
\* gone the unwrap ends this task alone.
SpinSeesJoined(c, k) ==
  /\ k \in spinners[c]
  /\ SeesJoined(c)
  /\ spinners' = [spinners EXCEPT ![c] = @ \ {k}]
  /\ \/ /\ k = NoOne
        /\ UNCHANGED call
     \/ /\ k # NoOne
        /\ call' = [call EXCEPT ![k].st = "done", ![k].val = "unit"]
  /\ UNCHANGED <<actor, mailbox, chState, clientTx, joinToken, rx, msgTask,
                 wireVars, token, retired, fault, budget>>

-----------------------------------------------------------------------------
(* The environment: builders, callers, the client and the network.         *)

Spend == budget > 0 /\ budget' = budget - 1

\* build_common, with the ws_tx and the token read from the client earlier.
Build(c) ==
  /\ actor[c] = "unbuilt"
  /\ actor' = [actor EXCEPT ![c] = "running"]
  /\ msgTask' = [msgTask EXCEPT ![c] = "running"]
  /\ \E g \in Conn : clientTx' = [clientTx EXCEPT ![c] = g]
  /\ \E t \in 0..token : joinToken' = [joinToken EXCEPT ![c] = t]
  /\ UNCHANGED <<mailbox, chState, rx, spinners, call, wireVars,
                 token, retired, fault, budget>>

\* A manager is dropped once unsubscribed, unless the fault says otherwise.
Misuse(c, op) == retired[c] /\ op \in SendOps
MayPost(c, op) ==
  /\ op \in Ops
  /\ actor[c] # "unbuilt"
  /\ Misuse(c, op) => "use_after_leave" \in Faults
  /\ fault' = fault \cup (IF Misuse(c, op) THEN {"use_after_leave"} ELSE {})

\* ChannelManager.send of a request without responder; the error is ignored.
Post(c, op) ==
  /\ MayPost(c, op)
  /\ op \in FireOps
  /\ \/ /\ actor[c] = "running"
        /\ mailbox' = [mailbox EXCEPT ![c] = Append(@, [op |-> op, res |-> NoOne])]
     \/ /\ actor[c] = "panicked"
        /\ UNCHANGED mailbox
  /\ Spend
  /\ UNCHANGED <<actor, chState, clientTx, joinToken, rx, msgTask, spinners,
                 call, wireVars, token, retired>>

\* ChannelManager.send followed by rx.await. With the actor gone the request is
\* dropped together with its responder.
PutRequest(c, r) ==
  \/ /\ actor[c] = "running"
     /\ mailbox' = [mailbox EXCEPT ![c] = Append(@, r)]
     /\ call' = [call EXCEPT ![r.res] = [st |-> "waiting", op |-> r.op, val |-> "none"]]
  \/ /\ actor[c] = "panicked"
     /\ call' = [call EXCEPT ![r.res] = [st |-> "refused", op |-> r.op, val |-> "none"]]
     /\ UNCHANGED mailbox

Ask(k, c, op) ==
  /\ MayPost(c, op)
  /\ op \in AwaitOps
  /\ call[k].st = "idle"
  /\ \/ /\ op = "ClientTx"
        /\ \E g \in Conn : PutRequest(c, [op |-> op, res |-> k, tx |-> g])
     \/ /\ op # "ClientTx"
        /\ PutRequest(c, [op |-> op, res |-> k])
  /\ retired' = [retired EXCEPT ![c] = @ \/ op = "Unsubscribe"]
  /\ Spend
  /\ UNCHANGED <<actor, chState, clientTx, joinToken, rx, msgTask, spinners,
                 wireVars, token>>

\* The caller takes its answer.
Resume(k) ==
  /\ call[k].st \in {"done", "refused"}
  /\ call' = [call EXCEPT ![k] = Idle]
  /\ UNCHANGED <<chanVars, wireVars, token, retired, fault, budget>>

\* The caller's future is dropped before the answer: its responder stays where
\* it is and nobody awaits it any more.
Abandon(k) ==
  /\ "cancel" \in Faults
  /\ call[k].st = "waiting"
  /\ call' = [call EXCEPT ![k] = Idle]
  /\ mailbox' = [c \in Channel |-> [i \in DOMAIN mailbox[c] |->
                   IF mailbox[c][i].res = k THEN [mailbox[c][i] EXCEPT !.res = NoOne]
                                            ELSE mailbox[c][i]]]
  /\ spinners' = [c \in Channel |-> {IF x = k THEN NoOne ELSE x : x \in spinners[c]}]
  /\ fault' = fault \cup {"cancel"}
  /\ Spend
  /\ UNCHANGED <<actor, chState, clientTx, joinToken, rx, msgTask,
                 wireVars, token, retired>>

\* The client routes a message to the channel (get_tx().send(msg)); it needs the
\* actor for the sender, and the send fails silently once the task has returned.
Route(c, m) ==
  /\ actor[c] = "running"
  /\ \/ msgTask[c] = "running" /\ rx' = [rx EXCEPT ![c] = Append(@, m)]
     \/ msgTask[c] # "running" /\ UNCHANGED rx
  /\ Spend
  /\ UNCHANGED <<actor, mailbox, chState, clientTx, joinToken, msgTask, spinners,
                 call, wireVars, token, retired, fault>>

\* The send task of connection g ends and drops the receiver of its queue.
DropConn(g) ==
  /\ "conn_loss" \in Faults
  /\ txOpen[g]
  /\ txOpen' = [txOpen EXCEPT ![g] = FALSE]
  /\ fault' = fault \cup {"conn_loss"}
  /\ Spend
  /\ UNCHANGED <<chanVars, call, out, token, retired>>

\* The client stores a new access token (set_access_token).
SetToken ==
  /\ token' = token + 1
  /\ Spend
  /\ UNCHANGED <<chanVars, call, wireVars, retired, fault>>

Environment ==
  \/ \E c \in Channel : Build(c)
  \/ \E c \in Channel, op \in FireOps : Post(c, op)
  \/ \E k \in Caller, c \in Channel, op \in AwaitOps : Ask(k, c, op)
  \/ \E k \in Caller : Resume(k) \/ Abandon(k)
  \/ \E c \in Channel, m \in Inbound : Route(c, m)
  \/ \E g \in Conn : DropConn(g)
  \/ SetToken

Next ==
  \/ \E c \in Channel : Actor(c) \/ MsgTask(c)
  \/ \E c \in Channel, k \in Caller \cup {NoOne} : SpinSeesJoined(c, k)
  \/ Environment

Spec == Init /\ [][Next]_vars

\* Every task of the runtime that can take a step eventually takes one: tokio
\* polls a woken task and its mutex is granted in order of arrival.
Fairness ==
  /\ \A c \in Channel : WF_vars(Actor(c)) /\ WF_vars(MsgTask(c))
  /\ \A c \in Channel, k \in Caller \cup {NoOne} : WF_vars(SpinSeesJoined(c, k))

FairSpec == Spec /\ Fairness

-----------------------------------------------------------------------------
(* What the channel side promises.                                         *)

\* A caller that waits has exactly one responder alive, in the mailbox of a
\* running actor or with a task of subscribe_blocking, and a caller that does
\* not wait has none: no answer is lost with a panic, given twice, or left to a
\* caller that has gone.
OneResponder ==
  \A k \in Caller :
    /\ call[k].st = "waiting" <=> \E c \in Channel :
         \/ k \in spinners[c]
         \/ actor[c] = "running" /\ \E i \in DOMAIN mailbox[c] : mailbox[c][i].res = k
    /\ \A c, d \in Channel :
         /\ k \in spinners[c] =>
              /\ \A i \in DOMAIN mailbox[d] : mailbox[d][i].res # k
              /\ k \in spinners[d] => c = d
         /\ \A i \in DOMAIN mailbox[c], j \in DOMAIN mailbox[d] :
              mailbox[c][i].res = k /\ mailbox[d][j].res = k => c = d /\ i = j

\* A channel in Leaving has told the server so: some queue holds its phx_leave
\* with nothing of the channel after it, whatever was queued, broken or
\* answered late around the call (unsubscribe and send).
LeaveSent(c) ==
  \E g \in Conn : \E i \in DOMAIN out[g] :
    /\ out[g][i] = PlainFrame(c, "phx_leave")
    /\ \A j \in DOMAIN out[g] : j > i => out[g][j].from # c
LeavingMeansLeft == \A c \in Channel : chState[c] = "Leaving" => LeaveSent(c)

\* Over one connection the server never receives an older access token of a
\* channel after a newer one, be it in a join or in an access_token message:
\* rejoining never takes back a token that reauth has announced.
TokenFrame(c, g, i) ==
  /\ i \in DOMAIN out[g]
  /\ out[g][i].event \in TokenEvents
  /\ out[g][i].from = c
TokenNeverRegresses ==
  \A c \in Channel, g \in Conn : \A i, j \in DOMAIN out[g] :
    TokenFrame(c, g, i) /\ TokenFrame(c, g, j) /\ i <= j
      => out[g][i].tok <= out[g][j].tok

\* As long as every connection is up, no call was abandoned and no manager was
\* used to send after its unsubscribe, no unwrap() of manager_recv has failed:
\* the order in which requests of the caller, of the client (ReAuth, ClientTx, a
\* rejoin) and replies of the server meet in the actor is never fatal, and a
\* panicking callback does not reach it.
NoPanic == fault = {} => \A c \in Channel : actor[c] # "panicked"

\* A channel does what ChannelView says that a channel does: whatever happens in
\* its queues, the client and the holder see no other steps of its state, its
\* connection and its token.
Shows(c) ==
  CASE actor[c] = "unbuilt"  -> [st |-> "unbuilt"]
    [] actor[c] = "panicked" -> [st |-> "panicked"]
    [] actor[c] = "running"  -> [st |-> chState[c], tx |-> clientTx[c], tok |-> joinToken[c]]
View == INSTANCE ChannelView
          WITH chan <- [c \in Channel |-> Shows(c)], open <- {g \in Conn : txOpen[g]}
ShowsView == View!Spec

\* Every call that awaits its answer returns, with a value or a RecvError,
\* subscribe_blocking excepted: it waits for the server.
CallsSettle ==
  \A k \in Caller :
    (call[k].st = "waiting" /\ call[k].op # "SubscribeBlocking")
      ~> call[k].st # "waiting"

\* An ok reply to the channel's own join that has been routed to it marks the
\* channel Joined, unless the task has returned on a foreign reply before it.
OwnOk(c) == [kind |-> "Response", ref |-> IdOf[c], status |-> "ok"]
JoinCompletes ==
  \A c \in Channel : (\E i \in DOMAIN rx[c] : rx[c][i] = OwnOk(c))
                     ~> (chState[c] = "Joined" \/ msgTask[c] = "ended")

\* When a channel stays Joined, every subscribe_blocking on it has returned.
WaitersReleased ==
  \A c \in Channel : <>[](chState[c] = "Joined") => <>[](spinners[c] = {})

\* src/src/realtime_channel.rs:129 says that subscribe_blocking waits "until
\* the server has responded". The code waits until it sees Joined, which an
\* error reply never brings.
ReplyReleasesWaiter ==
  \A c \in Channel, k \in Caller :
    (k \in spinners[c] /\ NextMsg(c) /\ Head(rx[c]) \in
       [kind : {"Response"}, ref : {IdOf[c]}, status : {"ok", "error"}])
      ~> k \notin spinners[c]

=============================================================================
