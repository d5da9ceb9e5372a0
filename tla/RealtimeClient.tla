--------------------------- MODULE RealtimeClient ---------------------------
(***************************************************************************)
(* The client side of the library (src/src/realtime_client.rs): the actor  *)
(* that owns the client (manager_recv and connect_ws), the send and the    *)
(* receive task of every websocket connection it has opened, and the       *)
(* state they share: the ClientState mutex, the mutex around the list of   *)
(* channel managers, and the client's request queue.                      *)
(*                                                                         *)
(* A channel moves as ChannelView says, which RealtimeChannel implements:  *)
(* it takes requests in order, so a request that is awaited is one step    *)
(* once those posted before it are handled, and it may have panicked,      *)
(* which makes the await fail.                                             *)
(*                                                                         *)
(* abort() marks a task; the task may go on until its next suspension, so  *)
(* a marked task may still take steps before Cancelled ends it.            *)
(***************************************************************************)
EXTENDS Integers, Sequences, Functions

CONSTANTS
  Chan,         \* channels, each with its builder
  TopicOf,      \* the topic of each channel
  Topic,        \* topics
  Unreadable,   \* topics that stand for the frames that are no text
  Caller,       \* tasks that call the ClientManager
  NoOne,        \* in place of a caller: nobody awaits the answer
  Ops,          \* the requests that callers post; add_channel is left to build
  Faults,       \* subset of {"cancel", "conn_loss", "dial_fail", "channel_panic"}
  Malformed,    \* the tokens that cannot be put into a header
  Endpoints,    \* subset of {"good", "bad", "partial"}: what the endpoint parses to
  MaxAttempts,  \* reconnect_max_attempts; the code dials once even when it is 0
  MaxGen,       \* bound on the connections opened
  MaxEnv        \* bound on the steps of the environment

ASSUME ClientAssumption ==
  /\ TopicOf \in [Chan -> Topic]
  /\ Unreadable \subseteq Topic /\ \A c \in Chan : TopicOf[c] \notin Unreadable
  /\ MaxAttempts \in Nat \ {0} /\ MaxGen \in Nat /\ MaxEnv \in Nat
  /\ NoOne \notin Caller \cup Chan \cup Nat
  /\ Caller \cap Chan = {} /\ (Caller \cup Chan) \cap Nat = {}
  /\ "AddChannel" \notin Ops
  /\ Malformed \subseteq Nat /\ Endpoints \subseteq {"good", "bad", "partial"}

VARIABLES
  \* the client actor
  pc,        \* where the actor is
  cur,       \* the Connect, Disconnect or SetAccessToken being handled
  inbox,     \* the unbounded mpsc queue behind ClientManager.tx
  attempts,  \* reconnect_attempts
  todo,      \* channels the actor's loop has still to visit
  handles,   \* connections whose tasks are in join_handles
  wsTx,      \* the connection ws_tx feeds, 0 for None
  endpoint,  \* how the configured endpoint parses; never changes
  \* shared with the tasks
  cstate,    \* Arc<Mutex<ClientState>>
  channels,  \* Arc<Mutex<Vec<ChannelManager>>>
  lock,      \* who holds the mutex of channels
  token,     \* the access token, as the number of times it was set
  \* the connections, numbered in the order they were opened
  gen,       \* the newest one
  recv,      \* recv[g]: the receive task of connection g
  aborted,   \* connections whose tasks have been told to abort
  sending,   \* connections whose send task is alive
  stream,    \* stream[g]: what read.next() has to come after inq[g]
  inq,       \* inq[g]: messages that have arrived and not been read
  out,       \* out[g]: frames of the channels that the queue of g accepted
  \* the channels
  chan,      \* chan[c]: what c shows, see ChannelView
  mail,      \* mail[c]: subscribes and unsubscribes posted and not awaited
  deaf,      \* channels whose message task has returned
  heard,     \* heard[c]: how many of got[c] the message task has handled
  build,     \* build[c]: how far its builder is and what it was answered
  \* callers, and what the properties remember
  call,      \* call[p]: the outstanding call of party p
  added,     \* added[c]: gen and token when c was added
  wanted,    \* no Disconnect has completed since the last Connect of a caller
  sent,      \* every message the server has sent; elsewhere named by position
  got,       \* got[c]: the messages routed to c
  budget     \* steps left to the environment

actorVars == <<pc, cur, inbox, attempts, todo, handles, wsTx, endpoint>>
sharedVars == <<cstate, channels, lock, token>>
connVars == <<gen, recv, aborted, sending, stream, inq>>
taskVars == <<deaf, heard>>
chanVars == <<out, chan, mail, taskVars, got, build, added>>
vars == <<actorVars, sharedVars, connVars, chanVars, call, wanted, sent, budget>>

-----------------------------------------------------------------------------
Gen   == 1..MaxGen
Party == Caller \cup Chan \cup Gen    \* a builder is named after its channel

BuildOps == <<"GetWsTx", "GetAccessToken", "GetAccessTokenArc", "AddChannel">>
AllOps   == {"Connect", "Disconnect", "SetAccessToken", "GetState"} \cup Range(BuildOps)
Request  == [op : AllOps, by : Party \cup {NoOne}]
Free     == 0                          \* holders of the lock besides the tasks
Actor    == MaxGen + 1
NoReq    == [op |-> "GetState", by |-> NoOne]

ClientState == {"Reconnect", "Reconnecting", "Open", "Closed"}
\* A message of the server; re is the channel whose join it confirms, if any.
Message  == [conn : Gen, topic : Topic, re : Chan \cup {NoOne}]
Frame    == [event : {"phx_join", "phx_leave", "access_token"}, from : Chan, tok : Nat]
NoTask   == [at |-> "none", scan |-> <<>>, kept |-> <<>>, msg |-> 0]

\* A connection accepts frames as long as its send task holds the receiver.
View == INSTANCE ChannelView WITH Channel <- Chan, Conn <- Gen, open <- sending

TypeOK ==
  /\ pc \in {"recv", "request", "dial", "open", "rebindLock", "rebind", "leave",
             "rejoin", "reauthLock", "reauth", "dead"}
  /\ cur \in Request /\ inbox \in Seq(Request)
  /\ attempts \in 0..MaxAttempts /\ todo \in Seq(Chan)
  /\ handles \subseteq Gen /\ wsTx \in 0..MaxGen /\ endpoint \in Endpoints
  /\ cstate \in ClientState /\ channels \in Seq(Chan)
  /\ lock \in {Free, Actor} \cup Gen /\ token \in Nat
  /\ gen \in 0..MaxGen /\ aborted \subseteq Gen /\ sending \subseteq Gen
  /\ recv \in [Gen -> [at : {"none", "reading", "locking", "filter", "dispatch",
                             "waiting", "gone"},
                       scan : Seq(Chan), kept : Seq(Chan), msg : Nat]]
  /\ stream \in [Gen -> {"up", "err", "ended"}] /\ inq \in [Gen -> Seq(Nat)]
  /\ out \in [Gen -> Seq(Frame)]
  /\ chan \in [Chan -> View!Shown \cup {View!Unbuilt, View!Broken}]
  /\ mail \in [Chan -> Seq({"Subscribe", "Unsubscribe"})]
  /\ deaf \subseteq Chan /\ heard \in [Chan -> Nat] /\ got \in [Chan -> Seq(Nat)]
  /\ build \in [Chan -> [at : 0..6, tx : 0..MaxGen, tok : Nat]]
  /\ call \in [Party -> [st : {"idle", "waiting", "ok", "refused"}, val : Nat]]
  /\ added \in [Chan -> [gen : 0..MaxGen, tok : Nat]]
  /\ wanted \in BOOLEAN /\ sent \in Seq(Message) /\ budget \in Nat

\* RealtimeClientBuilder::connect: the actor starts by connecting.
Init ==
  /\ pc = "request" /\ cur = [op |-> "Connect", by |-> NoOne] /\ inbox = <<>>
  /\ attempts = 0 /\ todo = <<>> /\ handles = {} /\ wsTx = 0 /\ endpoint \in Endpoints
  /\ cstate = "Closed" /\ channels = <<>> /\ lock = Free /\ token = 0
  /\ gen = 0 /\ recv = [g \in Gen |-> NoTask] /\ aborted = {} /\ sending = {}
  /\ stream = [g \in Gen |-> "up"] /\ inq = [g \in Gen |-> <<>>]
  /\ out = [g \in Gen |-> <<>>] /\ chan = [c \in Chan |-> View!Unbuilt]
  /\ mail = [c \in Chan |-> <<>>] /\ deaf = {} /\ heard = [c \in Chan |-> 0]
  /\ got = [c \in Chan |-> <<>>]
  /\ build = [c \in Chan |-> [at |-> 0, tx |-> 0, tok |-> 0]]
  /\ call = [p \in Party |-> [st |-> "idle", val |-> 0]]
  /\ added = [c \in Chan |-> [gen |-> 0, tok |-> 0]]
  /\ wanted = TRUE /\ sent = <<>> /\ budget = MaxEnv

-----------------------------------------------------------------------------
(* Pieces of the actor.                                                    *)

Takes(op) == pc = "recv" /\ inbox # <<>> /\ Head(inbox).op = op

Waits(p)     == [call EXCEPT ![p] = [st |-> "waiting", val |-> 0]]
Gets(p, v)   == IF p = NoOne THEN call ELSE [call EXCEPT ![p] = [st |-> "ok", val |-> v]]

\* An unwrap() of the actor fails. The queue is dropped with the responders in
\* it, and so is the guard of the list; the spawned tasks are left running.
Dies ==
  /\ pc' = "dead" /\ inbox' = <<>> /\ cur' = NoReq /\ todo' = <<>>
  /\ lock' = IF lock = Actor THEN Free ELSE lock
  /\ call' = [p \in Party |-> IF \E r \in Range(inbox) \cup {cur} : r.by = p
                              THEN [st |-> "refused", val |-> 0] ELSE call[p]]

\* res.send(v).unwrap() against let _ = res.send(v).
Strict == {"GetState", "GetAccessTokenArc", "Disconnect"}

\* A request that is handled in one go.
Reply(op, v) ==
  /\ Takes(op)
  /\ \/ /\ op \in Strict /\ Head(inbox).by = NoOne
        /\ Dies
     \/ /\ ~(op \in Strict /\ Head(inbox).by = NoOne)
        /\ inbox' = Tail(inbox) /\ call' = Gets(Head(inbox).by, v)
        /\ UNCHANGED <<pc, cur, todo, lock>>

\* A request that takes several steps: it becomes current, ...
Starts(op, next) ==
  /\ Takes(op)
  /\ cur' = Head(inbox) /\ inbox' = Tail(inbox) /\ pc' = next
\* ... and is answered at the end.
Finishes_Silent == pc' = "recv" /\ cur' = NoReq /\ call' = call   \* mutant: nobody is answered
Finishes == pc' = "recv" /\ cur' = NoReq /\ call' = Gets(cur.by, 0)

\* clear_tasks
ClearTasks_ForgetsToAbort == aborted' = aborted /\ handles' = {}   \* mutant
ClearTasks == aborted' = aborted \cup handles /\ handles' = {}

-----------------------------------------------------------------------------
(* The actor, one action per arm of manager_recv or step of its loops.     *)

HandleGetState ==
  /\ Reply("GetState", 0)
  /\ UNCHANGED <<attempts, handles, wsTx, endpoint, cstate, channels, token, connVars,
                 chanVars, wanted, sent, budget>>

HandleGetAccessToken ==
  /\ \E op \in {"GetAccessToken", "GetAccessTokenArc"} : Reply(op, token)
  /\ UNCHANGED <<attempts, handles, wsTx, endpoint, cstate, channels, token, connVars,
                 chanVars, wanted, sent, budget>>

\* self.ws_tx.clone().unwrap(): fatal when no connection was ever made.
HandleGetWsTx ==
  /\ \/ wsTx # 0 /\ Reply("GetWsTx", wsTx)
     \/ wsTx = 0 /\ Takes("GetWsTx") /\ Dies
  /\ UNCHANGED <<attempts, handles, wsTx, endpoint, cstate, channels, token, connVars,
                 chanVars, wanted, sent, budget>>

HandleAddChannel ==
  /\ lock = Free
  /\ Reply("AddChannel", 0)
  /\ LET c == Head(inbox).by IN
       /\ channels' = Append(channels, c)
       /\ added' = [added EXCEPT ![c] = [gen |-> gen, tok |-> token]]
  /\ UNCHANGED <<attempts, handles, wsTx, endpoint, cstate, token, connVars, out,
                 chan, mail, taskVars, got, build, wanted, sent, budget>>

\* connect_ws: the tasks of the last connection go first.
StartConnect ==
  /\ Starts("Connect", "request")
  /\ ClearTasks
  /\ wanted' = (wanted \/ Head(inbox).by \in Caller)
  /\ UNCHANGED <<attempts, todo, wsTx, endpoint, sharedVars, gen, recv, sending,
                 stream, inq, chanVars, call, sent, budget>>

\* build_request. An endpoint that is no URI is an error, which connect drops; one
\* without an authority, and a token that is no header value, end the actor.
BuildRequest ==
  /\ pc = "request"
  /\ \/ /\ endpoint = "good" /\ token \notin Malformed
        /\ pc' = "dial" /\ attempts' = 0
        /\ UNCHANGED <<cur, inbox, todo, lock, call>>
     \/ /\ endpoint = "bad"
        /\ Finishes
        /\ UNCHANGED <<attempts, inbox, todo, lock>>
     \/ /\ endpoint = "partial" \/ (endpoint = "good" /\ token \in Malformed)
        /\ Dies
        /\ UNCHANGED attempts
  /\ UNCHANGED <<handles, wsTx, endpoint, cstate, channels, token, connVars, chanVars,
                 wanted, sent, budget>>

\* The error of connect_ws is dropped by connect: the caller is answered as if
\* the client were connected, and the ClientState stays what it was.
GivesUp_OneLate(n) == n > MaxAttempts   \* mutant: one attempt more than configured
GivesUp(n) == n >= MaxAttempts

DialFails ==
  /\ pc = "dial"
  /\ "dial_fail" \in Faults \/ gen = MaxGen
  /\ attempts' = attempts + 1
  /\ \/ GivesUp(attempts') /\ Finishes
     \/ ~GivesUp(attempts') /\ UNCHANGED <<pc, cur, call>>
  /\ UNCHANGED <<inbox, todo, handles, wsTx, endpoint, sharedVars, connVars, chanVars,
                 wanted, sent, budget>>

\* The tasks run from here on, before the state is Open and before they are in
\* join_handles.
DialSucceeds ==
  /\ pc = "dial" /\ gen < MaxGen
  /\ gen' = gen + 1
  /\ recv' = [recv EXCEPT ![gen'].at = "reading"]
  /\ sending' = sending \cup {gen'}
  /\ pc' = "open"
  /\ UNCHANGED <<cur, inbox, attempts, todo, handles, wsTx, endpoint, sharedVars,
                 aborted, stream, inq, chanVars, call, wanted, sent, budget>>

MarksOpen_Not == cstate' = cstate   \* mutant: the state is not stored
MarksOpen == cstate' = "Open"

MarkOpen ==
  /\ pc = "open"
  /\ MarksOpen
  /\ handles' = handles \cup {gen}
  /\ wsTx' = gen
  /\ pc' = "rebindLock"
  /\ UNCHANGED <<cur, inbox, attempts, todo, endpoint, channels, lock, token, connVars,
                 chanVars, call, wanted, sent, budget>>

\* The three loops of the actor over the list hold its lock all the way.
LocksList(next) ==
  /\ lock = Free /\ lock' = Actor
  /\ todo' = channels
  /\ pc' = next
Visits(at) == pc = at /\ todo # <<>>
Leaves(at) == pc = at /\ todo = <<>> /\ lock' = Free

LockToRebind ==
  /\ pc = "rebindLock"
  /\ LocksList("rebind")
  /\ UNCHANGED <<cur, inbox, attempts, handles, wsTx, endpoint, cstate, channels,
                 token, connVars, chanVars, call, wanted, sent, budget>>

\* The requests posted to a channel before the one that is awaited come first.
Awaits(c) == mail[c] = <<>>
Speaks(c, e, tok) == out' = [out EXCEPT ![chan[c].tx] =
                               Append(@, [event |-> e, from |-> c, tok |-> tok])]

\* ClientTx, awaited whatever comes of it, then subscribe, which is not: every
\* channel of the list joins, those never subscribed and those that are leaving
\* included.
Rejoined_KeepsTx(c) == View!Rebinds(c, chan[c].tx)   \* mutant: the new sender is not handed out
Rejoined(c) == View!Rebinds(c, wsTx)

Rebind ==
  /\ Visits("rebind")
  /\ LET c == Head(todo) IN
       \/ /\ View!Live(c) /\ Awaits(c)
          /\ Rejoined(c)
          /\ pc' = "rejoin"
          /\ UNCHANGED todo
       \/ /\ ~View!Live(c)
          /\ todo' = Tail(todo)
          /\ UNCHANGED <<pc, chan>>
  /\ UNCHANGED <<cur, inbox, attempts, handles, wsTx, endpoint, sharedVars, connVars,
                 out, mail, taskVars, got, build, added, call, wanted, sent, budget>>

PostsSubscribe_Not(c) == UNCHANGED mail   \* mutant: the channel only gets the sender
PostsSubscribe(c) ==
  mail' = IF View!Live(c) THEN [mail EXCEPT ![c] = Append(@, "Subscribe")] ELSE mail

Rejoin ==
  /\ pc = "rejoin"
  /\ PostsSubscribe(Head(todo))
  /\ pc' = "rebind" /\ todo' = Tail(todo)
  /\ UNCHANGED <<cur, inbox, attempts, handles, wsTx, endpoint, sharedVars, connVars,
                 out, chan, taskVars, got, build, added, call, wanted, sent, budget>>

ConnectDone ==
  /\ Leaves("rebind")
  /\ Finishes
  /\ UNCHANGED <<inbox, attempts, todo, handles, wsTx, endpoint, cstate, channels,
                 token, connVars, chanVars, wanted, sent, budget>>

StartDisconnect ==
  /\ Starts("Disconnect", "leave")
  /\ LocksList("leave")
  /\ UNCHANGED <<attempts, handles, wsTx, endpoint, cstate, channels, token, connVars,
                 chanVars, call, wanted, sent, budget>>

\* What unsubscribe() makes of the channel: nothing to do, a phx_leave, an error.
LeavesNow_Silent(c) == View!Leaves(c) /\ UNCHANGED out   \* mutant: the server is not told
LeavesNow(c) == View!Leaves(c) /\ Speaks(c, "phx_leave", 0)
NothingToLeave(c) == View!Live(c) /\ chan[c].st \in {"Closed", "Leaving"}
CannotLeave(c) == View!Live(c) /\ ~NothingToLeave(c) /\ chan[c].tx \notin sending

\* unsubscribe().await.unwrap().unwrap(): fatal when the channel has panicked
\* and when its sender has no receiver.
Leave ==
  /\ Visits("leave")
  /\ LET c == Head(todo) IN
       \/ /\ Awaits(c)
          /\ \/ NothingToLeave(c) /\ UNCHANGED <<chan, out>>
             \/ LeavesNow(c)
          /\ todo' = Tail(todo)
          /\ UNCHANGED <<pc, cur, inbox, lock, call>>
       \/ /\ ~View!Live(c) \/ (Awaits(c) /\ CannotLeave(c))
          /\ Dies
          /\ UNCHANGED <<chan, out>>
  /\ UNCHANGED <<attempts, handles, wsTx, endpoint, cstate, channels, token, connVars,
                 mail, taskVars, got, build, added, wanted, sent, budget>>

DisconnectDone ==
  /\ Leaves("leave")
  /\ ClearTasks
  /\ cstate' = "Closed"
  /\ wanted' = FALSE
  /\ \/ cur.by # NoOne /\ Finishes /\ UNCHANGED <<inbox, todo>>
     \/ cur.by = NoOne /\ Dies
  /\ UNCHANGED <<attempts, wsTx, endpoint, channels, token, gen, recv, sending, stream,
                 inq, chanVars, sent, budget>>

StartSetAccessToken ==
  /\ Starts("SetAccessToken", "reauthLock")
  /\ token' = token + 1
  /\ UNCHANGED <<attempts, todo, handles, wsTx, endpoint, cstate, channels, lock,
                 connVars, chanVars, call, wanted, sent, budget>>

LockToReAuth ==
  /\ pc = "reauthLock"
  /\ LocksList("reauth")
  /\ UNCHANGED <<cur, inbox, attempts, handles, wsTx, endpoint, cstate, channels,
                 token, connVars, chanVars, call, wanted, sent, budget>>

\* c.reauth().await.unwrap(): fatal when the channel has panicked, or panics now
\* because it is Joined and its sender has no receiver.
Reaches_Joined(c) == chan[c].st = "Joined"   \* mutant: only channels that have joined
Reaches(c) == View!Live(c)

ReAuth ==
  /\ Visits("reauth")
  /\ LET c == Head(todo) IN
       \/ /\ View!Live(c) /\ Awaits(c)
          /\ IF Reaches(c) THEN View!TakesToken(c) ELSE UNCHANGED chan
          /\ IF chan[c].st = "Joined" THEN Speaks(c, "access_token", token)
                                      ELSE UNCHANGED out
          /\ todo' = Tail(todo)
          /\ UNCHANGED <<pc, cur, inbox, lock, call, mail>>
       \/ /\ Awaits(c) /\ chan[c].st = "Joined" /\ chan[c].tx \notin sending
          /\ View!Breaks(c)
          /\ Dies
          /\ UNCHANGED <<out, mail>>
       \/ /\ ~View!Live(c) /\ Dies
          /\ UNCHANGED <<chan, out, mail>>
  /\ UNCHANGED <<attempts, handles, wsTx, endpoint, cstate, channels, token, connVars,
                 taskVars, got, build, added, wanted, sent, budget>>

SetAccessTokenDone ==
  /\ Leaves("reauth")
  /\ Finishes
  /\ UNCHANGED <<inbox, attempts, todo, handles, wsTx, endpoint, cstate, channels,
                 token, connVars, chanVars, wanted, sent, budget>>

ClientActor ==
  \/ HandleGetState \/ HandleGetAccessToken \/ HandleGetWsTx \/ HandleAddChannel
  \/ StartConnect \/ BuildRequest \/ DialFails \/ DialSucceeds \/ MarkOpen
  \/ LockToRebind \/ Rebind \/ Rejoin \/ ConnectDone \/ StartDisconnect \/ Leave \/ DisconnectDone
  \/ StartSetAccessToken \/ LockToReAuth \/ ReAuth \/ SetAccessTokenDone

-----------------------------------------------------------------------------
(* The tasks of a connection.                                              *)

At(g, at)   == recv[g].at = at
Goes(g, at) == recv' = [recv EXCEPT ![g].at = at]
taskRest == <<pc, cur, attempts, todo, handles, wsTx, endpoint, gen, aborted, sending,
              out, mail, taskVars, build, added, wanted, sent, budget>>

\* to_text() of the next frame fails on a binary frame or a ping that is not UTF-8.
IsText(g) == sent[Head(inq[g])].topic \notin Unreadable

\* A frame with a message in it. A text that is no message is skipped.
ReadMessage(g) ==
  /\ At(g, "reading") /\ inq[g] # <<>> /\ IsText(g)
  /\ recv' = [recv EXCEPT ![g].at = "locking", ![g].msg = Head(inq[g])]
  /\ inq' = [inq EXCEPT ![g] = Tail(@)]
  /\ UNCHANGED <<taskRest, sharedVars, stream, chan, got, inbox, call>>

\* The unwrap() of to_text() ends the task, and nobody reads the connection any
\* more; the ClientState stays what it was, and the other tasks go on.
ReadPanics(g) ==
  /\ At(g, "reading") /\ inq[g] # <<>> /\ ~IsText(g)
  /\ Goes(g, "gone")
  /\ inq' = [inq EXCEPT ![g] = Tail(@)]
  /\ UNCHANGED <<taskRest, sharedVars, stream, chan, got, inbox, call>>

\* read.next() is an error: the task asks for a reconnection and reads on; what
\* comes next is the end of the stream.
ReadError(g) ==
  /\ At(g, "reading") /\ inq[g] = <<>> /\ stream[g] = "err"
  /\ cstate' = "Reconnect"
  /\ stream' = [stream EXCEPT ![g] = "ended"]
  /\ UNCHANGED <<taskRest, channels, lock, token, recv, inq, chan, got, inbox, call>>

\* manager.connect()
AsksToConnect_Lost(g) == inbox' = inbox /\ call' = Waits(g)   \* mutant: it is not posted
AsksToConnect(g) ==
  inbox' = Append(inbox, [op |-> "Connect", by |-> g]) /\ call' = Waits(g)

\* read.next() is None. In any state but Reconnect the task only tries again.
ReadEnd(g) ==
  /\ At(g, "reading") /\ inq[g] = <<>> /\ stream[g] = "ended"
  /\ cstate = "Reconnect"
  /\ cstate' = "Reconnecting"
  /\ \/ /\ pc # "dead"
        /\ AsksToConnect(g)
        /\ Goes(g, "waiting")
     \/ /\ pc = "dead"                   \* rx.await.unwrap() in connect
        /\ Goes(g, "gone")
        /\ UNCHANGED <<inbox, call>>
  /\ UNCHANGED <<taskRest, channels, lock, token, stream, inq, chan, got>>

Reconnected(g) ==
  /\ At(g, "waiting") /\ call[g].st \in {"ok", "refused"}
  /\ call' = [call EXCEPT ![g].st = "idle"]
  /\ Goes(g, IF call[g].st = "ok" THEN "reading" ELSE "gone")
  /\ UNCHANGED <<taskRest, sharedVars, stream, inq, chan, got, inbox>>

LockToRoute(g) ==
  /\ At(g, "locking") /\ lock = Free
  /\ lock' = g
  /\ recv' = [recv EXCEPT ![g].at = "filter", ![g].scan = channels, ![g].kept = <<>>]
  /\ UNCHANGED <<taskRest, cstate, channels, token, stream, inq, chan, got, inbox, call>>

\* A request to a panicked channel fails, and so does its unwrap(): the task
\* ends, without the guard of the list.
RecvPanics(g) ==
  /\ At(g, "filter") \/ At(g, "dispatch")
  /\ recv[g].scan # <<>> /\ ~View!Live(Head(recv[g].scan))
  /\ Goes(g, "gone")
  /\ lock' = Free
  /\ UNCHANGED <<taskRest, cstate, channels, token, stream, inq, chan, got, inbox, call>>

\* get_state of the next channel: a Closed one is left out of the new list.
Filter(g) ==
  /\ At(g, "filter") /\ recv[g].scan # <<>>
  /\ LET c == Head(recv[g].scan) IN
       /\ View!Live(c) /\ Awaits(c)
       /\ recv' = [recv EXCEPT ![g].scan = Tail(@),
            ![g].kept = IF chan[c].st = "Closed" THEN @ ELSE Append(@, c)]
  /\ UNCHANGED <<taskRest, sharedVars, stream, inq, chan, got, inbox, call>>

NewList_Added(g) == channels \o recv[g].kept   \* mutant: extends instead of assigns
NewList(g) == recv[g].kept

FilterDone(g) ==
  /\ At(g, "filter") /\ recv[g].scan = <<>>
  /\ channels' = NewList(g)
  /\ recv' = [recv EXCEPT ![g].at = "dispatch", ![g].scan = channels', ![g].kept = <<>>]
  /\ UNCHANGED <<taskRest, cstate, lock, token, stream, inq, chan, got, inbox, call>>

\* get_topic and, for the topic of the message, get_tx().send(msg), which fails
\* in silence when the message task of the channel has returned.
Dispatch(g) ==
  /\ At(g, "dispatch") /\ recv[g].scan # <<>>
  /\ LET c == Head(recv[g].scan)
         m == recv[g].msg IN
       /\ View!Live(c) /\ Awaits(c)
       /\ got' = IF TopicOf[c] = sent[m].topic /\ c \notin deaf
                 THEN [got EXCEPT ![c] = Append(@, m)] ELSE got
  /\ recv' = [recv EXCEPT ![g].scan = Tail(@)]
  /\ UNCHANGED <<taskRest, sharedVars, stream, inq, chan, inbox, call>>

DispatchDone(g) ==
  /\ At(g, "dispatch") /\ recv[g].scan = <<>>
  /\ lock' = Free
  /\ recv' = [recv EXCEPT ![g].at = "reading", ![g].msg = 0]
  /\ UNCHANGED <<taskRest, cstate, channels, token, stream, inq, chan, got, inbox, call>>

ReceiveTask(g) ==
  \/ ReadMessage(g) \/ ReadPanics(g) \/ ReadError(g) \/ ReadEnd(g) \/ Reconnected(g)
  \/ LockToRoute(g) \/ RecvPanics(g) \/ Filter(g) \/ FilterDone(g) \/ Dispatch(g) \/ DispatchDone(g)

\* The request with responder of p is orphaned.
Orphans(p) ==
  LET Orphan(r) == IF r.by = p THEN [r EXCEPT !.by = NoOne] ELSE r IN
  /\ inbox' = [i \in DOMAIN inbox |-> Orphan(inbox[i])]
  /\ cur' = Orphan(cur)
  /\ call' = [call EXCEPT ![p].st = "idle"]

\* An aborted receive task is dropped where it is suspended. It gives back the
\* lock; a channel about to answer it finds its receiver gone, and panics.
GuardOf_Leaked(g) == lock                         \* mutant: the guard is leaked
GuardOf(g) == IF lock = g THEN Free ELSE lock

Cancelled(g) ==
  /\ g \in aborted /\ recv[g].at \notin {"none", "gone"}
  /\ Goes(g, "gone")
  /\ lock' = GuardOf(g)
  /\ Orphans(g)
  /\ \/ UNCHANGED <<chan, mail>>
     \/ /\ lock = g /\ recv[g].scan # <<>>
        /\ LET c == Head(recv[g].scan) IN View!Breaks(c) /\ mail' = [mail EXCEPT ![c] = <<>>]
  /\ UNCHANGED <<pc, attempts, todo, handles, wsTx, endpoint, cstate, channels, token,
                 gen, aborted, sending, stream, inq, out, taskVars, got, build, added,
                 wanted, sent, budget>>

\* The send task: forward(write) ends with the socket or by the abort.
SendEnds(g) ==
  /\ g \in sending
  /\ g \in aborted \/ stream[g] # "up"
  /\ sending' = sending \ {g}
  /\ UNCHANGED <<actorVars, sharedVars, gen, recv, aborted, stream, inq, chanVars,
                 call, wanted, sent, budget>>

-----------------------------------------------------------------------------
(* The channels: requests that were posted and not awaited, and the task of  *)
(* client_recv.                                                            *)

channelRest == <<actorVars, sharedVars, connVars, build, added, call, wanted, sent,
                 budget>>

\* subscribe: the phx_join goes out when the connection is there to take it.
PerformSubscribe(c) ==
  /\ mail[c] # <<>> /\ Head(mail[c]) = "Subscribe"
  /\ View!Subscribes(c)
  /\ IF chan[c].tx \in sending THEN Speaks(c, "phx_join", chan[c].tok) ELSE UNCHANGED out
  /\ mail' = [mail EXCEPT ![c] = Tail(@)]
  /\ UNCHANGED <<channelRest, taskVars, got>>

\* unsubscribe: the holder is told of an error, and the state stays.
PerformUnsubscribe(c) ==
  /\ mail[c] # <<>> /\ Head(mail[c]) = "Unsubscribe"
  /\ \/ LeavesNow(c)
     \/ (NothingToLeave(c) \/ CannotLeave(c)) /\ UNCHANGED <<chan, out>>
  /\ mail' = [mail EXCEPT ![c] = Tail(@)]
  /\ UNCHANGED <<channelRest, taskVars, got>>

\* The task takes the next message. The reply to its own join makes the channel
\* Joined, the reply to another's ends the task.
OwnReply(c, re) == re = c
Joins_Not(c) == UNCHANGED chan   \* mutant: the state is not stored
Joins(c) == IF View!Live(c) THEN View!Confirmed(c) ELSE UNCHANGED chan

HandleMessage(c) ==
  /\ c \notin deaf /\ heard[c] < Len(got[c])
  /\ LET re == sent[got[c][heard[c] + 1]].re IN
       \/ /\ re = NoOne
          /\ heard' = [heard EXCEPT ![c] = @ + 1]
          /\ UNCHANGED <<deaf, chan>>
       \/ /\ OwnReply(c, re)
          /\ heard' = [heard EXCEPT ![c] = @ + 1]
          /\ Joins(c)
          /\ UNCHANGED deaf
       \/ /\ re # NoOne /\ ~OwnReply(c, re)
          /\ deaf' = deaf \cup {c} /\ heard' = [heard EXCEPT ![c] = Len(got[c])]
          /\ UNCHANGED chan
  /\ UNCHANGED <<channelRest, out, mail, got>>

ChannelTasks(c) == PerformSubscribe(c) \/ PerformUnsubscribe(c) \/ HandleMessage(c)

-----------------------------------------------------------------------------
(* Callers, builders, holders of channels, the server and the network.     *)

Spend == budget > 0 /\ budget' = budget - 1
callerRest == <<pc, cur, attempts, todo, handles, wsTx, endpoint, sharedVars, connVars,
                out, taskVars, got, wanted, sent>>

\* ClientManager.send, then rx.await.
Posts(p, op) ==
  \/ /\ pc # "dead"
     /\ inbox' = Append(inbox, [op |-> op, by |-> p])
     /\ call' = Waits(p)
  \/ /\ pc = "dead"
     /\ call' = [call EXCEPT ![p] = [st |-> "refused", val |-> 0]]
     /\ UNCHANGED inbox

Ask(k, op) ==
  /\ op \in Ops /\ call[k].st = "idle"
  /\ Posts(k, op)
  /\ Spend
  /\ UNCHANGED <<callerRest, chan, mail, build, added>>

Resume(k) ==
  /\ call[k].st \in {"ok", "refused"}
  /\ call' = [call EXCEPT ![k].st = "idle"]
  /\ UNCHANGED <<callerRest, chan, mail, build, added, inbox, budget>>

Abandon(k) ==
  /\ "cancel" \in Faults /\ call[k].st = "waiting"
  /\ Orphans(k)
  /\ Spend
  /\ UNCHANGED <<pc, attempts, todo, handles, wsTx, endpoint, sharedVars, connVars,
                 chanVars, wanted, sent>>

\* RealtimeChannelBuilder::build: three questions, build_common, add_channel.
BuildAsks(c) ==
  /\ build[c].at \in 0..3 /\ call[c].st = "idle"
  /\ IF build[c].at = 0 THEN Spend ELSE UNCHANGED budget
  /\ build' = [build EXCEPT ![c].at = @ + 1]
  /\ Posts(c, BuildOps[build'[c].at])
  /\ IF build'[c].at = 4 THEN View!Built(c, build[c].tx, build[c].tok)
                         ELSE UNCHANGED chan
  /\ UNCHANGED <<callerRest, mail, added>>

\* A refusal fails the build; only a build that succeeds returns the manager.
BuildResumes(c) ==
  /\ call[c].st \in {"ok", "refused"}
  /\ call' = [call EXCEPT ![c].st = "idle"]
  /\ build' = [build EXCEPT
       ![c].tx  = IF build[c].at = 1 THEN call[c].val ELSE @,
       ![c].tok = IF build[c].at = 2 THEN call[c].val ELSE @,
       ![c].at  = IF call[c].st = "refused" THEN 6 ELSE IF @ = 4 THEN 5 ELSE @]
  /\ UNCHANGED <<callerRest, chan, mail, added, inbox, budget>>

\* The holder of the ChannelManager subscribes or unsubscribes.
HolderPosts(c, op) ==
  /\ build[c].at = 5 /\ View!Live(c)
  /\ mail' = [mail EXCEPT ![c] = Append(@, op)]
  /\ Spend
  /\ UNCHANGED <<callerRest, chan, build, added, call, inbox>>

\* RealtimeChannel says when: the holder sends on a channel that is leaving or
\* disconnected, or abandons a call.
ChannelPanics(c) ==
  /\ "channel_panic" \in Faults
  /\ build[c].at = 5 /\ View!Breaks(c)
  /\ mail' = [mail EXCEPT ![c] = <<>>]
  /\ Spend
  /\ UNCHANGED <<callerRest, build, added, call, inbox>>

wireRest == <<actorVars, sharedVars, gen, recv, aborted, sending, chanVars, call,
              wanted>>

\* The server sends a message of a topic or a frame that is no text, or confirms a
\* join it was sent there.
ServerSends(g, t, re) ==
  /\ g \in 1..gen /\ stream[g] = "up"
  /\ sent' = Append(sent, [conn |-> g, topic |-> t, re |-> re])
  /\ inq' = [inq EXCEPT ![g] = Append(@, Len(sent'))]
  /\ UNCHANGED <<wireRest, stream>>

Confirms(g, c) ==
  /\ \E i \in DOMAIN out[g] : out[g][i].event = "phx_join" /\ out[g][i].from = c
  /\ ServerSends(g, TopicOf[c], c)

\* The connection breaks, or the server closes it in order.
ConnEnds(g, how) ==
  /\ "conn_loss" \in Faults
  /\ g \in 1..gen /\ stream[g] = "up"
  /\ stream' = [stream EXCEPT ![g] = how]
  /\ Spend
  /\ UNCHANGED <<wireRest, inq, sent>>

Server == \E g \in Gen : /\ \/ \E t \in Topic : ServerSends(g, t, NoOne)
                            \/ \E c \in Chan : Confirms(g, c)
                         /\ Spend

Environment ==
  \/ \E k \in Caller : Resume(k) \/ Abandon(k) \/ \E op \in AllOps : Ask(k, op)
  \/ \E c \in Chan : \/ BuildAsks(c) \/ BuildResumes(c) \/ ChannelPanics(c)
                     \/ \E op \in {"Subscribe", "Unsubscribe"} : HolderPosts(c, op)
  \/ \E g \in Gen, how \in {"err", "ended"} : ConnEnds(g, how)

\* All but the server.
Local ==
  \/ ClientActor
  \/ \E g \in Gen : ReceiveTask(g) \/ Cancelled(g) \/ SendEnds(g)
  \/ \E c \in Chan : ChannelTasks(c)
  \/ Environment

Next == Local \/ Server

Spec == Init /\ [][Next]_vars

\* Every task that can run eventually runs, an abort eventually takes effect,
\* and the waiters of the list's mutex get it in turn. A builder goes on with
\* the questions it has begun. Attempts to connect end: MaxGen and MaxAttempts
\* bound them.
Fairness ==
  /\ WF_vars(ClientActor) /\ SF_vars(LockToRebind \/ LockToReAuth \/ StartDisconnect
                                        \/ HandleAddChannel)
  /\ \A g \in Gen : /\ WF_vars(ReceiveTask(g)) /\ SF_vars(LockToRoute(g))
                   /\ WF_vars(Cancelled(g)) /\ WF_vars(SendEnds(g))
  /\ \A c \in Chan : /\ WF_vars(PerformSubscribe(c) \/ PerformUnsubscribe(c))
                    /\ WF_vars(HandleMessage(c))
  /\ \A c \in Chan : WF_vars(BuildResumes(c)) /\ WF_vars(build[c].at > 0 /\ BuildAsks(c))

FairSpec == Spec /\ Fairness

-----------------------------------------------------------------------------
(* What the client promises.                                               *)

Running(g) == recv[g].at \notin {"none", "gone"}

\* However connect, disconnect, broken connections and panics interleave, only
\* the newest connection has a receive task that was not told to stop: two
\* connections never both feed the channels for good (clear_tasks before every
\* dial, join_handles after it).
OneReader == \A g \in Gen : Running(g) /\ g \notin aborted => g = gen

\* Whoever awaits the client's actor, be it a caller, a builder or a receive task, is
\* named in exactly one request, queued or under way, and who does not wait is in
\* none: no answer is forgotten on an error path, given twice, or lost with the
\* actor when it panics.
OneResponder ==
  \A p \in Party :
    /\ call[p].st = "waiting" <=> cur.by = p \/ \E i \in DOMAIN inbox : inbox[i].by = p
    /\ \A i \in DOMAIN inbox : inbox[i].by = p =>
         cur.by # p /\ \A j \in DOMAIN inbox : inbox[j].by = p => i = j

\* The list has one owner at a time, it is one that is in its critical section,
\* and an owner that ends, by cancellation or panic, gives the list back.
ListOwned ==
  /\ lock = Actor <=> pc \in {"rebind", "rejoin", "leave", "reauth"}
  /\ \A g \in Gen : lock = g <=> recv[g].at \in {"filter", "dispatch"}

\* Between two requests of the client, every live channel that was in the list
\* when the newest connection was made sends on that connection: no reconnection
\* leaves a channel behind on a dead socket.
Rebound ==
  \A c \in Range(channels) :
    pc = "recv" /\ View!Live(c) /\ added[c].gen < wsTx => chan[c].tx = wsTx

\* Between two requests of the client, every live channel that was in the list
\* when the token was last set has it in its join payload.
TokenCascades ==
  \A c \in Range(channels) :
    pc = "recv" /\ View!Live(c) /\ added[c].tok < token => chan[c].tok = token

\* What the channels are given is what Delivery promises: over one connection each
\* message at most once and in the order the server sent them, whatever becomes of
\* the list and of the receive task in between.
Routing == INSTANCE Delivery
Delivers == Routing!Spec

\* Reconnecting means that a Connect is queued or under way, or that the last one
\* gave up; the client is never left in that state with attempts to spare.
ReconnectUnderWay ==
  cstate = "Reconnecting" =>
    \/ cur.op = "Connect" \/ \E r \in Range(inbox) : r.op = "Connect"
    \/ attempts = MaxAttempts \/ pc = "dead"

\* Every call of the client is answered or refused: no schedule of reconnection,
\* disconnection and routing leaves the actor waiting for the list, or a caller
\* waiting for an actor that has died.
CallsSettle == \A p \in Party : call[p].st = "waiting" ~> call[p].st # "waiting"

\* src/src/realtime_client.rs:105 says of disconnect "Disconnect the client". A
\* Connect that the receive task has queued behind it connects again, and every
\* channel joins again.
DisconnectIsFinal == ~wanted => \A g \in Gen : Running(g) => g \in aborted

\* src/src/realtime_channel.rs:697 says that build "Automatically assigns the new
\* channel in the client". Any message, whatever its topic, that arrives before
\* the holder subscribes takes the channel out again.
BuiltIsAssigned ==
  \A c \in Chan : build[c].at = 5 /\ chan[c].st \in {"Joining", "Joined"} => c \in Range(channels)

\* src/src/realtime_client.rs:137 says that a new token "cascades through all
\* connected channels". A channel whose builder asked for the token before it
\* was set and is added after joins with the old one.
CascadesToAll ==
  \A c \in Range(channels) :
    pc = "recv" /\ chan[c].st \in {"Closed", "Joining", "Joined"} => chan[c].tok = token

\* src/src/realtime_client.rs:30 says that Reconnect is "Client wants to
\* reconnect". A connection that breaks before connect_ws has marked it Open
\* never is replaced: Open overwrites the wish.
WishIsGranted == cstate = "Reconnect" ~> cstate \in {"Reconnecting", "Closed"}

=============================================================================
