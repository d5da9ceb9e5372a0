# Models and proofs of realtime-rs

TLA+ models of the client library under `src/` (a client of the Supabase
Realtime server: Phoenix channels over one websocket, with broadcast, presence
and Postgres changes), the TLC runs that check them on small instances, and
proofs of the theorems that hold for every instance.

| module | models | proofs |
|---|---|---|
| `ChannelView` | what a channel shows its client and its holder (abstract) | |
| `RealtimeChannel` | the actor of a channel, its message task, the tasks of `subscribe_blocking`; implements `ChannelView` | `RealtimeChannel_proofs`, `RealtimeChannel_responders` |
| `Delivery` | what the client promises about the messages of the server (abstract) | |
| `RealtimeClient` | the client's actor, the send and receive task of each connection, the channel builders, with channels that move as `ChannelView` says; implements `Delivery` | `RealtimeClient_types`, `RealtimeClient_core`, `RealtimeClient_proofs` |
| `RealtimeSession` | `RealtimeClient` with the queues of the send tasks, heartbeats, and the server's membership of each channel | `RealtimeSession_proofs` |
| `RealtimePresence` | the presence state of a channel, its `sync` and `sync_diff` | `RealtimePresence_proofs` |
| `Payload` | the untagged payload type: which variant a JSON object becomes | |
| `RealtimeDispatch` | `RealtimePresence` with the registrations of a builder and every arm of `client_recv`, on top of `Payload` | `RealtimeDispatch_proofs` |

`RealtimeSession` extends `RealtimeClient`, which has `ChannelView` and `Delivery` as
instances; `RealtimeDispatch` extends `RealtimePresence` and has `Payload` as one. The
modules that TLC runs have an `MC...` module with the values their `.cfg` files assign.
To check one: `tlc -config client_safety.cfg MCRealtimeClient.tla`; to prove one:
`tlapm RealtimeChannel_proofs.tla`, which says nothing of the modules it extends.

## The system

Everything runs on one multi-threaded tokio runtime. State is owned by actors
that take requests from unbounded queues and answer through oneshot channels
(`Responder`), and a little of it is shared under tokio mutexes.

**Client actor** (`realtime_client.rs`: `manager_recv`, `connect_ws`,
`disconnect`). Owns `ws_tx` and `join_handles`; shares `state`, `channels` and
`access_token`. Operations: Connect, Disconnect, SetAccessToken, AddChannel and
four that read. A Connect aborts the tasks of the previous connection, dials with
retries, spawns the tasks of the new one, stores Open, hands the new sender to
every channel of the list and subscribes it. It must keep one connection current,
leave no channel behind on a dead one, and answer every request.

**Send, receive and heartbeat task** of a connection (in `connect_ws`). The receive
task turns a read error into the state Reconnect, and the end of the stream, in
that state, into Reconnecting and a Connect request to the actor, which will
abort it. For every message it locks the list of channels, asks each channel
for its state, replaces the list by the channels that are not Closed, and routes
the message to those of its topic. It must give the lock back however it ends and
route nothing twice. A frame that is no message is skipped, one that is not even text
makes it panic.

**Channel builder** (`RealtimeChannelBuilder::build`). Asks the client for the
sender, the token and the mutex of the token, one request each, spawns the actor and
the message task, and registers the manager with a fourth request.

**Channel actor** (`realtime_channel.rs`: `manager_recv`). Owns the join payload and
the sender of the connection; shares the state (Closed, Joining, Joined, Leaving)
and the token. Operations: Subscribe, SubscribeBlocking, Unsubscribe, Broadcast,
PresenceTrack, PresenceUntrack, ReAuth, ClientTx and four that read. Several
`unwrap()`s end it with everything in its mailbox. It must answer each caller once,
be in Leaving only when the server was told, and never take back a token.

**Message task** (`client_recv`). Consumes the messages routed to the channel, by the
variant their payload was read as: a reply to the join marks the channel Joined, a
reply with another ref ends the task, changes and broadcasts run callbacks,
presence messages change the presence state. Each callback must run once for each
message it was registered for.

**Tasks of `subscribe_blocking`**. Each spins on the state until it sees Joined and
answers its caller.

**Presence** (`realtime_presence.rs`). A map from ids to refs to data. `sync` takes a
whole new state, `sync_diff` joins and leaves. It must list what the server lists.

**Payload** (`message/payload.rs`). An untagged enum: the first variant that can be read
from the JSON wins, whatever the event of the message. Each message must reach the arm
that is there for it.

**The rest**: `build_request`, builders' setters, the default back-off, the Postgres change
filter, the sync wrappers.

Who calls whom: callers reach both actors through managers; the client's actor calls
the channels (ClientTx, Subscribe, Unsubscribe, ReAuth) and awaits them; the receive
task calls the channels (GetState, GetTopic, GetTx) with the list locked, and the
client's actor (Connect) without it; builders call the client's actor; channels
call nobody and write into the queue of the current send task.

What makes it hard: tasks are aborted between their steps; callers drop their
futures; a panic in one actor makes the `unwrap()`s of those who ask it fail; the
actor holds the list lock across awaits; the connection may break at any point of
connecting; tokens, senders and lists are read in one request and used in another.
`PROJECT.json` lists the hazards at their lines.

## RealtimeChannel

| code | model |
|---|---|
| `RealtimeChannel` and its queue | `actor`, `mailbox`, `clientTx`, `joinToken` |
| the shared state | `chState` |
| `tx` / `channel_rx`, `message_handle` | `rx`, `msgTask` |
| loops spawned by `subscribe_blocking` | `spinners` (the callers they will answer) |
| a call and its oneshot receiver | `call`; a responder is a caller's name in a request, `NoOne` once the receiver is dropped |
| the queue of a send task, its receiver | `out`, `txOpen` |
| arms of `manager_recv` | `Handle...`, one each; the four that only read are `HandleQuery` |
| arms of `client_recv` | `HandleForeignReply`, `HandleJoinReply`, `HandleEvent`, `CallbackPanics`, `MsgTaskEnds` |
| which of `cancel`, `conn_loss`, `use_after_leave` have happened | `fault` |

A handler is one step. What it awaits are mutexes, and every interleaving of its pieces
ends in a state that some order of whole handlers reaches: the only other writer of
the state is the message task, which only ever writes Joined. A failing
`unwrap()` is `Panic`: the mailbox is dropped with its responders, whose callers
are refused. Frames are kept with what the properties read: kind, channel, token.

The environment is open: any caller may post any request of `Ops` in any order, any
message may be routed at any time, connections drop (`conn_loss`), callers abandon
calls (`cancel`), callbacks panic (`callback_panic`), and a manager is used to send after
its unsubscribe (`use_after_leave`; `realtime_channel.rs:122` tells callers not to).

Properties: `OneResponder`, `LeavingMeansLeft`, `TokenNeverRegresses`, `NoPanic`
(until the first fault), `ShowsView`, and, under fairness, `CallsSettle`,
`JoinCompletes`, `WaitersReleased`.

`ChannelView` has one record per channel (state, connection, token) and an action for each
way it changes: built, subscribed, confirmed, left, rebound, given the token, broken.
`ShowsView` says that `RealtimeChannel` implements it under the mapping `Shows`. It is the
interface between the two halves of the project: `RealtimeClient` may use no other
step of a channel, so its channels do nothing that the channel in full does not do.

## RealtimeClient

| code | model |
|---|---|
| `RealtimeClient` and its queue | `pc`, `cur`, `inbox`, `attempts`, `todo`, `handles`, `wsTx`, `endpoint` |
| `state`, `channels` and its mutex, `access_token` | `cstate`, `channels`, `lock`, `token` |
| receive task of connection g | `recv[g]`: where it is, the part of the list it has still to visit, the new list, the message |
| what it will read | `inq[g]`, and then `stream[g]`: nothing yet, an error, or the end |
| send task and its queue | membership in `sending`, `out[g]` |
| `abort()` | `aborted`; `Cancelled` ends the task at any later point |
| a channel | `chan[c]` (`ChannelView`); `mail[c]`, the subscribes and unsubscribes nobody awaits; `deaf`, `heard`, its message task |
| `build` | `build[c].at`, 1 to 4 while a question is out, 5 when it has returned the manager, 6 when it failed |

The actor has a step for each place where it waits: for the dial, for the list lock,
for a channel. `build_request` has its three outcomes: a request, an error (an endpoint
that is no URI), a panic (an endpoint without an authority, a token that is no header
value; `Malformed` names the tokens). A request to a channel that is awaited is one
step, taken when the channel has handled the requests posted before it (`Awaits`),
because a channel answers in order; a subscribe is posted and handled later, so a
rejoin, an unsubscribe and the reply to a join meet in every order. A frame that is no text
is a message with a topic of `Unreadable`, which no channel has: `ReadPanics` ends the receive
task where `ReadMessage` would go on. Faults:
`conn_loss` (the stream ends with an error or in order), `dial_fail`, `cancel`, and
`channel_panic`, which stands for the panics of `RealtimeChannel`.

Properties: `OneResponder`, `OneReader`, `ListOwned`, `ReconnectUnderWay`, `Rebound`, `TokenCascades`,
`Delivers`, and, under fairness, `CallsSettle`.

`Delivery` promises that over one connection a channel is given messages of its topic only,
each at most once, in the order they were sent. `Delivers` says that `RealtimeClient`
implements it, with `sent` and `got` in place of its variables: whatever the list, the
aborts and the panics do, no message is routed twice, late, or to another topic.

## RealtimeSession

Adds to `RealtimeClient` the write half of a connection and what it leads to.

| code | model |
|---|---|
| how far the send task is with its queue | `written[g]`; the frames behind it are lost when the task ends |
| the heartbeat task | `Heartbeat`, at any time; `beats`, those without an answer |
| the server (external) | `member[g]`, the channels it holds; `owed[g]`, the joins it has to confirm |

The server admits a channel on phx_join and confirms it later, lets it go on phx_leave,
answers heartbeats on a topic of their own, sends its members messages, and forgets a
connection that broke or whose two halves were dropped. It may also send a frame that is no
text (`ServerGarbles`).

`Agrees`: when everything between a channel and the server is dealt with, both agree on
whether it is joined. The one exception is written into it: a channel whose unsubscribe is
overtaken by the reply to its join says Joined after its phx_leave. `LostIsRejoined`: a
client in Reconnecting makes a connection newer than the one it lost and brings every
subscribed channel back to the server on it, so the request to connect is not lost and
neither is any subscribe of the rejoin. `JoinsSettle`: a join is confirmed or left.
`ServerIsLeft`: a disconnect leaves no channel on the server, also when it aborts the send
task before the phx_leaves are written. The last three list the ways out the code
leaves open: the client gives up, dies or is disconnected, the newer connection breaks
too; for `JoinsSettle` that the channel was evicted from the list, or that nobody reads its
connection, because a newer one replaced it or a frame was no text.

## RealtimePresence

A phx_ref stands for the data under it. On the wire an id has a list of refs, in the state a
set of them (`FromRaw`). `DiffOf` is what `sync` computes, `SyncDiff` what `sync_diff` does
to the state, and `heard` and `gone` collect the refs given to Join and Leave callbacks.
The two filters of `sync` are closures of an iterator that is never driven
(`realtime_presence.rs:34` and `:54`), so they never run, and `DiffOf` has none.
The server (external) gives each update a new ref, sends the whole presence after a
join and every change after that, in order; a lost connection takes the unread
messages with it.

`Mirrors`: a joined channel that has handled every message lists what the server lists.
It holds while no two devices share an id (checked as `PresenceMirrors`, below) and
fails when they do. `LeavesWereJoined`: no Leave callback names a ref that no Join callback
named.

## Payload and RealtimeDispatch

`Payload` abstracts a JSON object to its fields and what their values look like. `Fields` is
what each struct requires, `Variants` the order in which serde tries them, `VariantOf` the
outcome.

| code | model |
|---|---|
| `RealtimeChannelBuilder`: the join configuration, the two callback maps | `builder`; `regs` is the history of registrations |
| the copies of `build_common` | `channel`, `built` |
| `client_recv` | `HandleMessage`: reads the payload, then one arm |
| `PostgresChangeFilter::check` | `Check` |
| the message task | `alive` |

A callback is named by its place among the registrations; `ran` records each run with the
message it was for. The server (external) sends a change when an entry of the join
configuration asks for it, broadcasts, replies of both statuses, the confirmed join of
another channel of the topic, presence, and phx_close or phx_error.

`RunOnce` compares the runs with a definition that knows nothing of maps, filters or
variants: registration r wants message m. `AskedIsRun` relates the two copies made at
build: a change the server was asked for runs a callback that asked for it.
`TaskGoesOn`: only a confirmed join of another channel ends the task. `PresenceMirrors`:
`Mirrors`, with the messages in between and the empty payloads that are read as presence.

## Runs

| run | instance | shows |
|---|---|---|
| `channel_safety` | 1 channel, 2 callers, 2 connections, all requests, all faults, 5 environment steps | `TypeOK`, `OneResponder`, `LeavingMeansLeft`, `TokenNeverRegresses`, `NoPanic`, `ShowsView` |
| `channel_live` | 1 channel, 1 caller, all faults, 5 steps, fair | `CallsSettle`, `JoinCompletes`, `WaitersReleased` |
| `client_safety` | 2 channels of one topic, frames that are no text, 1 caller, 2 connections, 2 attempts, all faults, all endpoints, token 2 malformed, 4 steps | `TypeOK`, `OneResponder`, `OneReader`, `ListOwned`, `ReconnectUnderWay`, `Rebound`, `TokenCascades`, `Delivers` |
| `client_live` | 1 channel, frames that are no text, 1 caller, 2 connections, all faults, 3 steps, fair | `CallsSettle` |
| `session` | 1 channel, the heartbeat topic, frames that are no text, 1 caller, 2 connections that may break, 3 steps, fair | `Agrees`, `LostIsRejoined`, `JoinsSettle`, `ServerIsLeft` |
| `dispatch` | 2 registrations (one on a row, one on a schema) or broadcasts, 4 kinds of change, 2 of them sent, 1 other message, 2 devices, 2 refs, 1 lost connection | `DispatchTypeOK`, `RunOnce`, `AskedIsRun`, `TaskGoesOn`, `PresenceMirrors`, `LeavesWereJoined` |
| `subscribe_blocking_error` | violated | `ReplyReleasesWaiter`: an error reply does not release the caller |
| `disconnect_undone` | violated | `DisconnectIsFinal`: a reconnection queued behind a Disconnect connects again |
| `channel_evicted` | violated | `BuiltIsAssigned`: a message before the first subscribe drops the channel from the client |
| `token_outrun` | violated | `CascadesToAll`: a channel built while the token is set keeps the old one |
| `reconnect_lost` | violated | `WishIsGranted`: a connection that breaks before Open is stored is never replaced |
| `presence_shared_key` | violated | `Mirrors` with two devices under one id |

The violated runs state what a comment of the source promises; `PROJECT.json` quotes it.

Bounds. `MaxEnv` bounds the steps of callers, server, network and faults together;
the tasks themselves are never bounded. One environment step per request, message or
fault: four or five are enough for build, join, token, loss and reconnect to meet,
and every violation above needs at most four. In `session` a build, a subscribe and one
further step (a loss, a heartbeat, a frame that is no text, a Disconnect, a second subscribe) already meet a server
whose confirmations and answers cost nothing. `MaxGen` bounds the connections that
are opened (a further dial fails) and `MaxAttempts` is the code's own limit. One
channel suffices in `RealtimeChannel`, where channels share only callers and the token;
two connections make a rebinding visible; `u2` is the id of some other builder, for
foreign replies. In `client_safety` two channels of one topic make the list worth
rebuilding and a message go to both. In `dispatch` two registrations share an event, or
not, and two messages can come in either order; `MaxWire` bounds how far the server is
ahead of the task, so a message can overtake nothing but wait behind another, and `MaxRef`
lets a device track twice or two devices once. Connections are interchangeable in
`RealtimeChannel`, and channels of one topic in `RealtimeClient`; the safety runs declare
them symmetric.

Deadlock is not checked: the environment rests when its budget is spent, and the system
then waits for requests, as the code does. That nothing waits that should not is what
`CallsSettle` says.

Fairness. `WF` on each task: tokio polls every woken task. `SF` on taking the list lock:
tokio's mutex serves its waiters in order. `WF` on `Cancelled`: an aborted task ends at
its next suspension, and the loops of the receive task suspend through tokio's
budget even when the stream has ended. Builders go on with the questions they have
begun. Nothing is assumed of callers, server and network, except that dialling ends
(the attempts are bounded in the code), and, in `session`, that the send task writes what
the socket takes, that the server sees a closed socket in the end, and that it answers
a join. Its other messages, and answers to heartbeats, may never come. `subscribe_blocking` is left out of
`CallsSettle`: it waits for the server.

## Proofs

What is proved holds for any channels, callers, connections, requests, endpoints, faults,
devices, registrations, messages and bounds, from the assumption on the constants of
the module (`ChannelAssumption`, `ClientAssumption`, `PresenceAssumption`,
`DispatchAssumption`, `SessionAssumption`) and, where it says so, one hypothesis more. These say
what kind of value a constant is, that names of different kinds differ, that the topic of
heartbeats is no channel's and a text, that frames which are no text are on no channel's topic,
and that a change has a table and a row. Each theorem is a safety property of the
specification, by an inductive invariant that has a lemma per action or per kind of
step, and TLC was given each invariant before its proof.

### RealtimeChannel

* `TypeCorrect`: `Spec => []TypeOK`. `TypeStep` has a case per action; lemmas give the
  types of what a handler does to mailbox, queues and calls.
* `LeaveIsSent`: `Spec => []LeavingMeansLeft`. `WireStep` says that a step appends
  nothing or one frame of one channel, and that it is a phx_leave when the channel
  becomes Leaving; the invariant is then inductive, as nothing is appended for a
  channel that stays in Leaving.
* `TokensNeverRegress`: `Spec => []TokenNeverRegresses`. Not inductive as it stands:
  `TokenInv` adds that no frame of a channel carries a token newer than its join
  payload, no join payload is newer than the client's token, and a channel that does not
  exist yet has written nothing.
* `CalmNeverPanics`: `Spec => []NoPanic`, whatever faults are possible: as long as none
  has happened, no actor has panicked. `CalmInv` adds, under `fault = {}`, that every
  connection is up, that every request in a mailbox has somebody to answer, and that
  a mailbox with a send behind an Unsubscribe, or a channel in Leaving with a
  send in its mailbox, does not occur: once a manager has unsubscribed, no send follows.
* `WaitersHaveOneResponder`: `Spec => []OneResponder`. The property names mailboxes and
  waiting tasks apart; `OwedInv` counts both as places where a responder may be, says that a
  caller waits exactly when there is such a place, and that there is one, and adds that an
  actor that has ended keeps no mailbox and that a request nobody answers has no responder,
  so that what a handler drops is nobody's answer.
* `ImplementsView`: `Spec => ShowsView`. `ActorShows` lists the ways in which an action of the
  actor can change what the channel shows; the theorem maps each to an action of
  `ChannelView` or to a stutter, from `TypeOK` and `UnbuiltFresh`: a channel that was not
  built is Closed and has no message task.

### RealtimeClient

All rest on `Core`, in `RealtimeClient_types` and `RealtimeClient_core`, whose four parts are
inductive only together: `TypeOK`; `Counters` (`wsTx` is the newest connection but between
a dial and `MarkOpen`, so a dial never runs out of connections unseen); `OneResponder`
(an answer goes to somebody who waits); and `Asking` (who waits is where its code asks, so
its answer is of the type it then reads).

* `TypeCorrect`, `OneAnswer`: `Spec => []TypeOK`, `Spec => []OneResponder`.
* `OneOwner`: `Spec => []ListOwned`, inductive with `Core`: an abort or a panic gives the lock
  back in the step that ends its owner.
* `OneReaderHolds`: `Spec => []OneReader`, from `Handling`: a receive task that runs and was not
  told to stop is that of the newest connection and is in `join_handles`, or about to be.
  Without it a Connect would not know whom it aborts.
* `ReconnectUnderWayHolds`: `Spec => []ReconnectUnderWay`, from `Wishing`: a state that wants a
  connection has had one, so the endpoint can be dialled, and no request but a Connect goes
  through the dial.
* `ReboundHolds`, `TokenCascadesHolds`: `Spec => []Rebound`, `Spec => []TokenCascades`. Both
  properties speak of the actor at rest; `Rebinding` and `Cascading` say it of each
  point of the two loops: who was not reached is ahead in `todo`. The lock (`ListOwned`)
  keeps the list still meanwhile.
* `ClientDelivers`: `Spec => Delivers`, the refinement of `Delivery`. `Listing` says that the
  list, and what a receive task has still to visit, name a channel once, which is built and
  was answered; `Ordered` that what waits on a connection comes in the order it was sent
  and after what any channel was given. A step then gives no channel anything, or one a
  message newer than all it has from that connection, which maps to `Delivery`'s action.

### RealtimeSession

`SessionAgrees`: `SessionSpec => []Agrees`, from `ClientAssumption` and `SessionAssumption`: the
run has one channel, the theorem any number of them on any topics. The invariant,
`SessionInv`, holds the client's (`ClientInv`: a step of the session is one of the client or
leaves its tasks alone) and follows a join from its request to the state it makes. Its
parts, with what each is needed for:

* `Older`, `Behind`: no builder and no channel has a newer sender than the actor, so a channel
  that is handed a new one has said nothing on that connection, and what it said before
  counts no more. Without this a stale frame could speak for it.
* `Entered`, `Confirming`: who is subscribed was registered, and the server confirms joins of
  channels that have begun, on their topics, so a confirmation is routed to its channel.
* `Held`: as long as the server has the connection it holds the channels whose last frame
  that was written is a phx_join.
* `JoinShows`: who said a phx_join last is Joining or Joined. With `Held` this is the first part
  of `Agrees`.
* `JoinGoesOn`: of a phx_join that was not confirmed there is the frame in the queue, the
  confirmation owed, on the wire, in the hands of the receive task or before the message
  task, unless its connection is lost or read no more. It gives the second part; most of the work is here, as every
  task that touches the message or the list has a case.
* `BegunIsSaid`: who has been subscribed has said so on its connection, or left it, or a
  subscribe is posted or about to be. It gives the third part, with the exception of a late
  confirmation after a phx_leave.

### RealtimePresence and RealtimeDispatch

* `PresenceTypeCorrect`: `Shape`, in which an id never has an empty set of refs.
* `LeavesAreOfJoined`: `Spec => []LeavesWereJoined`, through `HeardFirst`: what a message takes away
  was heard, or is joined by one before it.
* `OwnIdsMirror`: `Injective => (Spec => []Mirrors)`, where no two devices share an id; run
  `presence_shared_key` shows that it is needed. `Caught` says it of the messages under way:
  the last of them that settles an id makes it what the server lists.
* `OnlyForeignEnds`, `LeavesHeard`, `MirrorsUntilEnded`: `TaskGoesOn`, `LeavesWereJoined` and, under
  `Injective`, `PresenceMirrors` of `DispatchSpec`. `TaskInv` adds to the invariant of the
  presence that what is on the wire is of a kind the server sends (`AllKnown`) and that after
  phx_close or phx_error what is under way leaves nobody (`Emptied`). `MessageHandled` shows
  that every arm of `client_recv` does to the presence one of the things
  `RealtimePresence` knows.
* `DispatchTypeCorrect`: the types. Its part on the callback maps, that a callback under an event
  is that of a registration for the event, is proved with the next.
* `RunsOnce`: `DispatchSpec => []RunOnce`. `Builds` relates the maps of the builder, its join
  configuration and the copies of the channel to the registrations before and after
  build, and `RunsRight` the runs to the messages handled: registration r has run for message
  i if and only if it wants it, once, in order.
* `AskedRuns`: `NamedTables => (DispatchSpec => []AskedIsRun)`, through `Asked` (a change is only
  sent to a channel that asked for it) and `RunInv`, the conjunction of these. The
  hypothesis, that no filter names the table "", is needed: the join has `"table": ""` for a
  filter without a table and for one on "" alike (`realtime_channel.rs:575`). The server of the
  model takes it as every table, and the filter on "" then compares the table of each change
  with it.

### Left to TLC

* Liveness: `CallsSettle`, `JoinCompletes`, `WaitersReleased`, `LostIsRejoined`, `JoinsSettle`,
  `ServerIsLeft`. The prover has no rule for fairness, nor for `ENABLED`.
* The violated properties, which are false; `Mirrors` is among them and is a theorem under `Injective`.

No definition of the models is recursive, so nothing here needed induction over data, which the
prover could not do.

## Plain divergences without a run

* `connect` drops the error of `connect_ws`, which leaves the state as it was: a client
  that gives up stays Reconnecting (`realtime_client.rs:309`, `:440`); `ReconnectUnderWay`
  has it as its exception.
* A stream that the server closes in order leaves the state Open; the receive task then
  spins on the end of the stream (`realtime_client.rs:480-529`).
* Messages that arrive after an unsubscribe still run callbacks
  (`realtime_channel.rs:357`, against `:119`), a late reply turns Leaving into Joined
  although the server let the channel go (`Agrees` has it as its exception), and
  Leaving never becomes Closed, so a channel that left stays in the client's list
  and is joined again by the next reconnection.
* `sync` names every ref to the Join callbacks again and no ref to the Leave
  callbacks (`realtime_presence.rs:34`, `:54`).
* Row filters are left to the server (`postgres_change_filter.rs:29`), which sends a row that
  any registration of the channel asked for: callbacks with other filters on the same
  table run too.
* `on_postgres_change` without a table and with an empty table name send the same join,
  `"table": ""`, and only the callback of the first then takes rows of every table
  (`NamedTables`, under Proofs). What the server does with the empty table is not in this
  repository; the model lets it send every change of the schema.
* A frame that is no UTF-8 (a binary one, a ping) ends the receive task
  (`realtime_client.rs:490`), while the connection, its send task, the list and the state
  Open stay: nothing is routed any more and nothing reconnects. `JoinsSettle` has it as
  one of its ways out.
* A change whose old record has no numeric `id` (`payload.rs:128`) is read as Empty and
  runs no callback.
* The empty payload of phx_close and phx_error is read as a PresenceState and empties the
  presence, and their events are not looked at: the channel stays as it was.

## Not modelled

* Time: the pauses between attempts and heartbeats. A heartbeat comes at any time, an attempt
  follows the other.
* Serialisation and the interceptors (`encode`, `decode`), which are functions on messages and
  are taken to be total: a panic of theirs, which would end the send or receive task, is left
  out, as is one of a message that cannot be serialised.
* The setters of the builders and the default back-off: plain assignments and a table. Of
  the registrations `on_presence` is left out, which fills a map as `on_broadcast` does.
* Presence Sync callbacks, which only read.
* The sync wrappers, which block on the calls that are modelled; the examples, whose calls
  are sequences of those the environment makes; the configuration of a local server.

## Plan

1. `RealtimeChannel`, `RealtimeClient`, `RealtimePresence`, their runs, and the proofs of
   `RealtimeChannel` (done).
2. `ChannelView` and `Delivery` with the refinements, `RealtimeSession`, `Payload`,
   `RealtimeDispatch` (done).
3. Proofs of every safety property that a passing run checks (done).
