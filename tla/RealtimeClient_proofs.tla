------------------------ MODULE RealtimeClient_proofs ------------------------
(***************************************************************************)
(* Proofs about RealtimeClient: its safety properties, each from the core of *)
(* the inductive invariant and the part of it that is stated first here, and *)
(* the refinement of Delivery.                                             *)
(***************************************************************************)
EXTENDS RealtimeClient_core

-----------------------------------------------------------------------------
(* The rest of the inductive invariant, in parts.                          *)

\* What the actor knows of the tasks.
Handling ==
  /\ handles \subseteq {gen}
  /\ pc \in {"request", "dial"} => handles = {}
  /\ \A g \in Gen : Running(g) /\ g \notin aborted => g = gen /\ (g \in handles \/ pc = "open")

\* What the wish for a connection rests on: a connection there was, and a Connect.
Wishing ==
  /\ cstate \in {"Reconnect", "Reconnecting"} => gen > 0
  /\ gen > 0 \/ pc \in {"dial", "open"} => endpoint = "good"
  /\ pc \in {"request", "dial", "open"} => cur.op = "Connect"
  /\ cstate = "Reconnecting" =>
       \/ pc \in {"request", "dial", "open"} \/ \E i \in DOMAIN inbox : inbox[i].op = "Connect"
       \/ attempts = MaxAttempts \/ pc = "dead"

\* A channel is in the list at most once, built and answered; and a receive task
\* that holds the list visits each of its channels at most once.
Distinct(s) == \A i, j \in DOMAIN s : s[i] = s[j] => i = j
Member(c) == build[c].at >= 4 /\ chan[c] # View!Unbuilt /\ call[c].st # "waiting"
Scanning(g) ==
  /\ recv[g].at = "filter" =>
       /\ Distinct(recv[g].scan) /\ Distinct(recv[g].kept)
       /\ Range(recv[g].scan) \cap Range(recv[g].kept) = {}
       /\ Range(recv[g].scan) \cup Range(recv[g].kept) \subseteq Range(channels)
  /\ recv[g].at = "dispatch" =>
       Distinct(recv[g].scan) /\ Range(recv[g].scan) \subseteq Range(channels)
Listing ==
  /\ Distinct(channels)
  /\ \A c \in Range(channels) : Member(c)
  /\ \A g \in Gen : Scanning(g)

\* A channel that the loop of connect_ws has still to visit is ahead of it in todo.
Rebinding ==
  \A c \in Range(channels) :
    View!Live(c) /\ added[c].gen < wsTx =>
      \/ chan[c].tx = wsTx \/ pc = "rebindLock"
      \/ pc = "rebind" /\ c \in Range(todo)
      \/ pc = "rejoin" /\ c \in Range(Tail(todo))

\* The same of the loop of SetAccessToken.
Cascading ==
  \A c \in Range(channels) :
    View!Live(c) /\ added[c].tok < token =>
      \/ chan[c].tok = token \/ pc \in {"reauthLock", "dead"}
      \/ pc = "reauth" /\ c \in Range(todo)

\* What waits to be read over a connection is in the order the server sent it, and
\* is newer than the message its receive task has in hand.
Arriving(g) ==
  /\ \A i \in DOMAIN inq[g] : inq[g][i] \in DOMAIN sent /\ sent[inq[g][i]].conn = g
  /\ \A i, j \in DOMAIN inq[g] : i < j => inq[g][i] < inq[g][j]
  /\ recv[g].at \in {"locking", "filter", "dispatch"} =>
       /\ recv[g].msg \in DOMAIN sent /\ sent[recv[g].msg].conn = g
       /\ \A i \in DOMAIN inq[g] : recv[g].msg < inq[g][i]
\* A message that c was given is older than all that waits to be read over the same
\* connection, and than the message in hand as long as c has still to be visited.
Given(c, m) ==
  LET g == sent[m].conn IN
    /\ m \in DOMAIN sent
    /\ \A i \in DOMAIN inq[g] : m < inq[g][i]
    /\ recv[g].at \in {"locking", "filter"} => m < recv[g].msg
    /\ recv[g].at = "dispatch" =>
         m <= recv[g].msg /\ (c \in Range(recv[g].scan) => m < recv[g].msg)
Ordered ==
  /\ \A g \in Gen : Arriving(g)
  /\ \A c \in Chan : \A n \in DOMAIN got[c] : Given(c, got[c][n])

-----------------------------------------------------------------------------
(* The list of channels has one owner.                                       *)

\* The owners of the lock are different.
LEMMA Owners ==
  /\ Free \notin Gen /\ Actor \notin Gen /\ Free # Actor
BY Parties DEF Free, Actor, Gen

Critical == {"rebind", "rejoin", "leave", "reauth"}

\* Every step keeps the lock with who is in a critical section.
LEMMA NextOwned ==
  ASSUME TypeOK, Asking, ListOwned, [Next]_vars
  PROVE  ListOwned'
<1>. USE Owners
<1>1. recv \in [Gen -> Task]
  BY Typed
<1>2. CASE ClientActor
  <2>0. ASSUME UNCHANGED recv,
               \/ UNCHANGED lock /\ (pc' \in Critical <=> pc \in Critical)
               \/ lock = Free /\ lock' = Actor /\ pc' \in Critical
               \/ pc \in Critical /\ lock' = Free /\ pc' \notin Critical
        PROVE  ListOwned'
    BY <2>0 DEF ListOwned, Critical
  <2>1. ASSUME Dies, UNCHANGED recv
        PROVE  ListOwned'
    BY <2>1 DEF Dies, ListOwned
  <2>2. CASE HandleGetState \/ HandleGetAccessToken \/ HandleGetWsTx \/ HandleAddChannel
    <3>1. UNCHANGED recv
      BY <2>2 DEF HandleGetState, HandleGetAccessToken, HandleGetWsTx, HandleAddChannel, connVars
    <3>2. Dies \/ UNCHANGED <<pc, lock>>
      BY <2>2 DEF HandleGetState, HandleGetAccessToken, HandleGetWsTx, HandleAddChannel, Reply
    <3>. QED
      BY <2>0, <2>1, <3>1, <3>2
  <2>3. CASE StartConnect \/ StartSetAccessToken \/ StartDisconnect
    BY <2>0, <2>3 DEF StartConnect, StartSetAccessToken, StartDisconnect, Starts, Takes, LocksList,
       sharedVars, connVars, Critical
  <2>4. CASE BuildRequest
    BY <2>0, <2>1, <2>4 DEF BuildRequest, Finishes, connVars, Critical
  <2>5. CASE DialFails
    BY <2>0, <2>5 DEF DialFails, Finishes, sharedVars, connVars, Critical
  <2>6. CASE DialSucceeds
    <3>1. UNCHANGED <<lock>> /\ pc = "dial" /\ pc' = "open" /\ gen' = gen + 1
          /\ gen' \in Gen /\ recv' = [recv EXCEPT ![gen'].at = "reading"]
      BY <2>6, TypeParts, Parties DEF DialSucceeds, sharedVars, ConnTyped, Gen
    <3>2. \A g \in Gen : recv'[g].at \in {recv[g].at, "reading"} /\ (g # gen' => recv'[g] = recv[g])
      BY <1>1, <3>1 DEF Task
    <3>3. recv[gen'].at = "none"
      BY <3>1, TypeParts, Parties DEF Asking, ConnTyped
    <3>. QED
      BY <3>1, <3>2, <3>3 DEF ListOwned
  <2>7. CASE MarkOpen \/ Rebind \/ Rejoin \/ LockToRebind \/ LockToReAuth
    BY <2>0, <2>7 DEF MarkOpen, LockToRebind, LockToReAuth, LocksList, Rebind, Visits, Rejoin,
       sharedVars, connVars, Critical
  <2>8. CASE ConnectDone \/ DisconnectDone \/ SetAccessTokenDone
    BY <2>0, <2>1, <2>8 DEF ConnectDone, DisconnectDone, SetAccessTokenDone, Leaves, Finishes,
       connVars, Critical
  <2>9. CASE Leave \/ ReAuth
    <3>1. UNCHANGED recv /\ (Dies \/ UNCHANGED <<pc, lock>>)
      BY <2>9 DEF Leave, ReAuth, connVars
    <3>. QED
      BY <2>0, <2>1, <3>1
  <2>. QED
    BY <1>2, <2>2, <2>3, <2>4, <2>5, <2>6, <2>7, <2>8, <2>9 DEF ClientActor
<1>3. ASSUME NEW g \in Gen, ReceiveTask(g)
      PROVE  ListOwned'
  <2>0. UNCHANGED pc /\ \A h \in Gen \ {g} : recv'[h] = recv[h]
    BY <1>3, TaskMoves DEF ReceiveTask, ReadMessage, ReadPanics, ReadError, ReadEnd,
                           Reconnected, LockToRoute,
       RecvPanics, Filter, FilterDone, Dispatch, DispatchDone, taskRest
  <2>1. CASE ReadMessage(g) \/ ReadPanics(g) \/ ReadError(g) \/ ReadEnd(g) \/ Reconnected(g)
    <3>1. UNCHANGED lock /\ recv[g].at \in {"reading", "waiting"}
      BY <2>1 DEF ReadMessage, ReadPanics, ReadError, ReadEnd, Reconnected, At, sharedVars
    <3>2. recv'[g].at \notin {"filter", "dispatch"}
      BY <2>1, <3>1, TaskMoves
    <3>. QED
      BY <2>0, <3>1, <3>2 DEF ListOwned
  <2>2. CASE LockToRoute(g)
    <3>1. lock = Free /\ lock' = g /\ recv'[g].at = "filter" /\ recv[g].at = "locking"
      BY <2>2, TaskMoves DEF LockToRoute
    <3>. QED
      BY <2>0, <3>1 DEF ListOwned
  <2>3. CASE RecvPanics(g) \/ DispatchDone(g)
    <3>1. /\ lock' = Free /\ recv[g].at \in {"filter", "dispatch"}
          /\ recv'[g].at \notin {"filter", "dispatch"}
      BY <2>3, TaskMoves DEF RecvPanics, DispatchDone
    <3>. QED
      BY <2>0, <3>1 DEF ListOwned
  <2>4. CASE Filter(g) \/ FilterDone(g) \/ Dispatch(g)
    <3>1. /\ UNCHANGED lock /\ recv[g].at \in {"filter", "dispatch"}
          /\ recv'[g].at \in {"filter", "dispatch"}
      BY <2>4, TaskMoves DEF Filter, FilterDone, Dispatch, sharedVars
    <3>. QED
      BY <2>0, <3>1 DEF ListOwned
  <2>. QED
    BY <1>3, <2>1, <2>2, <2>3, <2>4 DEF ReceiveTask
<1>4. ASSUME NEW g \in Gen, Cancelled(g)
      PROVE  ListOwned'
  <2>1. /\ UNCHANGED pc /\ recv'[g].at = "gone" /\ \A h \in Gen \ {g} : recv'[h] = recv[h]
        /\ lock' = IF lock = g THEN Free ELSE lock
    BY <1>4, TaskMoves DEF Cancelled, GuardOf
  <2>. QED
    BY <2>1 DEF ListOwned
<1>5. CASE UNCHANGED ownVars
  BY <1>5 DEF ownVars, ListOwned
<1>. QED
  BY <1>2, <1>3, <1>4, <1>5, Elsewhere

\* Nobody holds the lock at the start.
LEMMA InitOwned == Init => ListOwned
BY Owners DEF Init, ListOwned, NoTask, Gen, Free

\* The mutex around the list is held by whoever is in a critical section and by
\* nobody else; a holder that is cancelled or panics gives it back.
THEOREM OneOwner == Spec => []ListOwned
<1>1. Core /\ ListOwned /\ [Next]_vars => ListOwned'
  BY NextOwned DEF Core
<1>. QED
  BY <1>1, InitOwned, CoreHolds, PTL DEF Spec
-----------------------------------------------------------------------------
(* At most one connection has a reader that was not told to stop.             *)

\* Every step keeps the tasks that were not told to stop to one connection.
LEMMA NextHandling ==
  ASSUME TypeOK, Counters, Asking, Handling, [Next]_vars
  PROVE  Handling'
<1>1. recv \in [Gen -> Task] /\ gen \in Nat
  BY Typed, TypeParts, Parties DEF ConnTyped
<1>2. ASSUME UNCHANGED <<handles, aborted, gen>>, pc' \notin {"request", "dial"}, pc # "open",
             \A g \in Gen : Running(g)' => Running(g)
      PROVE  Handling'
  BY <1>2 DEF Handling
<1>3. CASE ClientActor
  <2>1. CASE \/ HandleGetState \/ HandleGetAccessToken \/ HandleGetWsTx \/ HandleAddChannel
             \/ StartSetAccessToken \/ StartDisconnect
    BY <1>2, <2>1 DEF HandleGetState, HandleGetAccessToken, HandleGetWsTx, HandleAddChannel, Reply, Takes,
       Dies, StartSetAccessToken, StartDisconnect, Starts, connVars, Running
  <2>2. CASE StartConnect
    BY <2>2 DEF StartConnect, Starts, Takes, ClearTasks, Handling, Running
  <2>3. CASE BuildRequest \/ DialFails
    BY <2>3 DEF BuildRequest, DialFails, Finishes, Dies, connVars, Handling, Running
  <2>4. CASE DialSucceeds
    <3>1. \A g \in Gen : g # gen' => recv'[g] = recv[g]
      BY <1>1, <2>4 DEF DialSucceeds
    <3>. QED
      BY <1>1, <2>4, <3>1 DEF DialSucceeds, Handling, Running
  <2>5. CASE MarkOpen
    BY <2>5 DEF MarkOpen, connVars, Handling, Running
  <2>6. CASE \/ LockToRebind \/ Rebind \/ Rejoin \/ ConnectDone \/ Leave \/ LockToReAuth \/ ReAuth
             \/ SetAccessTokenDone
    <3>1. UNCHANGED <<handles, aborted, gen, recv>>
      BY <2>6 DEF LockToRebind, Rebind, Rejoin, ConnectDone, Leave, LockToReAuth, ReAuth,
         SetAccessTokenDone, connVars
    <3>2. pc' \notin {"request", "dial"} /\ pc # "open"
      BY <2>6 DEF LockToRebind, LocksList, Rebind, Rejoin, ConnectDone, Leave, LockToReAuth, ReAuth,
         SetAccessTokenDone, Visits, Leaves, Finishes, Dies
    <3>. QED
      BY <1>2, <3>1, <3>2 DEF Running
  <2>7. CASE DisconnectDone
    BY <2>7 DEF DisconnectDone, Leaves, ClearTasks, Finishes, Dies, Handling, Running
  <2>. QED
    BY <1>3, <2>1, <2>2, <2>3, <2>4, <2>5, <2>6, <2>7 DEF ClientActor
<1>4. ASSUME NEW g \in Gen, ReceiveTask(g) \/ Cancelled(g)
      PROVE  Handling'
  <2>1. UNCHANGED <<pc, handles, gen, aborted>> /\ \A h \in Gen \ {g} : recv'[h] = recv[h]
    BY <1>4, TaskMoves DEF ReceiveTask, ReadMessage, ReadPanics, ReadError, ReadEnd,
                           Reconnected, LockToRoute,
       RecvPanics, Filter, FilterDone, Dispatch, DispatchDone, taskRest, Cancelled
  <2>2. Running(g)
    BY <1>4 DEF ReceiveTask, ReadMessage, ReadPanics, ReadError, ReadEnd, Reconnected,
                LockToRoute, RecvPanics,
       Filter, FilterDone, Dispatch, DispatchDone, At, Cancelled, Running
  <2>. QED
    BY <2>1, <2>2 DEF Handling, Running
<1>5. CASE UNCHANGED ownVars
  BY <1>5 DEF ownVars, Handling, Running
<1>. QED
  BY <1>3, <1>4, <1>5, Elsewhere

\* However connect, disconnect, broken connections and panics interleave, two
\* connections never both feed the channels for good.
THEOREM OneReaderHolds == Spec => []OneReader
<1>1. Init => Handling
  BY DEF Init, Handling, Running, NoTask
<1>2. Core /\ Handling /\ [Next]_vars => Handling'
  BY NextHandling DEF Core
<1>3. Handling => OneReader
  BY DEF Handling, OneReader
<1>. QED
  BY <1>1, <1>2, <1>3, CoreHolds, PTL DEF Spec

-----------------------------------------------------------------------------
(* What is in the list, and what the receive tasks make of it.                *)

\* An empty list names nothing twice.
LEMMA EmptyList == Distinct(<<>>) /\ Range(<<>>) = {}
BY DEF Distinct, Range

\* The rest of a list without repetitions has none, and lacks its head.
LEMMA TailList ==
  ASSUME NEW S, NEW s \in Seq(S), s # <<>>
  PROVE  /\ Range(s) = {Head(s)} \cup Range(Tail(s))
         /\ Distinct(s) => Distinct(Tail(s)) /\ Head(s) \notin Range(Tail(s))
<1>. USE TailFacts DEF Range
<1>1. Range(s) \subseteq {Head(s)} \cup Range(Tail(s))
  <2>. SUFFICES ASSUME NEW i \in DOMAIN s, i # 1
                PROVE  s[i] \in Range(Tail(s))
    OBVIOUS
  <2>1. i - 1 \in DOMAIN Tail(s) /\ Tail(s)[i - 1] = s[i]
    OBVIOUS
  <2>. QED
    BY <2>1
<1>2. \A i \in DOMAIN Tail(s) : i + 1 \in DOMAIN s /\ Tail(s)[i] = s[i + 1] /\ i \in Nat /\ i + 1 # 1
  OBVIOUS
<1>3. {Head(s)} \cup Range(Tail(s)) \subseteq Range(s)
  BY <1>2
<1>4. ASSUME Distinct(s), NEW i \in DOMAIN Tail(s), NEW j \in DOMAIN Tail(s), Tail(s)[i] = Tail(s)[j]
      PROVE  i = j
  <2>1. i + 1 = j + 1
    BY <1>2, <1>4 DEF Distinct
  <2>. QED
    BY <1>2, <2>1
<1>5. ASSUME Distinct(s), Head(s) \in Range(Tail(s))
      PROVE  FALSE
  <2>1. PICK i \in DOMAIN Tail(s) : Tail(s)[i] = Head(s)
    BY <1>5
  <2>2. 1 \in DOMAIN s /\ s[1] = s[i + 1] /\ i + 1 \in DOMAIN s /\ i + 1 # 1
    BY <1>2, <2>1
  <2>. QED
    BY <1>5, <2>2 DEF Distinct
<1>. QED
  BY <1>1, <1>3, <1>4, <1>5 DEF Distinct

\* An append adds one member.
LEMMA AppendList ==
  ASSUME NEW S, NEW s \in Seq(S), NEW e
  PROVE  /\ Range(Append(s, e)) = Range(s) \cup {e}
         /\ Distinct(s) /\ e \notin Range(s) => Distinct(Append(s, e))
BY AppendFacts DEF Range, Distinct

\* The members of a list have its type.
LEMMA RangeType ==
  ASSUME NEW S, NEW s \in Seq(S)
  PROVE  Range(s) \subseteq S
BY DEF Range

\* What the actor leaves alone.
LEMMA ActorKeeps ==
  ASSUME ClientActor
  PROVE  /\ UNCHANGED <<build, got, sent, inq>>
         /\ HandleAddChannel \/ UNCHANGED <<channels, added>>
         /\ DialSucceeds \/ UNCHANGED recv
         /\ MarkOpen \/ UNCHANGED wsTx
         /\ StartSetAccessToken \/ UNCHANGED token
BY DEF ClientActor, HandleGetState, HandleGetAccessToken, HandleGetWsTx, HandleAddChannel,
   StartConnect, BuildRequest, DialFails, DialSucceeds, MarkOpen, LockToRebind, Rebind, Rejoin,
   ConnectDone, StartDisconnect, Leave, DisconnectDone, StartSetAccessToken, LockToReAuth, ReAuth,
   SetAccessTokenDone, connVars, chanVars, sharedVars

\* A party that does not wait is made to wait by its own question only.
LEMMA CallStep ==
  ASSUME Core, [Next]_vars, NEW c \in Chan, call[c].st # "waiting"
  PROVE  BuildAsks(c) \/ call'[c].st # "waiting"
<1>. USE Parties DEF Core
<1>1. call \in [Party -> Call] /\ c \in Party /\ cur.by \in Party \cup {NoOne}
  BY Typed DEF ActorTyped, TypeOK, Request
<1>2. ASSUME NEW p \in Party \cup {NoOne}, NEW v, call' = Gets(p, v)
      PROVE  call'[c].st # "waiting"
  BY <1>1, <1>2 DEF Gets
<1>3. ASSUME Dies
      PROVE  call'[c].st # "waiting"
  <2>1. call'[c] = IF \E r \in Range(inbox) \cup {cur} : r.by = c
                   THEN [st |-> "refused", val |-> 0] ELSE call[c]
    BY <1>3 DEF Dies
  <2>. QED
    BY <2>1
<1>4. CASE UNCHANGED call
  BY <1>4
<1>5. CASE ClientActor
  <2>1. ASSUME NEW op, NEW v, Reply(op, v)
        PROVE  call'[c].st # "waiting"
    BY <1>2, <1>3, <2>1, TakesType DEF Reply
  <2>2. CASE HandleGetState \/ HandleGetAccessToken \/ HandleGetWsTx \/ HandleAddChannel
    BY <1>3, <2>1, <2>2 DEF HandleGetState, HandleGetAccessToken, HandleGetWsTx, HandleAddChannel
  <2>3. CASE Finishes \/ Dies
    BY <1>1, <1>2, <1>3, <2>3 DEF Finishes
  <2>. QED
    BY <1>4, <1>5, <2>2, <2>3 DEF ClientActor, StartConnect, BuildRequest, DialFails, DialSucceeds,
       MarkOpen, LockToRebind, Rebind, Rejoin, ConnectDone, StartDisconnect, Leave, DisconnectDone,
       StartSetAccessToken, LockToReAuth, ReAuth, SetAccessTokenDone
<1>6. ASSUME NEW p \in Party, p # c, call' = Waits(p) \/ call' = [call EXCEPT ![p].st = "idle"]
             \/ call' = [call EXCEPT ![p] = [st |-> "refused", val |-> 0]]
      PROVE  call'[c].st # "waiting"
  BY <1>1, <1>6 DEF Waits
<1>7. ASSUME NEW g \in Gen, ReceiveTask(g) \/ Cancelled(g)
      PROVE  call'[c].st # "waiting"
  <2>1. UNCHANGED call \/ call' = Waits(g) \/ call' = [call EXCEPT ![g].st = "idle"]
    BY <1>7 DEF ReceiveTask, ReadMessage, ReadPanics, ReadError, ReadEnd, AsksToConnect,
                Reconnected, LockToRoute, RecvPanics,
       Filter, FilterDone, Dispatch, DispatchDone, Cancelled, Orphans
  <2>. QED
    BY <1>4, <1>6, <2>1
<1>8. ASSUME NEW k \in Caller, Resume(k) \/ Abandon(k) \/ \E op \in AllOps : Ask(k, op)
      PROVE  call'[c].st # "waiting"
  <2>1. \/ call' = Waits(k) \/ call' = [call EXCEPT ![k].st = "idle"]
        \/ call' = [call EXCEPT ![k] = [st |-> "refused", val |-> 0]]
    BY <1>8 DEF Resume, Abandon, Orphans, Ask, Posts
  <2>. QED
    BY <1>6, <2>1
<1>9. ASSUME NEW d \in Chan, d # c, BuildAsks(d)
      PROVE  call'[c].st # "waiting"
  <2>1. \/ call' = Waits(d)
        \/ call' = [call EXCEPT ![d] = [st |-> "refused", val |-> 0]]
    BY <1>9 DEF BuildAsks, Posts
  <2>. QED
    BY <1>6, <1>9, <2>1
<1>10. ASSUME NEW d \in Chan, BuildResumes(d)
       PROVE  call'[c].st # "waiting"
  <2>1. call' = [call EXCEPT ![d].st = "idle"]
    BY <1>10 DEF BuildResumes
  <2>. QED
    BY <1>1, <1>6, <2>1
<1>11. ASSUME NEW d \in Chan, ChannelPanics(d) \/ \E op \in {"Subscribe", "Unsubscribe"} : HolderPosts(d, op)
       PROVE  UNCHANGED call
  BY <1>11, Zenon DEF ChannelPanics, HolderPosts
<1>12. CASE Environment
  BY <1>4, <1>8, <1>9, <1>10, <1>11, <1>12 DEF Environment, ConnEnds, wireRest
<1>13. ASSUME NEW d \in Chan, ChannelTasks(d)
       PROVE  UNCHANGED call
  BY <1>13 DEF ChannelTasks, PerformSubscribe, PerformUnsubscribe, HandleMessage, channelRest
<1>14. ASSUME NEW g \in Gen, SendEnds(g)
       PROVE  UNCHANGED call
  BY <1>14 DEF SendEnds
<1>15. ASSUME Server \/ UNCHANGED vars
       PROVE  UNCHANGED call
  BY <1>15 DEF Server, Confirms, ServerSends, wireRest, vars
<1>. QED
  BY <1>4, <1>5, <1>7, <1>12, <1>13, <1>14, <1>15 DEF Next, Local

\* A builder that has been built does not ask again.
LEMMA BuildStep ==
  ASSUME Core, [Next]_vars, NEW c \in Chan, build[c].at >= 4
  PROVE  build'[c].at >= 4 /\ ~BuildAsks(c)
<1>. USE TypeParts DEF Core
<1>1. build \in [Chan -> [at : 0..6, tx : 0..MaxGen, tok : Nat]]
  BY DEF ChanTyped
<1>2. ~BuildAsks(c)
  BY <1>1 DEF BuildAsks
<1>3. ASSUME NEW d \in Chan, BuildAsks(d) \/ BuildResumes(d)
      PROVE  build'[c].at >= 4
  <2>1. CASE d # c
    <3>1. build'[c] = build[c]
      BY <1>1, <1>3, <2>1 DEF BuildAsks, BuildResumes
    <3>. QED
      BY <3>1
  <2>2. CASE d = c
    BY <1>1, <1>2, <1>3, <2>2 DEF BuildResumes
  <2>. QED
    BY <2>1, <2>2
<1>4. CASE UNCHANGED build
  BY <1>2, <1>4
<1>5. ASSUME NEW g \in Gen, ReceiveTask(g) \/ Cancelled(g) \/ SendEnds(g)
      PROVE  UNCHANGED build
  BY <1>5 DEF ReceiveTask, ReadMessage, ReadPanics, ReadError, ReadEnd, Reconnected,
              LockToRoute, RecvPanics,
     Filter, FilterDone, Dispatch, DispatchDone, taskRest, Cancelled, SendEnds, chanVars
<1>6. ASSUME NEW d \in Chan, ChannelTasks(d)
      PROVE  UNCHANGED build
  BY <1>6 DEF ChannelTasks, PerformSubscribe, PerformUnsubscribe, HandleMessage, channelRest
<1>7. ASSUME NEW d \in Chan, ChannelPanics(d) \/ \E op \in {"Subscribe", "Unsubscribe"} : HolderPosts(d, op)
      PROVE  UNCHANGED build
  BY <1>7, Zenon DEF ChannelPanics, HolderPosts
<1>8. CASE Environment
  BY <1>2, <1>3, <1>4, <1>7, <1>8 DEF Environment, Resume, Abandon, Ask, ConnEnds, wireRest, chanVars
<1>9. ASSUME Server \/ UNCHANGED vars
      PROVE  UNCHANGED build
  BY <1>9 DEF Server, Confirms, ServerSends, wireRest, vars, chanVars
<1>. QED
  BY <1>2, <1>4, <1>5, <1>6, <1>8, <1>9, ActorKeeps DEF Next, Local

\* Who is in the list stays fit to be there.
LEMMA MemberStep ==
  ASSUME Core, [Next]_vars, NEW c \in Chan, Member(c)
  PROVE  Member(c)'
BY CallStep, BuildStep, ChanStep DEF Member, Steady, Core

\* The channel that is added is a new one.
LEMMA AddedIsNew ==
  ASSUME Core, Takes("AddChannel"), NEW c, c = Head(inbox).by
  PROVE  c \in Chan /\ build[c].at = 4 /\ chan[c] # View!Unbuilt /\ call[c].st = "waiting"
<1>. USE Parties, OpsAre DEF Core
<1>1. inbox \in Seq(Request) /\ inbox # <<>> /\ Head(inbox).op = "AddChannel"
  BY DEF TypeOK, Takes
<1>2. 1 \in DOMAIN inbox /\ inbox[1].op = "AddChannel" /\ inbox[1].by = c
  BY <1>1, TailFacts
<1>3. c \in Chan /\ call[c].st = "waiting"
  <2>1. c \in Chan
    BY <1>2 DEF Asking
  <2>. QED
    BY <1>2, <2>1 DEF OneResponder
<1>4. Builder(c)
  BY <1>3 DEF Asking
<1>5. build[c].at \in 1..4 /\ BuildOps[build[c].at] = "AddChannel"
  BY <1>2, <1>3, <1>4 DEF Builder
<1>6. build[c].at = 4
  BY <1>5
<1>. QED
  BY <1>3, <1>4, <1>6 DEF Builder

\* Every step keeps the list free of repetitions, and the scans within it.
LEMMA NextListing ==
  ASSUME Core, ListOwned, Listing, [Next]_vars
  PROVE  Listing'
<1>. USE DEF Core
<1>1. channels \in Seq(Chan) /\ recv \in [Gen -> Task]
      /\ \A g \in Gen : recv[g].scan \in Seq(Chan) /\ recv[g].kept \in Seq(Chan)
  BY Typed DEF TypeOK, Task
<1>2. Range(channels) \subseteq Chan
  BY <1>1, RangeType
<1>3. \A c \in Range(channels) : Member(c)'
  BY <1>2, MemberStep DEF Listing
<1>4. ASSUME UNCHANGED channels, \A g \in Gen : Scanning(g)'
      PROVE  Listing'
  BY <1>3, <1>4 DEF Listing
<1>5. ASSUME UNCHANGED channels, NEW g \in Gen,
             recv'[g] = recv[g] \/ recv'[g].at \notin {"filter", "dispatch"}
      PROVE  Scanning(g)'
  BY <1>5 DEF Listing, Scanning
<1>6. CASE ClientActor
  <2>1. CASE HandleAddChannel
    <3>0. PICK c : c = Head(inbox).by
      OBVIOUS
    <3>1. /\ lock = Free /\ Takes("AddChannel") /\ Reply("AddChannel", 0)
          /\ channels' = Append(channels, c) /\ UNCHANGED recv
      BY <2>1, <3>0, Zenon DEF HandleAddChannel, Reply, connVars
    <3>2. c \in Chan /\ build[c].at = 4 /\ chan[c] # View!Unbuilt /\ call[c].st = "waiting"
      BY <3>0, <3>1, AddedIsNew
    <3>3. c \notin Range(channels)
      BY <3>2 DEF Listing, Member
    <3>4. Range(channels') = Range(channels) \cup {c} /\ Distinct(channels')
      BY <1>1, <3>1, <3>3, AppendList DEF Listing
    <3>5. Member(c)'
      <4>1. call'[c].st # "waiting"
        <5>1. call' = Gets(c, 0)
          BY <3>0, <3>1 DEF Reply, Strict
        <5>. QED
          BY <3>2, <5>1, Parties, Typed DEF ActorTyped, Gets
      <4>2. build'[c].at >= 4 /\ chan'[c] # View!Unbuilt
        <5>1. build[c].at >= 4 /\ c \in Chan
          BY <3>2
        <5>2. build'[c].at >= 4
          BY <5>1, BuildStep
        <5>. QED
          BY <3>2, <5>2, ChanStep DEF Steady
      <4>. QED
        BY <4>1, <4>2 DEF Member
    <3>6. \A g \in Gen : Scanning(g)'
      <4>1. \A g \in Gen : recv'[g].at \notin {"filter", "dispatch"}
        BY <3>1, Owners DEF ListOwned
      <4>. QED
        BY <4>1 DEF Scanning
    <3>. QED
      BY <1>3, <3>4, <3>5, <3>6 DEF Listing
  <2>2. CASE UNCHANGED channels
    <3>1. CASE DialSucceeds
      <4>1. gen' \in Gen /\ recv' = [recv EXCEPT ![gen'].at = "reading"]
        BY <3>1, TypeParts, Parties DEF DialSucceeds, ConnTyped, Gen
      <4>2. \A g \in Gen : recv'[g] = recv[g] \/ recv'[g].at = "reading"
        BY <1>1, <4>1 DEF Task
      <4>. QED
        BY <1>4, <1>5, <2>2, <4>2
    <3>. QED
      BY <1>4, <1>5, <1>6, <2>2, <3>1, ActorKeeps
  <2>. QED
    BY <1>6, <2>1, <2>2, ActorKeeps
<1>7. ASSUME NEW g \in Gen, ReceiveTask(g)
      PROVE  Listing'
  <2>0. \A h \in Gen \ {g} : recv'[h] = recv[h]
    BY <1>7, TaskMoves
  <2>1. CASE FilterDone(g)
    <3>1. channels' = recv[g].kept
      BY <2>1 DEF FilterDone, NewList
    <3>2. Distinct(recv[g].kept) /\ Range(recv[g].kept) \subseteq Range(channels)
      BY <2>1, TaskMoves DEF Listing, Scanning
    <3>3. Scanning(g)'
      BY <2>1, <3>1, <3>2, TaskMoves DEF Scanning
    <3>4. \A h \in Gen \ {g} : recv[h].at \notin {"filter", "dispatch"}
      BY <2>1, TaskMoves DEF ListOwned
    <3>5. \A h \in Gen \ {g} : Scanning(h)'
      BY <2>0, <3>4 DEF Scanning
    <3>. QED
      BY <1>3, <3>1, <3>2, <3>3, <3>5 DEF Listing
  <2>2. CASE UNCHANGED channels /\ Scanning(g)'
    BY <1>4, <1>5, <2>0, <2>2
  <2>3. CASE LockToRoute(g)
    <3>1. UNCHANGED channels
      BY <2>3 DEF LockToRoute
    <3>2. Scanning(g)'
      BY <2>3, <3>1, TaskMoves, EmptyList DEF Scanning, Listing
    <3>. QED
      BY <2>2, <3>1, <3>2
  <2>4. CASE Filter(g)
    <3>1. UNCHANGED channels /\ recv[g].scan # <<>>
      BY <2>4 DEF Filter, sharedVars
    <3>2. /\ recv[g].at = "filter" /\ recv'[g].at = "filter" /\ recv'[g].scan = Tail(recv[g].scan)
          /\ recv'[g].kept \in {recv[g].kept, Append(recv[g].kept, Head(recv[g].scan))}
      BY <2>4, TaskMoves
    <3>3. /\ Distinct(recv[g].scan) /\ Distinct(recv[g].kept)
          /\ Range(recv[g].scan) \cap Range(recv[g].kept) = {}
          /\ Range(recv[g].scan) \cup Range(recv[g].kept) \subseteq Range(channels)
      BY <3>2 DEF Listing, Scanning
    <3>4. /\ Range(recv[g].scan) = {Head(recv[g].scan)} \cup Range(Tail(recv[g].scan))
          /\ Distinct(Tail(recv[g].scan)) /\ Head(recv[g].scan) \notin Range(Tail(recv[g].scan))
      BY <1>1, <3>1, <3>3, TailList
    <3>5. /\ Distinct(recv'[g].kept)
          /\ Range(recv'[g].kept) \subseteq Range(recv[g].kept) \cup {Head(recv[g].scan)}
      <4>1. CASE recv'[g].kept = Append(recv[g].kept, Head(recv[g].scan))
        BY <1>1, <3>3, <3>4, <4>1, AppendList
      <4>. QED
        BY <3>2, <3>3, <4>1
    <3>6. Scanning(g)'
      BY <3>1, <3>2, <3>3, <3>4, <3>5 DEF Scanning
    <3>. QED
      BY <2>2, <3>1, <3>6
  <2>5. CASE Dispatch(g)
    <3>1. UNCHANGED channels /\ recv[g].scan # <<>>
      BY <2>5 DEF Dispatch, sharedVars
    <3>2. recv[g].at = "dispatch" /\ recv'[g].at = "dispatch" /\ recv'[g].scan = Tail(recv[g].scan)
      BY <2>5, TaskMoves
    <3>3. Distinct(recv[g].scan) /\ Range(recv[g].scan) \subseteq Range(channels)
      BY <3>2 DEF Listing, Scanning
    <3>4. Distinct(Tail(recv[g].scan)) /\ Range(Tail(recv[g].scan)) \subseteq Range(recv[g].scan)
      BY <1>1, <3>1, <3>3, TailList
    <3>. QED
      BY <2>2, <3>1, <3>2, <3>3, <3>4 DEF Scanning
  <2>6. CASE ReadMessage(g) \/ ReadPanics(g) \/ ReadError(g) \/ ReadEnd(g) \/ Reconnected(g)
             \/ RecvPanics(g) \/ DispatchDone(g)
    <3>1. UNCHANGED channels
      BY <2>6 DEF ReadMessage, ReadPanics, ReadError, ReadEnd, Reconnected, RecvPanics,
                  DispatchDone, sharedVars
    <3>2. recv'[g] = recv[g] \/ recv'[g].at \notin {"filter", "dispatch"}
      BY <2>6, TaskMoves
    <3>. QED
      BY <1>5, <2>2, <3>1, <3>2
  <2>. QED
    BY <1>7, <2>1, <2>3, <2>4, <2>5, <2>6 DEF ReceiveTask
<1>8. ASSUME NEW g \in Gen, Cancelled(g)
      PROVE  Listing'
  <2>1. /\ UNCHANGED channels /\ recv'[g].at = "gone"
        /\ \A h \in Gen \ {g} : recv'[h] = recv[h]
    BY <1>8, TaskMoves DEF Cancelled
  <2>. QED
    BY <1>4, <1>5, <2>1
<1>9. CASE UNCHANGED ownVars
  BY <1>4, <1>5, <1>9 DEF ownVars
<1>. QED
  BY <1>6, <1>7, <1>8, <1>9, Elsewhere

\* So it always is.
LEMMA ListingHolds == Spec => [](ListOwned /\ Listing)
<1>1. Init => Listing
  BY EmptyList DEF Init, Listing, Scanning, NoTask
<1>2. Core /\ ListOwned /\ Listing /\ [Next]_vars => Listing'
  BY NextListing
<1>. QED
  BY <1>1, <1>2, CoreHolds, OneOwner, PTL DEF Spec

\* What a step leaves of a channel of the list: it was there before, with what it
\* was added with, or it is being added with what is current.
LEMMA ListedStep ==
  ASSUME Core, ListOwned, Listing, [Next]_vars, NEW c \in Range(channels')
  PROVE  /\ c \in Chan
         /\ \/ HandleAddChannel /\ added'[c] = [gen |-> gen, tok |-> token]
            \/ c \in Range(channels) /\ added'[c] = added[c]
<1>1. channels \in Seq(Chan) /\ added \in [Chan -> [gen : 0..MaxGen, tok : Nat]]
  BY DEF Core, TypeOK
<1>2. CASE HandleAddChannel
  <2>. DEFINE d == Head(inbox).by
  <2>1. /\ Takes("AddChannel") /\ channels' = Append(channels, d)
        /\ added' = [added EXCEPT ![d] = [gen |-> gen, tok |-> token]]
    BY <1>2, Zenon DEF HandleAddChannel, Reply
  <2>2. d \in Chan
    BY <2>1, AddedIsNew
  <2>3. Range(channels') = Range(channels) \cup {d}
    BY <1>1, <2>1, AppendList
  <2>4. c = d => added'[c] = [gen |-> gen, tok |-> token]
    BY <1>1, <2>1, <2>2
  <2>5. c # d => c \in Range(channels) /\ added'[c] = added[c]
    BY <1>1, <2>1, <2>2, <2>3
  <2>. QED
    BY <1>1, <1>2, <2>2, <2>4, <2>5, RangeType
<1>3. ASSUME Range(channels') \subseteq Range(channels), UNCHANGED added
      PROVE  c \in Chan /\ c \in Range(channels) /\ added'[c] = added[c]
  BY <1>1, <1>3, RangeType
<1>4. CASE ClientActor
  BY <1>2, <1>3, <1>4, ActorKeeps
<1>5. ASSUME NEW g \in Gen, ReceiveTask(g) \/ Cancelled(g)
      PROVE  Range(channels') \subseteq Range(channels) /\ UNCHANGED added
  <2>1. UNCHANGED added
    BY <1>5 DEF ReceiveTask, ReadMessage, ReadPanics, ReadError, ReadEnd, Reconnected,
                LockToRoute, RecvPanics,
       Filter, FilterDone, Dispatch, DispatchDone, taskRest, Cancelled
  <2>2. CASE FilterDone(g)
    <3>1. channels' = recv[g].kept /\ recv[g].at = "filter"
      BY <2>2 DEF FilterDone, NewList, At
    <3>. QED
      BY <2>1, <3>1 DEF Listing, Scanning
  <2>3. CASE UNCHANGED channels
    BY <2>1, <2>3
  <2>. QED
    BY <1>5, <2>2, <2>3 DEF ReceiveTask, ReadMessage, ReadPanics, ReadError, ReadEnd,
                            Reconnected, LockToRoute,
       RecvPanics, Filter, Dispatch, DispatchDone, sharedVars, Cancelled
<1>6. CASE UNCHANGED ownVars
  BY <1>3, <1>6 DEF ownVars
<1>. QED
  BY <1>3, <1>4, <1>5, <1>6, Elsewhere

-----------------------------------------------------------------------------
(* Reconnection and the access token reach every channel of the list.         *)

\* Where the loop over the list stands, when a step is not one of its own.
LEMMA LoopsElsewhere ==
  ASSUME [Next]_vars, ~ClientActor
  PROVE  UNCHANGED <<pc, todo, wsTx, token>>
BY Elsewhere DEF ReceiveTask, ReadMessage, ReadPanics, ReadError, ReadEnd, Reconnected,
                 LockToRoute, RecvPanics,
   Filter, FilterDone, Dispatch, DispatchDone, taskRest, sharedVars, Cancelled, ownVars

\* Every step keeps the channels that are not rebound yet ahead of the loop.
LEMMA NextRebinding ==
  ASSUME Core, ListOwned, Listing, Rebinding, [Next]_vars
  PROVE  Rebinding'
<1>. SUFFICES ASSUME NEW c \in Range(channels'), chan'[c].st \in View!LiveStates,
                     added'[c].gen < wsTx'
              PROVE  \/ chan'[c].tx = wsTx' \/ pc' = "rebindLock"
                     \/ pc' = "rebind" /\ c \in Range(todo')
                     \/ pc' = "rejoin" /\ c \in Range(Tail(todo'))
  BY DEF Rebinding, View!Live
<1>. DEFINE Reached == \/ chan[c].tx = wsTx \/ pc = "rebindLock"
                       \/ pc = "rebind" /\ c \in Range(todo)
                       \/ pc = "rejoin" /\ c \in Range(Tail(todo))
<1>0. todo \in Seq(Chan) /\ gen \in Nat /\ wsTx \in Nat
  BY TypeParts, Parties DEF Core, ActorTyped, ConnTyped
<1>1. c \in Chan
  BY ListedStep
<1>2. ASSUME c \in Range(channels), added'[c] = added[c]
      PROVE  /\ View!Live(c)
             /\ chan'[c].tx = chan[c].tx \/ (Rebind /\ c = Head(todo) /\ chan'[c].tx = wsTx)
             /\ UNCHANGED wsTx => Reached
  <2>1. chan[c] # View!Unbuilt
    BY <1>2 DEF Listing, Member
  <2>2. Steady(c)
    BY <1>1, <2>1, ChanStep DEF Core
  <2>. QED
    BY <1>2, <2>2 DEF Steady, Rebinding
<1>3. CASE HandleAddChannel
  <2>1. UNCHANGED <<wsTx, gen>> /\ pc = "recv"
    BY <1>3 DEF HandleAddChannel, Reply, Takes, connVars
  <2>2. gen = wsTx
    BY <2>1 DEF Core, Counters
  <2>3. c \in Range(channels) /\ added'[c] = added[c]
    BY <1>0, <2>1, <2>2, ListedStep
  <2>4. ~Rebind
    BY <2>1 DEF Rebind, Visits
  <2>. QED
    BY <1>2, <2>1, <2>3, <2>4
<1>4. CASE ~HandleAddChannel
  <2>1. c \in Range(channels) /\ added'[c] = added[c]
    BY <1>4, ListedStep
  <2>2. CASE ~ClientActor
    BY <1>2, <2>1, <2>2, LoopsElsewhere DEF ClientActor
  <2>3. CASE MarkOpen
    BY <2>3 DEF MarkOpen
  <2>4. CASE Rebind
    <3>1. UNCHANGED wsTx /\ pc = "rebind" /\ todo # <<>>
      BY <2>4 DEF Rebind, Visits
    <3>2. Range(todo) = {Head(todo)} \cup Range(Tail(todo))
      BY <1>0, <3>1, TailList
    <3>3. CASE View!Live(Head(todo)) /\ pc' = "rejoin" /\ UNCHANGED todo /\ Rejoined(Head(todo))
      <4>1. Head(todo) \in Chan
        BY <1>0, <3>1, HeadTailProperties
      <4>2. chan'[Head(todo)].tx = wsTx
        BY <3>3, <4>1, LiveShown DEF Rejoined, View!Rebinds, View!Shown, Core, TypeOK
      <4>. QED
        BY <1>2, <2>1, <3>1, <3>2, <3>3, <4>2
    <3>4. CASE ~View!Live(Head(todo)) /\ pc' = pc /\ todo' = Tail(todo)
      BY <1>2, <2>1, <3>1, <3>2, <3>4
    <3>. QED
      BY <2>4, <3>3, <3>4 DEF Rebind
  <2>5. CASE pc \notin {"rebindLock", "rebind", "rejoin"} /\ ClientActor /\ ~MarkOpen
    BY <1>2, <2>1, <2>5, ActorKeeps DEF Rebind, Visits
  <2>6. CASE LockToRebind
    <3>1. /\ pc' = "rebind" /\ todo' = channels /\ UNCHANGED <<wsTx, channels>>
      BY <2>6 DEF LockToRebind, LocksList
    <3>. QED
      BY <2>1, <3>1
  <2>7. CASE Rejoin
    <3>1. /\ pc = "rejoin" /\ pc' = "rebind" /\ todo' = Tail(todo) /\ UNCHANGED wsTx
      BY <2>7 DEF Rejoin
    <3>. QED
      BY <1>2, <2>1, <3>1 DEF Rebind, Visits
  <2>8. CASE ConnectDone
    <3>1. pc = "rebind" /\ todo = <<>> /\ UNCHANGED wsTx
      BY <2>8 DEF ConnectDone, Leaves
    <3>. QED
      BY <1>2, <2>1, <3>1, EmptyList DEF Rebind, Visits
  <2>9. CASE pc \in {"rebindLock", "rebind", "rejoin"} /\ ClientActor
    <3>1. LockToRebind \/ Rebind \/ Rejoin \/ ConnectDone
      BY <2>9 DEF ClientActor, HandleGetState, HandleGetAccessToken, HandleGetWsTx, HandleAddChannel,
         StartConnect, BuildRequest, DialFails, DialSucceeds, MarkOpen, StartDisconnect, Leave,
         DisconnectDone, StartSetAccessToken, LockToReAuth, ReAuth, SetAccessTokenDone, Reply, Starts,
         Takes, Visits, Leaves
    <3>. QED
      BY <2>4, <2>6, <2>7, <2>8, <3>1
  <2>. QED
    BY <2>2, <2>3, <2>5, <2>9
<1>. QED
  BY <1>3, <1>4

\* No reconnection leaves a live channel of the list behind on a dead socket: the
\* loop of connect_ws visits each before the next request is taken.
THEOREM ReboundHolds == Spec => []Rebound
<1>1. Init => Rebinding
  BY EmptyList DEF Init, Rebinding
<1>2. Core /\ ListOwned /\ Listing /\ Rebinding /\ [Next]_vars => Rebinding'
  BY NextRebinding
<1>3. Rebinding => Rebound
  BY DEF Rebinding, Rebound
<1>. QED
  BY <1>1, <1>2, <1>3, CoreHolds, ListingHolds, PTL DEF Spec

\* Every step keeps the channels without the newest token ahead of the loop.
LEMMA NextCascading ==
  ASSUME Core, ListOwned, Listing, Cascading, [Next]_vars
  PROVE  Cascading'
<1>. SUFFICES ASSUME NEW c \in Range(channels'), chan'[c].st \in View!LiveStates,
                     added'[c].tok < token'
              PROVE  \/ chan'[c].tok = token' \/ pc' \in {"reauthLock", "dead"}
                     \/ pc' = "reauth" /\ c \in Range(todo')
  BY DEF Cascading, View!Live
<1>. DEFINE Reached == \/ chan[c].tok = token \/ pc \in {"reauthLock", "dead"}
                       \/ pc = "reauth" /\ c \in Range(todo)
<1>0. todo \in Seq(Chan) /\ token \in Nat
  BY TypeParts, Parties DEF Core, ActorTyped, ConnTyped
<1>1. c \in Chan
  BY ListedStep
<1>2. ASSUME c \in Range(channels), added'[c] = added[c], UNCHANGED token
      PROVE  View!Live(c) /\ chan'[c].tok \in {chan[c].tok, token} /\ Reached
  <2>1. chan[c] # View!Unbuilt
    BY <1>2 DEF Listing, Member
  <2>2. Steady(c)
    BY <1>1, <2>1, ChanStep DEF Core
  <2>. QED
    BY <1>2, <2>2 DEF Steady, Cascading
<1>3. CASE HandleAddChannel
  <2>1. UNCHANGED token /\ pc = "recv"
    BY <1>3 DEF HandleAddChannel, Reply, Takes
  <2>2. c \in Range(channels) /\ added'[c] = added[c]
    BY <1>0, <2>1, ListedStep
  <2>. QED
    BY <1>2, <2>1, <2>2
<1>4. CASE ~HandleAddChannel
  <2>1. c \in Range(channels) /\ added'[c] = added[c]
    BY <1>4, ListedStep
  <2>2. CASE ~ClientActor
    BY <1>2, <2>1, <2>2, LoopsElsewhere
  <2>3. CASE StartSetAccessToken
    BY <2>3 DEF StartSetAccessToken, Starts
  <2>4. CASE ReAuth
    <3>1. UNCHANGED token /\ pc = "reauth" /\ todo # <<>>
      BY <2>4 DEF ReAuth, Visits
    <3>2. Range(todo) = {Head(todo)} \cup Range(Tail(todo)) /\ Head(todo) \in Chan
      BY <1>0, <3>1, TailList, HeadTailProperties
    <3>3. CASE View!Live(Head(todo)) /\ todo' = Tail(todo) /\ UNCHANGED pc /\ View!TakesToken(Head(todo))
      <4>1. chan'[Head(todo)].tok = token
        BY <3>2, <3>3, LiveShown DEF View!TakesToken, View!Shown, Core, TypeOK
      <4>. QED
        BY <1>2, <2>1, <3>1, <3>2, <3>3, <4>1
    <3>4. CASE Dies
      BY <3>4 DEF Dies
    <3>. QED
      BY <2>4, <3>3, <3>4 DEF ReAuth, Reaches
  <2>5. CASE pc \notin {"reauthLock", "reauth", "dead"} /\ ClientActor /\ ~StartSetAccessToken
    BY <1>2, <2>1, <2>5, ActorKeeps
  <2>6. CASE LockToReAuth
    <3>1. pc' = "reauth" /\ todo' = channels /\ UNCHANGED <<token, channels>>
      BY <2>6 DEF LockToReAuth, LocksList
    <3>. QED
      BY <2>1, <3>1
  <2>7. CASE SetAccessTokenDone
    <3>1. pc = "reauth" /\ todo = <<>> /\ UNCHANGED token
      BY <2>7 DEF SetAccessTokenDone, Leaves
    <3>. QED
      BY <1>2, <2>1, <3>1, EmptyList
  <2>8. CASE pc \in {"reauthLock", "reauth", "dead"} /\ ClientActor
    <3>1. LockToReAuth \/ ReAuth \/ SetAccessTokenDone
      BY <2>8 DEF ClientActor, HandleGetState, HandleGetAccessToken, HandleGetWsTx, HandleAddChannel,
         StartConnect, BuildRequest, DialFails, DialSucceeds, MarkOpen, LockToRebind, Rebind, Rejoin,
         ConnectDone, StartDisconnect, Leave, DisconnectDone, StartSetAccessToken, Reply, Starts,
         Takes, Visits, Leaves
    <3>. QED
      BY <2>4, <2>6, <2>7, <3>1
  <2>. QED
    BY <2>2, <2>3, <2>5, <2>8
<1>. QED
  BY <1>3, <1>4

\* Between two requests of the client, every live channel that was in the list when
\* the token was last set joins with it.
THEOREM TokenCascadesHolds == Spec => []TokenCascades
<1>1. Init => Cascading
  BY EmptyList DEF Init, Cascading
<1>2. Core /\ ListOwned /\ Listing /\ Cascading /\ [Next]_vars => Cascading'
  BY NextCascading
<1>3. Cascading => TokenCascades
  BY DEF Cascading, TokenCascades
<1>. QED
  BY <1>1, <1>2, <1>3, CoreHolds, ListingHolds, PTL DEF Spec

-----------------------------------------------------------------------------
(* A client that is Reconnecting has not been forgotten.                      *)

ConnectQueued == \E i \in DOMAIN inbox : inbox[i].op = "Connect"

\* A Connect stays in the queue until it is under way or the actor dies.
LEMMA QueuedStep ==
  ASSUME Core, ConnectQueued, [Next]_vars
  PROVE  ConnectQueued' \/ pc' \in {"request", "dead"}
<1>. USE DEF Core
<1>1. inbox \in Seq(Request)
  BY DEF TypeOK
<1>2. ASSUME UNCHANGED inbox
      PROVE  ConnectQueued'
  BY <1>2 DEF ConnectQueued
<1>3. ASSUME NEW op, op # "Connect", Takes(op), inbox' = Tail(inbox)
      PROVE  ConnectQueued'
  <2>1. inbox # <<>> /\ Head(inbox).op = op
    BY <1>3 DEF Takes
  <2>2. PICK i \in DOMAIN inbox : inbox[i].op = "Connect"
    BY DEF ConnectQueued
  <2>3. i # 1
    BY <1>1, <1>3, <2>1, <2>2, TailFacts
  <2>4. i - 1 \in DOMAIN inbox' /\ inbox'[i - 1] = inbox[i]
    BY <1>1, <1>3, <2>1, <2>2, <2>3, TailFacts
  <2>. QED
    BY <2>2, <2>4 DEF ConnectQueued
<1>4. ASSUME NEW r, inbox' = Append(inbox, r)
      PROVE  ConnectQueued'
  <2>1. \A i \in DOMAIN inbox : i \in DOMAIN inbox' /\ inbox'[i] = inbox[i]
    BY <1>1, <1>4, AppendFacts
  <2>. QED
    BY <2>1 DEF ConnectQueued
<1>5. ASSUME NEW p \in Party, Orphans(p)
      PROVE  ConnectQueued'
  BY <1>5, OrphansType DEF ConnectQueued
<1>6. CASE ClientActor
  <2>1. ASSUME Dies
        PROVE  pc' = "dead"
    BY <2>1 DEF Dies
  <2>2. ASSUME NEW op, op # "Connect", NEW v, Reply(op, v)
        PROVE  ConnectQueued' \/ pc' \in {"request", "dead"}
    BY <1>3, <2>1, <2>2 DEF Reply
  <2>3. CASE HandleGetState \/ HandleGetAccessToken \/ HandleGetWsTx \/ HandleAddChannel
    <3>1. \/ Dies \/ Reply("GetState", 0) \/ Reply("GetAccessToken", token)
          \/ Reply("GetAccessTokenArc", token) \/ Reply("GetWsTx", wsTx) \/ Reply("AddChannel", 0)
      BY <2>3 DEF HandleGetState, HandleGetAccessToken, HandleGetWsTx, HandleAddChannel
    <3>. QED
      BY <2>1, <2>2, <3>1
  <2>4. CASE StartConnect
    BY <2>4 DEF StartConnect, Starts
  <2>5. CASE StartDisconnect \/ StartSetAccessToken
    BY <1>3, <2>5 DEF StartDisconnect, StartSetAccessToken, Starts
  <2>6. CASE \/ BuildRequest \/ DialFails \/ DialSucceeds \/ MarkOpen \/ LockToRebind \/ Rebind \/ Rejoin
             \/ ConnectDone \/ Leave \/ DisconnectDone \/ LockToReAuth \/ ReAuth \/ SetAccessTokenDone
    <3>1. Dies \/ UNCHANGED inbox
      BY <2>6 DEF BuildRequest, DialFails, DialSucceeds, MarkOpen, LockToRebind, Rebind, Rejoin,
         ConnectDone, Leave, DisconnectDone, LockToReAuth, ReAuth, SetAccessTokenDone
    <3>. QED
      BY <1>2, <2>1, <3>1
  <2>. QED
    BY <1>6, <2>3, <2>4, <2>5, <2>6 DEF ClientActor
<1>7. ASSUME NEW g \in Gen, ReceiveTask(g)
      PROVE  ConnectQueued'
  <2>1. ASSUME ReadEnd(g)
        PROVE  UNCHANGED inbox \/ inbox' = Append(inbox, [op |-> "Connect", by |-> g])
    BY <2>1, Zenon DEF ReadEnd, AsksToConnect
  <2>2. CASE UNCHANGED inbox
    BY <1>2, <2>2
  <2>. QED
    BY <1>4, <1>7, <2>1, <2>2 DEF ReceiveTask, ReadMessage, ReadPanics, ReadError, Reconnected,
                                  LockToRoute, RecvPanics,
       Filter, FilterDone, Dispatch, DispatchDone
<1>8. ASSUME NEW p \in Party, NEW op, Posts(p, op)
      PROVE  ConnectQueued'
  <2>1. inbox' = Append(inbox, [op |-> op, by |-> p]) \/ UNCHANGED inbox
    BY <1>8, Zenon DEF Posts
  <2>. QED
    BY <1>2, <1>4, <2>1
<1>9. ASSUME NEW c \in Chan, ChannelPanics(c) \/ \E op \in {"Subscribe", "Unsubscribe"} : HolderPosts(c, op)
      PROVE  UNCHANGED inbox
  BY <1>9, Zenon DEF ChannelPanics, HolderPosts
<1>10. CASE Environment
  BY <1>2, <1>5, <1>8, <1>9, <1>10, Parties DEF Environment, Resume, Abandon, Ask, BuildAsks, BuildResumes,
     ConnEnds, wireRest, actorVars
<1>11. ASSUME NEW c \in Chan, ChannelTasks(c)
       PROVE  UNCHANGED inbox
  BY <1>11 DEF ChannelTasks, PerformSubscribe, PerformUnsubscribe, HandleMessage, channelRest, actorVars
<1>12. ASSUME Server \/ UNCHANGED vars \/ \E g \in Gen : SendEnds(g)
       PROVE  UNCHANGED inbox
  BY <1>12 DEF Server, Confirms, ServerSends, wireRest, vars, SendEnds, actorVars
<1>13. ASSUME NEW g \in Gen, Cancelled(g)
       PROVE  ConnectQueued'
  BY <1>5, <1>13, Parties DEF Cancelled
<1>. QED
  BY <1>2, <1>6, <1>7, <1>10, <1>11, <1>12, <1>13 DEF Next, Local

\* Every step keeps the wish and what it rests on.
LEMMA NextWishing ==
  ASSUME Core, Wishing, [Next]_vars
  PROVE  Wishing'
<1>. USE DEF Core
<1>1. gen \in Nat /\ wsTx \in Nat /\ attempts \in Nat /\ MaxAttempts \in Nat \ {0}
  BY TypeParts, Parties DEF ConnTyped
<1>2. cstate = "Reconnecting" =>
        \/ pc \in {"request", "dial", "open"} \/ ConnectQueued
        \/ attempts = MaxAttempts \/ pc = "dead"
  BY DEF Wishing, ConnectQueued
<1>3. ConnectQueued => ConnectQueued' \/ pc' \in {"request", "dead"}
  BY QueuedStep
<1>4. ASSUME UNCHANGED <<cstate, gen, endpoint, attempts>>, cur'.op = cur.op,
             UNCHANGED pc \/ pc' \notin {"request", "dial", "open"},
             pc \in {"request", "dial", "open", "dead"} => UNCHANGED pc \/ pc' = "dead"
      PROVE  Wishing'
  BY <1>2, <1>3, <1>4 DEF Wishing, ConnectQueued
<1>5. CASE ClientActor
  <2>1. CASE \/ HandleGetState \/ HandleGetAccessToken \/ HandleGetWsTx \/ HandleAddChannel
             \/ StartDisconnect \/ StartSetAccessToken
             \/ LockToRebind \/ Rebind \/ Rejoin \/ ConnectDone \/ Leave \/ LockToReAuth
             \/ ReAuth \/ SetAccessTokenDone
    <3>1. UNCHANGED <<cstate, gen, endpoint, attempts>>
      BY <2>1 DEF HandleGetState, HandleGetAccessToken, HandleGetWsTx, HandleAddChannel,
         StartDisconnect, StartSetAccessToken, LockToRebind, Rebind, Rejoin, ConnectDone, Leave,
         LockToReAuth, ReAuth, SetAccessTokenDone, connVars, sharedVars
    <3>2. pc \notin {"request", "dial", "open", "dead"} /\ pc' \notin {"request", "dial", "open"}
      BY <2>1 DEF HandleGetState, HandleGetAccessToken, HandleGetWsTx, HandleAddChannel, Reply, Takes,
         Dies, StartDisconnect, StartSetAccessToken, Starts, LockToRebind, LocksList, Rebind, Rejoin,
         Visits, Leaves, Finishes, ConnectDone, Leave, LockToReAuth, ReAuth, SetAccessTokenDone
    <3>. QED
      BY <1>2, <1>3, <3>1, <3>2 DEF Wishing, ConnectQueued
  <2>2. CASE StartConnect
    <3>1. /\ cur' = Head(inbox) /\ Takes("Connect") /\ pc' = "request"
          /\ UNCHANGED <<cstate, gen, endpoint>>
      BY <2>2 DEF StartConnect, Starts, sharedVars
    <3>. QED
      BY <3>1 DEF Takes, Wishing
  <2>3. CASE BuildRequest
    <3>1. pc = "request" /\ UNCHANGED <<cstate, gen, endpoint>>
      BY <2>3 DEF BuildRequest, connVars
    <3>2. CASE endpoint = "good" /\ pc' = "dial" /\ UNCHANGED cur
      BY <3>1, <3>2 DEF Wishing
    <3>3. CASE endpoint # "good" \/ Dies
      <4>1. pc' \in {"recv", "dead"} /\ (pc' = "dead" \/ endpoint # "good")
        BY <2>3, <3>3 DEF BuildRequest, Finishes, Dies
      <4>. QED
        BY <1>1, <3>1, <4>1 DEF Wishing
    <3>. QED
      BY <2>3, <3>2, <3>3 DEF BuildRequest
  <2>4. CASE DialFails
    <3>1. pc = "dial" /\ UNCHANGED <<cstate, gen, endpoint>> /\ attempts' = attempts + 1
      BY <2>4 DEF DialFails, sharedVars, connVars
    <3>2. CASE UNCHANGED <<pc, cur>>
      BY <3>1, <3>2 DEF Wishing
    <3>3. CASE GivesUp(attempts') /\ Finishes
      <4>1. attempts' = MaxAttempts /\ pc' = "recv"
        BY <1>1, <3>1, <3>3 DEF GivesUp, Finishes, Counters
      <4>. QED
        BY <3>1, <4>1 DEF Wishing
    <3>. QED
      BY <2>4, <3>2, <3>3 DEF DialFails
  <2>5. CASE DialSucceeds
    BY <1>1, <2>5 DEF DialSucceeds, Wishing, sharedVars
  <2>6. CASE MarkOpen
    BY <2>6 DEF MarkOpen, MarksOpen, connVars, Wishing
  <2>7. CASE DisconnectDone
    <3>1. cstate' = "Closed" /\ UNCHANGED <<gen, endpoint>> /\ pc' \in {"recv", "dead"}
      BY <2>7 DEF DisconnectDone, Finishes, Dies
    <3>. QED
      BY <3>1 DEF Wishing
  <2>. QED
    BY <1>5, <2>1, <2>2, <2>3, <2>4, <2>5, <2>6, <2>7 DEF ClientActor
<1>6. ASSUME NEW g \in Gen, ReceiveTask(g)
      PROVE  Wishing'
  <2>1. UNCHANGED <<pc, cur, gen, endpoint, attempts>>
    BY <1>6 DEF ReceiveTask, ReadMessage, ReadPanics, ReadError, ReadEnd, Reconnected,
                LockToRoute, RecvPanics,
       Filter, FilterDone, Dispatch, DispatchDone, taskRest
  <2>2. CASE UNCHANGED cstate
    BY <1>4, <2>1, <2>2
  <2>3. gen > 0
    <3>1. recv[g].at # "none"
      BY <1>6 DEF ReceiveTask, ReadMessage, ReadPanics, ReadError, ReadEnd, Reconnected,
                  LockToRoute, RecvPanics,
         Filter, FilterDone, Dispatch, DispatchDone, At
    <3>2. g <= gen
      BY <1>1, <3>1, Parties DEF Asking
    <3>. QED
      BY <1>1, <3>2 DEF Gen
  <2>4. CASE ReadError(g)
    <3>1. cstate' = "Reconnect"
      BY <2>4 DEF ReadError
    <3>. QED
      BY <2>1, <2>3, <3>1 DEF Wishing
  <2>5. CASE ReadEnd(g)
    <3>1. cstate' = "Reconnecting" /\ (pc = "dead" \/ inbox' = Append(inbox, [op |-> "Connect", by |-> g]))
      BY <2>5, Zenon DEF ReadEnd, AsksToConnect
    <3>2. CASE inbox' = Append(inbox, [op |-> "Connect", by |-> g])
      <4>1. Len(inbox) + 1 \in DOMAIN inbox' /\ inbox'[Len(inbox) + 1].op = "Connect"
        BY <3>2, AppendFacts DEF TypeOK
      <4>. QED
        BY <2>1, <2>3, <3>1, <4>1 DEF Wishing
    <3>3. CASE pc = "dead"
      BY <2>1, <2>3, <3>1, <3>3 DEF Wishing
    <3>. QED
      BY <3>1, <3>2, <3>3
  <2>. QED
    BY <1>6, <2>2, <2>4, <2>5 DEF ReceiveTask, ReadMessage, ReadPanics, Reconnected,
                                  LockToRoute, RecvPanics,
       Filter, FilterDone, Dispatch, DispatchDone, sharedVars
<1>7. ASSUME NEW p \in Party, Orphans(p), UNCHANGED <<pc, cstate, gen, endpoint, attempts>>
      PROVE  Wishing'
  BY <1>4, <1>7, OrphansType
<1>8. ASSUME NEW g \in Gen, Cancelled(g)
      PROVE  Wishing'
  BY <1>7, <1>8, Parties DEF Cancelled
<1>9. CASE UNCHANGED ownVars
  <2>1. ASSUME NEW k \in Caller, Abandon(k)
        PROVE  Wishing'
    BY <1>7, <1>9, <2>1, Parties DEF Abandon, ownVars
  <2>2. CASE UNCHANGED cur
    BY <1>4, <1>9, <2>2 DEF ownVars
  <2>3. ASSUME NEW c \in Chan, ChannelPanics(c) \/ \E op \in {"Subscribe", "Unsubscribe"} : HolderPosts(c, op)
        PROVE  UNCHANGED cur
    BY <2>3, Zenon DEF ChannelPanics, HolderPosts, callerRest
  <2>4. CASE Environment
    BY <2>1, <2>2, <2>3, <2>4 DEF Environment, Resume, Ask, BuildAsks, BuildResumes, ConnEnds, wireRest,
       actorVars, callerRest
  <2>5. ASSUME \/ Server \/ UNCHANGED vars
               \/ \E g \in Gen : SendEnds(g)
               \/ \E c \in Chan : ChannelTasks(c)
        PROVE  UNCHANGED cur
    BY <2>5 DEF Server, Confirms, ServerSends, wireRest, vars, SendEnds, ChannelTasks, PerformSubscribe,
       PerformUnsubscribe, HandleMessage, channelRest, actorVars
  <2>. QED
    BY <1>5, <1>6, <1>8, <2>2, <2>4, <2>5 DEF Next, Local
<1>. QED
  BY <1>5, <1>6, <1>8, <1>9, Elsewhere

\* Reconnecting means that a Connect is queued or under way, or that the last one
\* gave up: the wish of the receive task is not lost between it and the actor.
THEOREM ReconnectUnderWayHolds == Spec => []ReconnectUnderWay
<1>1. Init => Wishing
  BY DEF Init, Wishing
<1>2. Core /\ Wishing /\ [Next]_vars => Wishing'
  BY NextWishing
<1>3. Wishing => ReconnectUnderWay
  BY DEF Wishing, ReconnectUnderWay, Range
<1>. QED
  BY <1>1, <1>2, <1>3, CoreHolds, PTL DEF Spec

-----------------------------------------------------------------------------
(* The messages reach the channels in order, as Delivery promises.            *)

\* What the order of the messages depends on: what the server has sent, what waits
\* to be read, what the receive tasks have in hand and what the channels were given.
Unmoved ==
  /\ UNCHANGED <<sent, inq, got>>
  /\ \A g \in Gen : recv'[g] = recv[g] \/ recv'[g].at \notin {"locking", "filter", "dispatch"}

\* The messages of the server, each sent over a connection.
LEMMA SentType ==
  ASSUME TypeOK
  PROVE  /\ sent \in Seq(Message) /\ Len(sent) \in Nat /\ DOMAIN sent = 1..Len(sent)
         /\ \A i \in DOMAIN sent : sent[i].conn \in Gen
<1>1. sent \in Seq(Message)
  BY DEF TypeOK
<1>2. \A i \in DOMAIN sent : sent[i] \in Message
  BY <1>1
<1>. QED
  BY <1>1, <1>2 DEF Message

\* A step that touches none of these keeps the order.
LEMMA UnmovedOrdered ==
  ASSUME TypeOK, Ordered, Unmoved
  PROVE  Ordered'
<1>1. \A m \in DOMAIN sent : sent[m].conn \in Gen
  BY SentType
<1>2. ASSUME NEW g \in Gen
      PROVE  Arriving(g)'
  BY <1>2 DEF Unmoved, Ordered, Arriving
<1>3. ASSUME NEW c \in Chan, NEW n \in DOMAIN got'[c]
      PROVE  Given(c, got[c][n])'
  <2>. DEFINE m == got[c][n]
  <2>1. n \in DOMAIN got[c] /\ got'[c][n] = m /\ Given(c, m)
    BY <1>3 DEF Unmoved, Ordered
  <2>2. m \in DOMAIN sent /\ sent[m].conn \in Gen
    BY <1>1, <2>1 DEF Given
  <2>. QED
    BY <2>1, <2>2 DEF Unmoved, Given
<1>. QED
  BY <1>2, <1>3 DEF Ordered

\* Only the server, and the receive tasks between reading a message and being done
\* with it, move a message.
LEMMA OthersUnmoved ==
  ASSUME TypeOK, [Next]_vars
  PROVE  \/ Unmoved
         \/ Server
         \/ \E g \in Gen : \/ ReadMessage(g) \/ ReadPanics(g) \/ LockToRoute(g) \/ Filter(g)
                          \/ FilterDone(g) \/ Dispatch(g)
<1>1. recv \in [Gen -> Task]
  BY Typed
<1>2. ASSUME UNCHANGED <<sent, inq, got, recv>>
      PROVE  Unmoved
  BY <1>2 DEF Unmoved
<1>3. CASE ClientActor
  <2>1. UNCHANGED <<sent, inq, got>> /\ (DialSucceeds \/ UNCHANGED recv)
    BY <1>3, ActorKeeps
  <2>2. CASE DialSucceeds
    <3>1. \A g \in Gen : recv'[g] = recv[g] \/ recv'[g].at = "reading"
      BY <1>1, <2>2 DEF DialSucceeds, Task
    <3>. QED
      BY <2>1, <3>1 DEF Unmoved
  <2>. QED
    BY <1>2, <2>1, <2>2
<1>4. ASSUME NEW g \in Gen,
             \/ ReadError(g) \/ ReadEnd(g) \/ Reconnected(g)
             \/ RecvPanics(g) \/ DispatchDone(g)
             \/ Cancelled(g)
      PROVE  Unmoved
  <2>1. ASSUME ReadEnd(g)
        PROVE  UNCHANGED <<sent, inq, got>>
    BY <2>1, Zenon DEF ReadEnd, taskRest
  <2>2. UNCHANGED <<sent, inq, got>>
    BY <1>4, <2>1 DEF ReadError, Reconnected, RecvPanics, DispatchDone, Cancelled, taskRest
  <2>3. recv'[g] = recv[g] \/ recv'[g].at \notin {"locking", "filter", "dispatch"}
    BY <1>4, TaskMoves
  <2>4. \A h \in Gen \ {g} : recv'[h] = recv[h]
    BY <1>4, TaskMoves DEF ReceiveTask
  <2>. QED
    BY <2>2, <2>3, <2>4 DEF Unmoved
<1>5. ASSUME \/ \E g \in Gen : SendEnds(g)
             \/ UNCHANGED vars
             \/ \E c \in Chan : ChannelTasks(c)
      PROVE  Unmoved
  BY <1>2, <1>5 DEF SendEnds, vars, ChannelTasks, PerformSubscribe, PerformUnsubscribe,
     HandleMessage, channelRest, connVars, chanVars
<1>6. CASE Environment
  <2>1. ASSUME NEW c \in Chan, ChannelPanics(c) \/ \E op \in {"Subscribe", "Unsubscribe"} : HolderPosts(c, op)
        PROVE  UNCHANGED <<sent, inq, got, recv>>
    BY <2>1, Zenon DEF ChannelPanics, HolderPosts, callerRest, connVars
  <2>. QED
    BY <1>2, <1>6, <2>1 DEF Environment, Resume, Abandon, Ask, BuildAsks, BuildResumes, ConnEnds,
       callerRest, wireRest, connVars, chanVars
<1>. QED
  BY <1>3, <1>4, <1>5, <1>6 DEF Next, Local, ReceiveTask

\* A message of the server is newer than all before it.
LEMMA ServerOrdered ==
  ASSUME TypeOK, Ordered, NEW g \in Gen, \E t, re : ServerSends(g, t, re)
  PROVE  Ordered'
<1>1. PICK t, re : ServerSends(g, t, re)
  OBVIOUS
<1>. DEFINE m == Len(sent) + 1
<1>2. /\ sent \in Seq(Message) /\ inq \in [Gen -> Seq(Nat)] /\ recv \in [Gen -> Task]
      /\ Len(sent) \in Nat /\ DOMAIN sent = 1..Len(sent)
      /\ \A i \in DOMAIN sent : sent[i].conn \in Gen
  BY Typed, SentType DEF TypeOK
<1>3. /\ sent' = Append(sent, [conn |-> g, topic |-> t, re |-> re])
      /\ inq' = [inq EXCEPT ![g] = Append(@, Len(sent'))]
      /\ UNCHANGED <<recv, got>>
  BY <1>1 DEF ServerSends, wireRest, chanVars
<1>4. /\ DOMAIN sent' = DOMAIN sent \cup {m} /\ Len(sent') = m
      /\ sent'[m].conn = g /\ \A i \in DOMAIN sent : sent'[i] = sent[i]
  BY <1>2, <1>3
<1>5. /\ inq'[g] = Append(inq[g], m) /\ inq[g] \in Seq(Nat)
      /\ \A h \in Gen \ {g} : inq'[h] = inq[h]
  BY <1>2, <1>3, <1>4
<1>6. /\ DOMAIN inq'[g] = DOMAIN inq[g] \cup {Len(inq[g]) + 1} /\ inq'[g][Len(inq[g]) + 1] = m
      /\ \A i \in DOMAIN inq[g] : inq'[g][i] = inq[g][i] /\ i < Len(inq[g]) + 1
  BY <1>5
<1>7. \A i \in DOMAIN sent : i < m
  BY <1>2
<1>8. ASSUME NEW h \in Gen
      PROVE  Arriving(h)'
  <2>1. Arriving(h)
    BY DEF Ordered
  <2>2. CASE h = g
    <3>1. ASSUME NEW i \in DOMAIN inq'[g]
          PROVE  inq'[g][i] \in DOMAIN sent' /\ sent'[inq'[g][i]].conn = g
      <4>1. CASE i \in DOMAIN inq[g]
        BY <1>4, <1>6, <2>1, <2>2, <4>1 DEF Arriving
      <4>2. CASE i = Len(inq[g]) + 1
        BY <1>4, <1>6, <4>2
      <4>. QED
        BY <1>6, <4>1, <4>2
    <3>2. ASSUME NEW i \in DOMAIN inq'[g], NEW j \in DOMAIN inq'[g], i < j
          PROVE  inq'[g][i] < inq'[g][j]
      <4>1. i \in DOMAIN inq[g]
        BY <1>5, <1>6, <3>2
      <4>2. CASE j \in DOMAIN inq[g]
        BY <1>6, <2>1, <2>2, <3>2, <4>1, <4>2 DEF Arriving
      <4>3. CASE j = Len(inq[g]) + 1
        <5>1. inq[g][i] \in DOMAIN sent
          BY <2>1, <2>2, <4>1 DEF Arriving
        <5>. QED
          BY <1>6, <1>7, <4>1, <4>3, <5>1
      <4>. QED
        BY <1>6, <4>2, <4>3
    <3>3. recv[g].at \in {"locking", "filter", "dispatch"} =>
            /\ recv[g].msg \in DOMAIN sent' /\ sent'[recv[g].msg].conn = g
            /\ \A i \in DOMAIN inq'[g] : recv[g].msg < inq'[g][i]
      BY <1>4, <1>6, <1>7, <2>1, <2>2 DEF Arriving
    <3>. QED
      BY <1>3, <2>2, <3>1, <3>2, <3>3 DEF Arriving
  <2>3. CASE h # g
    BY <1>3, <1>4, <1>5, <2>1, <2>3 DEF Arriving
  <2>. QED
    BY <2>2, <2>3
<1>9. ASSUME NEW c \in Chan, NEW n \in DOMAIN got'[c]
      PROVE  Given(c, got[c][n])'
  <2>. DEFINE k == got[c][n]
  <2>1. got'[c][n] = k /\ Given(c, k)
    BY <1>3, <1>9 DEF Ordered
  <2>2. k \in DOMAIN sent /\ k < m /\ sent'[k].conn = sent[k].conn /\ sent[k].conn \in Gen
    BY <1>2, <1>4, <1>7, <2>1 DEF Given
  <2>3. \A i \in DOMAIN inq'[sent[k].conn] : k < inq'[sent[k].conn][i]
    BY <1>5, <1>6, <2>1, <2>2 DEF Given
  <2>. QED
    BY <1>3, <1>4, <2>1, <2>2, <2>3 DEF Given
<1>. QED
  BY <1>8, <1>9 DEF Ordered

\* The channel that the receive task visits has been given nothing as new as the
\* message in hand.
LEMMA VisitIsNewest ==
  ASSUME TypeOK, Ordered, NEW g \in Gen, NEW c \in Chan, recv[g].at = "dispatch",
         c \in Range(recv[g].scan)
  PROVE  /\ recv[g].msg \in DOMAIN sent /\ sent[recv[g].msg].conn = g
         /\ \A n \in DOMAIN got[c] : sent[got[c][n]].conn = g => got[c][n] < recv[g].msg
BY DEF Ordered, Arriving, Given

\* What Dispatch does to the channel at the head of the scan.
LEMMA DispatchStep ==
  ASSUME TypeOK, NEW g \in Gen, Dispatch(g)
  PROVE  \E c \in Chan :
           /\ c \in Range(recv[g].scan) /\ recv[g].scan # <<>> /\ c = Head(recv[g].scan)
           /\ UNCHANGED <<sent, inq>>
           /\ \/ UNCHANGED got
              \/ /\ TopicOf[c] = sent[recv[g].msg].topic
                 /\ got' = [got EXCEPT ![c] = Append(@, recv[g].msg)]
<1>1. recv[g].scan \in Seq(Chan) /\ recv[g].scan # <<>>
  BY Typed DEF Dispatch, Task
<1>2. Head(recv[g].scan) \in Chan /\ Head(recv[g].scan) \in Range(recv[g].scan)
  BY <1>1, HeadTailProperties, TailList
<1>3. /\ UNCHANGED <<sent, inq>>
      /\ \/ UNCHANGED got
         \/ /\ TopicOf[Head(recv[g].scan)] = sent[recv[g].msg].topic
            /\ got' = [got EXCEPT ![Head(recv[g].scan)] = Append(@, recv[g].msg)]
  BY DEF Dispatch, taskRest
<1>. QED
  BY <1>1, <1>2, <1>3

\* Every step keeps the order: one case per step of a receive task.
LEMMA NextOrdered ==
  ASSUME TypeOK, ListOwned, Listing, Ordered, [Next]_vars
  PROVE  Ordered'
<1>0. DOMAIN sent \subseteq Nat /\ \A m \in DOMAIN sent : sent[m].conn \in Gen
  BY SentType
<1>1. /\ recv \in [Gen -> Task] /\ inq \in [Gen -> Seq(Nat)] /\ got \in [Chan -> Seq(Nat)]
  BY Typed DEF TypeOK
<1>2. ASSUME NEW g \in Gen, UNCHANGED sent, \A h \in Gen \ {g} : recv'[h] = recv[h] /\ inq'[h] = inq[h],
             Arriving(g)',
             \A c \in Chan : \A m \in DOMAIN sent : Given(c, m) /\ sent[m].conn = g => Given(c, m)',
             \A c \in Chan : \A m \in Range(got'[c]) : m \in Range(got[c]) \/ Given(c, m)'
      PROVE  Ordered'
  <2>1. \A h \in Gen : Arriving(h)'
    BY <1>2 DEF Ordered, Arriving
  <2>2. ASSUME NEW c \in Chan, NEW m \in Range(got[c])
        PROVE  Given(c, m)'
    <3>1. Given(c, m) /\ m \in DOMAIN sent /\ sent[m].conn \in Gen
      BY <1>0, <2>2 DEF Ordered, Given, Range
    <3>2. CASE sent[m].conn # g
      BY <1>2, <3>1, <3>2 DEF Given
    <3>. QED
      BY <1>2, <3>1, <3>2
  <2>3. ASSUME NEW c \in Chan, NEW n \in DOMAIN got'[c]
        PROVE  Given(c, got[c][n])'
    <3>1. PICK m : m = got'[c][n]
      OBVIOUS
    <3>2. Given(c, m)'
      BY <1>2, <2>2, <2>3, <3>1 DEF Range
    <3>. QED
      BY <3>1, <3>2
  <2>. QED
    BY <2>1, <2>3 DEF Ordered
<1>4. ASSUME NEW g \in Gen, ReadMessage(g) \/ ReadPanics(g)
      PROVE  Ordered'
  <2>1. /\ UNCHANGED <<sent, got>> /\ inq[g] # <<>> /\ inq' = [inq EXCEPT ![g] = Tail(@)]
        /\ recv'[g].at = "gone" \/ (recv'[g].at = "locking" /\ recv'[g].msg = Head(inq[g]))
        /\ \A h \in Gen \ {g} : recv'[h] = recv[h]
    BY <1>4, TaskMoves DEF ReadMessage, ReadPanics, ReceiveTask, taskRest
  <2>2. inq'[g] = Tail(inq[g]) /\ inq[g] \in Seq(Nat) /\ \A h \in Gen \ {g} : inq'[h] = inq[h]
    BY <1>1, <2>1
  <2>3. /\ 1 \in DOMAIN inq[g] /\ Head(inq[g]) = inq[g][1] /\ DOMAIN inq[g] \subseteq Nat
        /\ \A i \in DOMAIN inq'[g] : i + 1 \in DOMAIN inq[g] /\ i + 1 # 1 /\ inq'[g][i] = inq[g][i + 1]
        /\ \A i \in DOMAIN inq'[g] : i \in Nat /\ 1 < i + 1
    <3>. DEFINE s == inq[g]
    <3>1. /\ 1 \in DOMAIN s /\ Head(s) = s[1]
          /\ \A i \in DOMAIN Tail(s) : i + 1 \in DOMAIN s /\ i + 1 # 1 /\ Tail(s)[i] = s[i + 1]
          /\ DOMAIN Tail(s) \subseteq Nat /\ DOMAIN s \subseteq Nat
      BY <2>1, <2>2, TailFacts
    <3>2. \A i \in Nat : i + 1 # 1 => 1 < i + 1
      OBVIOUS
    <3>3. \A i \in DOMAIN Tail(s) : 1 < i + 1
      BY <3>1, <3>2
    <3>. QED
      BY <2>2, <3>1, <3>3
  <2>4. Arriving(g)
    BY DEF Ordered
  <2>5. Arriving(g)'
    <3>1. /\ \A i \in DOMAIN inq[g] : inq[g][i] \in DOMAIN sent /\ sent[inq[g][i]].conn = g
          /\ \A i, j \in DOMAIN inq[g] : i < j => inq[g][i] < inq[g][j]
      BY <2>4 DEF Arriving
    <3>2. ASSUME NEW i \in DOMAIN inq'[g]
          PROVE  /\ inq'[g][i] \in DOMAIN sent /\ sent[inq'[g][i]].conn = g
                 /\ Head(inq[g]) < inq'[g][i]
                 /\ \A j \in DOMAIN inq'[g] : i < j => inq'[g][i] < inq'[g][j]
      <4>1. i + 1 \in DOMAIN inq[g] /\ inq'[g][i] = inq[g][i + 1] /\ 1 < i + 1
        BY <2>3
      <4>2. ASSUME NEW j \in DOMAIN inq'[g], i < j
            PROVE  inq'[g][i] < inq'[g][j]
        <5>1. j + 1 \in DOMAIN inq[g] /\ inq'[g][j] = inq[g][j + 1] /\ i \in Int /\ j \in Int
          BY <2>3, <4>2
        <5>2. i + 1 < j + 1
          BY <4>2, <5>1
        <5>. QED
          BY <3>1, <4>1, <5>1, <5>2
      <4>. QED
        BY <2>3, <3>1, <4>1, <4>2
    <3>3. Head(inq[g]) \in DOMAIN sent /\ sent[Head(inq[g])].conn = g
      BY <2>3, <3>1
    <3>. QED
      BY <2>1, <3>2, <3>3 DEF Arriving
  <2>6. ASSUME NEW c \in Chan, NEW m \in DOMAIN sent, Given(c, m), sent[m].conn = g
        PROVE  Given(c, m)'
    BY <2>1, <2>3, <2>6 DEF Given
  <2>. QED
    BY <1>2, <2>1, <2>2, <2>5, <2>6
<1>5. ASSUME NEW g \in Gen, LockToRoute(g) \/ Filter(g) \/ FilterDone(g)
      PROVE  Ordered'
  <2>1. UNCHANGED <<sent, got, inq>>
    BY <1>5 DEF LockToRoute, Filter, FilterDone, taskRest
  <2>2. /\ \A h \in Gen \ {g} : recv'[h] = recv[h]
        /\ recv[g].at \in {"locking", "filter"} /\ recv'[g].at \in {"filter", "dispatch"}
        /\ recv'[g].msg = recv[g].msg
    BY <1>5, TaskMoves DEF ReceiveTask
  <2>3. Arriving(g)'
    BY <2>1, <2>2 DEF Ordered, Arriving
  <2>4. ASSUME NEW c \in Chan, NEW m \in DOMAIN sent, Given(c, m), sent[m].conn = g
        PROVE  Given(c, m)'
    <3>1. m < recv[g].msg /\ recv[g].msg \in Nat /\ m \in Nat
      BY <1>0, <1>1, <2>2, <2>4 DEF Given, Task
    <3>. QED
      BY <2>1, <2>2, <2>4, <3>1 DEF Given
  <2>. QED
    BY <1>2, <2>1, <2>2, <2>3, <2>4
<1>6. ASSUME NEW g \in Gen, Dispatch(g)
      PROVE  Ordered'
  <2>0. PICK m : m = recv[g].msg
    OBVIOUS
  <2>1. PICK c \in Chan :
           /\ c \in Range(recv[g].scan) /\ recv[g].scan # <<>> /\ c = Head(recv[g].scan)
           /\ UNCHANGED <<sent, inq>>
           /\ \/ UNCHANGED got
              \/ /\ TopicOf[c] = sent[m].topic
                 /\ got' = [got EXCEPT ![c] = Append(@, m)]
    BY <1>6, <2>0, DispatchStep
  <2>2. /\ recv[g].at = "dispatch" /\ recv'[g].at = "dispatch"
        /\ recv'[g].scan = Tail(recv[g].scan) /\ recv[g].msg = m /\ recv'[g].msg = m
        /\ \A h \in Gen \ {g} : recv'[h] = recv[h]
    BY <1>6, <2>0, TaskMoves DEF ReceiveTask
  <2>3. /\ m \in DOMAIN sent /\ m \in Nat /\ sent[m].conn = g
        /\ \A i \in DOMAIN inq[g] : m < inq[g][i]
    BY <1>0, <1>1, <2>2 DEF Ordered, Arriving
  <2>4. /\ c \notin Range(recv'[g].scan)
        /\ Range(recv'[g].scan) \subseteq Range(recv[g].scan)
    <3>1. recv[g].scan \in Seq(Chan) /\ Distinct(recv[g].scan)
      BY <1>1, <2>2 DEF Task, Listing, Scanning
    <3>. QED
      BY <2>1, <2>2, <3>1, TailList
  <2>5. Arriving(g)'
    BY <2>1, <2>2 DEF Ordered, Arriving
  <2>6. ASSUME NEW d \in Chan, NEW k \in DOMAIN sent, Given(d, k), sent[k].conn = g
        PROVE  Given(d, k)'
    BY <2>1, <2>2, <2>4, <2>6 DEF Given
  <2>7. CASE UNCHANGED got
    BY <1>2, <2>1, <2>2, <2>5, <2>6, <2>7
  <2>8. CASE got' = [got EXCEPT ![c] = Append(@, m)]
    <3>1. Given(c, m)'
      BY <2>1, <2>2, <2>3, <2>4 DEF Given
    <3>2. /\ \A d \in Chan \ {c} : got'[d] = got[d]
          /\ got'[c] = Append(got[c], m) /\ got[c] \in Seq(Nat)
      BY <1>1, <2>8
    <3>3. Range(got'[c]) = Range(got[c]) \cup {m}
      BY <3>2, AppendList
    <3>4. \A d \in Chan : \A k \in Range(got'[d]) : k \in Range(got[d]) \/ Given(d, k)'
      BY <3>1, <3>2, <3>3
    <3>. QED
      BY <1>2, <2>1, <2>2, <2>5, <2>6, <3>4
  <2>. QED
    BY <2>1, <2>7, <2>8
<1>7. ASSUME Server
      PROVE  Ordered'
  BY <1>7, ServerOrdered DEF Server, Confirms
<1>. QED
  BY <1>4, <1>5, <1>6, <1>7, OthersUnmoved, UnmovedOrdered

\* So it always holds.
LEMMA OrderedHolds == Spec => [](Core /\ Ordered)
<1>1. Init => Ordered
  BY DEF Init, Ordered, Arriving, Given, NoTask
<1>2. Core /\ ListOwned /\ Listing /\ Ordered /\ [Next]_vars => Ordered'
  BY NextOrdered DEF Core
<1>. QED
  BY <1>1, <1>2, CoreHolds, ListingHolds, PTL DEF Spec

\* A step of the client is the server sending, the delivery of one message to one
\* channel, or nothing that Delivery sees.
LEMMA StepDelivers ==
  ASSUME Core, Ordered, [Next]_vars
  PROVE  [Routing!Next]_(Routing!vars)
<1>. USE DEF Core
<1>1. CASE UNCHANGED <<sent, got>>
  BY <1>1 DEF Routing!vars
<1>2. CASE Server
  <2>0. PICK g \in Gen : \E t, re : ServerSends(g, t, re)
    BY <1>2 DEF Server, Confirms
  <2>1. PICK t, re : ServerSends(g, t, re)
    BY <2>0
  <2>2. sent' = Append(sent, [conn |-> g, topic |-> t, re |-> re]) /\ UNCHANGED got
    BY <2>1 DEF ServerSends, wireRest, chanVars
  <2>3. /\ Len(sent') = Len(sent) + 1
        /\ \A i \in DOMAIN sent : sent'[i] = sent[i]
    BY <2>2, SentType, AppendProperties, AppendFacts
  <2>. QED
    BY <2>2, <2>3 DEF Routing!Next, Routing!Send
<1>3. ASSUME NEW g \in Gen, Dispatch(g)
      PROVE  [Routing!Next]_(Routing!vars)
  <2>. DEFINE m == recv[g].msg
  <2>1. PICK c \in Chan :
           /\ c \in Range(recv[g].scan) /\ recv[g].scan # <<>> /\ c = Head(recv[g].scan)
           /\ UNCHANGED <<sent, inq>>
           /\ \/ UNCHANGED got
              \/ /\ TopicOf[c] = sent[m].topic
                 /\ got' = [got EXCEPT ![c] = Append(@, m)]
    BY <1>3, DispatchStep
  <2>2. recv[g].at = "dispatch"
    BY <1>3, TaskMoves
  <2>3. m \in DOMAIN sent /\ Routing!Newest(c, m)
    BY <2>1, <2>2, VisitIsNewest DEF Routing!Newest
  <2>. QED
    BY <1>1, <2>1, <2>3 DEF Routing!Next, Routing!Deliver
<1>4. ASSUME NEW g \in Gen, ReadMessage(g) \/ ReadPanics(g) \/ LockToRoute(g) \/ Filter(g) \/ FilterDone(g)
      PROVE  UNCHANGED <<sent, got>>
  BY <1>4 DEF ReadMessage, ReadPanics, LockToRoute, Filter, FilterDone, taskRest
<1>. QED
  BY <1>1, <1>2, <1>3, <1>4, OthersUnmoved DEF Unmoved

\* Over one connection a channel is given messages of its topic only, each at most
\* once and in the order the server sent them: the client implements Delivery.
THEOREM ClientDelivers == Spec => Delivers
<1>1. Init => Routing!Init
  BY DEF Init, Routing!Init
<1>2. Core /\ Ordered /\ [Next]_vars => [Routing!Next]_(Routing!vars)
  BY StepDelivers
<1>. QED
  BY <1>1, <1>2, OrderedHolds, PTL DEF Spec, Delivers, Routing!Spec

==============================================================================
