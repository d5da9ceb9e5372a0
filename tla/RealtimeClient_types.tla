------------------------- MODULE RealtimeClient_types ------------------------
(***************************************************************************)
(* Proofs about RealtimeClient, for every set of channels and callers, every *)
(* set of faults and every bound: that each step keeps the types.  That needs *)
(* two parts of the inductive invariant, which RealtimeClient_core proves. *)
(***************************************************************************)
EXTENDS RealtimeClient, SequenceTheorems, TLAPS

-----------------------------------------------------------------------------
(* The inductive invariant, in parts.                                      *)

\* The connection that ws_tx feeds is the newest one, but for the moment between
\* a dial and MarkOpen; and there are attempts to spare while the actor dials.
Counters ==
  /\ pc = "open" => gen = wsTx + 1
  /\ pc # "open" => gen = wsTx
  /\ pc \in {"rebindLock", "rebind", "rejoin"} => wsTx > 0
  /\ pc = "dial" => attempts < MaxAttempts
  /\ pc = "rejoin" => todo # <<>>

\* What a builder has asked for and been told: one question at a time, in the
\* order of its code, each answered with what it asked for.
Builder(c) ==
  /\ call[c].st # "idle" => build[c].at \in 1..4
  /\ \A i \in DOMAIN inbox : inbox[i].by = c => inbox[i].op = BuildOps[build[c].at]
  /\ call[c].st = "ok" /\ build[c].at = 1 => call[c].val \in Gen
  /\ call[c].st = "refused" => call[c].val = 0
  /\ build[c].at \in 2..5 \/ (build[c].at = 1 /\ call[c].st = "idle") => build[c].tx \in Gen
  /\ build[c].at \in 4..5 => chan[c] # View!Unbuilt

\* Readers and builders ask where their code does, and the actor has a responder
\* in hand only while it handles a request.
Asking ==
  /\ pc \in {"recv", "dead"} => cur.by = NoOne
  /\ cur.by \notin Chan
  /\ \A g \in Gen : /\ g > gen => recv[g].at = "none"
                    /\ recv[g].at # "waiting" => call[g].st = "idle"
  /\ \A i \in DOMAIN inbox : inbox[i].op = "AddChannel" => inbox[i].by \in Chan
  /\ \A c \in Chan : Builder(c)

-----------------------------------------------------------------------------
(* Lemmas about the constants and about the pieces of the actions.         *)

\* The requests of the client, and the order in which a builder makes its own.
LEMMA OpsAre ==
  /\ AllOps = {"Connect", "Disconnect", "SetAccessToken", "GetState", "GetWsTx",
               "GetAccessToken", "GetAccessTokenArc", "AddChannel"}
  /\ \A n \in 1..4 : BuildOps[n] \in AllOps
  /\ BuildOps[1] = "GetWsTx" /\ BuildOps[2] = "GetAccessToken"
  /\ BuildOps[3] = "GetAccessTokenArc" /\ BuildOps[4] = "AddChannel"
<1>1. DOMAIN BuildOps = 1..4
  BY DEF BuildOps
<1>2. Range(BuildOps) = {BuildOps[1], BuildOps[2], BuildOps[3], BuildOps[4]}
  BY <1>1 DEF Range
<1>. QED
  BY <1>2 DEF AllOps, BuildOps

\* Callers, builders and receive tasks are different parties, and NoOne is none.
LEMMA Parties ==
  /\ NoOne \notin Party /\ Chan \subseteq Party /\ Caller \subseteq Party /\ Gen \subseteq Party
  /\ Caller \cap Chan = {} /\ Caller \cap Gen = {} /\ Chan \cap Gen = {}
  /\ MaxGen \in Nat /\ MaxAttempts \in Nat \ {0} /\ Gen \subseteq Nat
BY ClientAssumption DEF Party, Gen

\* What the sets of records and of sequences in TypeOK are called here.
Task  == [at : {"none", "reading", "locking", "filter", "dispatch", "waiting", "gone"},
          scan : Seq(Chan), kept : Seq(Chan), msg : Nat]
Call  == [st : {"idle", "waiting", "ok", "refused"}, val : Nat]
Owner == {Free, Actor} \cup Gen
Place == {"recv", "request", "dial", "open", "rebindLock", "rebind", "leave",
          "rejoin", "reauthLock", "reauth", "dead"}

\* The parts of TypeOK that an action of the actor changes all at once.
ActorTyped ==
  /\ pc \in Place /\ cur \in Request /\ inbox \in Seq(Request) /\ todo \in Seq(Chan)
  /\ lock \in Owner /\ call \in [Party -> Call]

\* The types of the variables of the actor and of the receive tasks, by name.
LEMMA Typed == TypeOK => ActorTyped /\ recv \in [Gen -> Task]
BY DEF TypeOK, ActorTyped, Task, Call, Owner, Place

\* The request in place of none is one.
LEMMA NoReqTyped == NoReq \in Request
BY OpsAre DEF NoReq, Request

\* The request at the head of the queue is one, and the rest is a queue.
LEMMA TakesType ==
  ASSUME TypeOK, NEW op, Takes(op)
  PROVE  /\ Head(inbox) \in Request /\ Tail(inbox) \in Seq(Request)
         /\ Head(inbox).op = op /\ Head(inbox).by \in Party \cup {NoOne}
<1>1. inbox \in Seq(Request) /\ inbox # <<>> /\ Head(inbox).op = op
  BY DEF TypeOK, Takes
<1>2. Head(inbox) \in Request /\ Tail(inbox) \in Seq(Request)
  BY <1>1, HeadTailProperties
<1>. QED
  BY <1>1, <1>2 DEF Request

\* Answering keeps the calls typed.
LEMMA GetsType ==
  ASSUME TypeOK, NEW p \in Party \cup {NoOne}, NEW v \in Nat
  PROVE  Gets(p, v) \in [Party -> Call]
BY Typed DEF ActorTyped, Gets, Call

\* So does posting.
LEMMA WaitsType ==
  ASSUME TypeOK, NEW p \in Party
  PROVE  Waits(p) \in [Party -> Call]
BY Typed DEF ActorTyped, Waits, Call

\* A panic of the actor leaves its variables typed.
LEMMA DiesType ==
  ASSUME TypeOK, Dies
  PROVE  ActorTyped'
<1>1. <<>> \in Seq(Request) /\ <<>> \in Seq(Chan)
  BY EmptySeq
<1>2. call' \in [Party -> Call]
  BY Typed DEF Dies, ActorTyped, Call
<1>. QED
  BY <1>1, <1>2, NoReqTyped, Typed DEF Dies, ActorTyped, Place, Owner

\* So does handling a request in one go.
LEMMA ReplyType ==
  ASSUME TypeOK, NEW op, NEW v \in Nat, Reply(op, v)
  PROVE  ActorTyped'
<1>1. CASE Dies
  BY <1>1, DiesType
<1>2. CASE inbox' = Tail(inbox) /\ call' = Gets(Head(inbox).by, v) /\ UNCHANGED <<pc, cur, todo, lock>>
  BY <1>2, Typed, TakesType, GetsType DEF ActorTyped, Reply
<1>. QED
  BY <1>1, <1>2 DEF Reply

\* The rest of TypeOK: the connections and what the tasks share, and the channels.
ConnTyped ==
  /\ attempts \in 0..MaxAttempts
  /\ handles \subseteq Gen /\ wsTx \in 0..MaxGen /\ endpoint \in Endpoints
  /\ cstate \in ClientState /\ channels \in Seq(Chan) /\ token \in Nat
  /\ gen \in 0..MaxGen /\ aborted \subseteq Gen /\ sending \subseteq Gen
  /\ recv \in [Gen -> Task]
  /\ stream \in [Gen -> {"up", "err", "ended"}] /\ inq \in [Gen -> Seq(Nat)]

ChanTyped ==
  /\ out \in [Gen -> Seq(Frame)]
  /\ chan \in [Chan -> View!Shown \cup {View!Unbuilt, View!Broken}]
  /\ mail \in [Chan -> Seq({"Subscribe", "Unsubscribe"})]
  /\ deaf \subseteq Chan /\ heard \in [Chan -> Nat] /\ got \in [Chan -> Seq(Nat)]
  /\ build \in [Chan -> [at : 0..6, tx : 0..MaxGen, tok : Nat]]
  /\ added \in [Chan -> [gen : 0..MaxGen, tok : Nat]]
  /\ wanted \in BOOLEAN /\ sent \in Seq(Message) /\ budget \in Nat

\* TypeOK, taken apart by who changes what.
LEMMA TypeParts == TypeOK => ActorTyped /\ ConnTyped /\ ChanTyped
BY DEF TypeOK, ActorTyped, ConnTyped, ChanTyped, Task, Call, Owner, Place

\* The parts, put together again.
LEMMA PartsType == ActorTyped' /\ ConnTyped' /\ ChanTyped' => TypeOK'
BY DEF TypeOK, ActorTyped, ConnTyped, ChanTyped, Task, Call, Owner, Place

\* A request that becomes current is one.
LEMMA StartsType ==
  ASSUME TypeOK, NEW op, NEW next \in Place, Starts(op, next)
  PROVE  pc' \in Place /\ cur' \in Request /\ inbox' \in Seq(Request)
BY TakesType DEF Starts

\* Answering the current request keeps the types.
LEMMA FinishesType ==
  ASSUME TypeOK, Finishes
  PROVE  pc' \in Place /\ cur' \in Request /\ call' \in [Party -> Call]
<1>1. cur.by \in Party \cup {NoOne}
  BY DEF TypeOK, Request
<1>. QED
  BY <1>1, NoReqTyped, GetsType DEF Finishes, Place

\* A loop over the list starts with all of it.
LEMMA LocksType ==
  ASSUME TypeOK, NEW next \in Place, LocksList(next)
  PROVE  pc' \in Place /\ lock' \in Owner /\ todo' \in Seq(Chan)
BY DEF TypeOK, LocksList, Owner

\* A loop over the list visits a channel and leaves the rest.
LEMMA VisitsType ==
  ASSUME TypeOK, todo # <<>>
  PROVE  Head(todo) \in Chan /\ Tail(todo) \in Seq(Chan)
<1>1. todo \in Seq(Chan)
  BY DEF TypeOK
<1>. QED
  BY <1>1, HeadTailProperties

\* A live channel shows a state, a connection and a token.
LEMMA LiveShown ==
  ASSUME TypeOK, NEW c \in Chan, View!Live(c)
  PROVE  chan[c] \in View!Shown
<1>1. chan[c] \in View!Shown \/ chan[c] = View!Unbuilt \/ chan[c] = View!Broken
  BY DEF TypeOK
<1>2. View!Unbuilt.st \notin View!LiveStates /\ View!Broken.st \notin View!LiveStates
  BY DEF View!LiveStates, View!Unbuilt, View!Broken
<1>. QED
  BY <1>1, <1>2 DEF View!Live

\* The ways ChannelView gives a channel to change keep its type.
LEMMA BuiltType ==
  ASSUME TypeOK, NEW c \in Chan, NEW g \in Gen, NEW t \in Nat, View!Built(c, g, t)
  PROVE  chan' \in [Chan -> View!Shown \cup {View!Unbuilt, View!Broken}]
BY DEF TypeOK, View!Built, View!Shown, View!LiveStates

\* A new sender.
LEMMA RebindsType ==
  ASSUME TypeOK, NEW c \in Chan, NEW g \in Gen, View!Rebinds(c, g)
  PROVE  chan' \in [Chan -> View!Shown \cup {View!Unbuilt, View!Broken}]
BY LiveShown DEF TypeOK, View!Rebinds, View!Shown

\* A new state.
LEMMA MovesType ==
  ASSUME TypeOK, NEW c \in Chan,
         \/ View!Subscribes(c) \/ View!Confirmed(c) \/ View!Leaves(c)
         \/ View!TakesToken(c) \/ View!Breaks(c)
  PROVE  chan' \in [Chan -> View!Shown \cup {View!Unbuilt, View!Broken}]
<1>1. chan \in [Chan -> View!Shown \cup {View!Unbuilt, View!Broken}] /\ token \in Nat
  BY DEF TypeOK
<1>2. CASE View!Subscribes(c) \/ View!Confirmed(c) \/ View!Leaves(c)
  BY <1>1, <1>2, LiveShown DEF View!Subscribes, View!Confirmed, View!Leaves, View!Moves,
     View!Shown, View!LiveStates
<1>3. CASE View!TakesToken(c)
  BY <1>1, <1>3, LiveShown DEF View!TakesToken, View!Shown
<1>4. CASE View!Breaks(c)
  BY <1>1, <1>4 DEF View!Breaks
<1>. QED
  BY <1>2, <1>3, <1>4

\* A frame more in one of the queues.
LEMMA SpeaksType ==
  ASSUME TypeOK, NEW c \in Chan, View!Live(c), NEW e \in {"phx_join", "phx_leave", "access_token"},
         NEW t \in Nat, Speaks(c, e, t)
  PROVE  out' \in [Gen -> Seq(Frame)]
<1>1. chan[c].tx \in Gen
  BY LiveShown DEF View!Shown
<1>2. [event |-> e, from |-> c, tok |-> t] \in Frame
  BY DEF Frame
<1>3. out[chan[c].tx] \in Seq(Frame)
  BY <1>1 DEF TypeOK
<1>4. Append(out[chan[c].tx], [event |-> e, from |-> c, tok |-> t]) \in Seq(Frame)
  BY <1>2, <1>3, AppendProperties
<1>. QED
  BY <1>4 DEF TypeOK, Speaks

\* One receive task changes, as a whole or only in its place.
LEMMA TaskType ==
  ASSUME TypeOK, NEW g \in Gen, NEW t \in Task, recv' = [recv EXCEPT ![g] = t]
  PROVE  recv' \in [Gen -> Task]
BY TypeParts DEF ConnTyped

\* Only its place.
LEMMA GoesType ==
  ASSUME TypeOK, NEW g \in Gen,
         NEW at \in {"none", "reading", "locking", "filter", "dispatch", "waiting", "gone"},
         Goes(g, at)
  PROVE  recv' \in [Gen -> Task]
<1>1. recv[g] \in Task
  BY TypeParts DEF ConnTyped
<1>2. [recv[g] EXCEPT !.at = at] \in Task
  BY <1>1 DEF Task
<1>3. recv' = [recv EXCEPT ![g] = [recv[g] EXCEPT !.at = at]]
  BY DEF Goes
<1>. QED
  BY <1>2, <1>3, TaskType

-----------------------------------------------------------------------------
(* Type correctness, with the two invariants it needs: what ws_tx and the   *)
(* answers to builders may be.                                             *)

\* Every step of the actor keeps the types: one case per action.
LEMMA ActorTypes ==
  ASSUME TypeOK, Counters, Asking, ClientActor
  PROVE  TypeOK'
<1>. USE TypeParts, PartsType, OpsAre, Parties
     DEF connVars, chanVars, taskVars, sharedVars
<1>1. CASE HandleGetState
  BY <1>1, ReplyType DEF HandleGetState, ConnTyped, ChanTyped
<1>2. CASE HandleGetAccessToken
  BY <1>2, ReplyType DEF HandleGetAccessToken, ConnTyped, ChanTyped
<1>3. CASE HandleGetWsTx
  <2>1. CASE Dies
    BY <1>3, <2>1, DiesType DEF HandleGetWsTx, ConnTyped, ChanTyped
  <2>2. CASE Reply("GetWsTx", wsTx)
    <3>1. wsTx \in Nat
      BY DEF ConnTyped
    <3>. QED
      BY <1>3, <2>2, <3>1, ReplyType DEF HandleGetWsTx, ConnTyped, ChanTyped
  <2>. QED
    BY <1>3, <2>1, <2>2 DEF HandleGetWsTx
<1>4. CASE HandleAddChannel
  <2>1. Takes("AddChannel")
    BY <1>4 DEF HandleAddChannel, Reply
  <2>2. Head(inbox).by \in Chan
    BY <2>1, TakesType, HeadTailProperties DEF Asking, Takes
  <2>3. channels' \in Seq(Chan)
    BY <1>4, <2>2, AppendProperties DEF HandleAddChannel, ConnTyped
  <2>4. added' \in [Chan -> [gen : 0..MaxGen, tok : Nat]]
    BY <1>4, <2>2 DEF HandleAddChannel, ConnTyped, ChanTyped
  <2>. QED
    BY <1>4, <2>3, <2>4, ReplyType DEF HandleAddChannel, ConnTyped, ChanTyped
<1>5. CASE StartConnect
  BY <1>5, StartsType DEF StartConnect, ClearTasks, ActorTyped, ConnTyped, ChanTyped, Place
<1>6. CASE BuildRequest
  <2>1. ActorTyped'
    <3>1. CASE UNCHANGED <<cur, inbox, todo, lock, call>> /\ pc' = "dial"
      BY <3>1 DEF ActorTyped, Place
    <3>2. CASE Finishes /\ UNCHANGED <<inbox, todo, lock>>
      BY <3>2, FinishesType DEF ActorTyped
    <3>. QED
      BY <1>6, <3>1, <3>2, DiesType DEF BuildRequest
  <2>2. attempts' \in 0..MaxAttempts
    BY <1>6 DEF BuildRequest, ConnTyped
  <2>. QED
    BY <1>6, <2>1, <2>2 DEF BuildRequest, ConnTyped, ChanTyped
<1>7. CASE DialFails
  <2>1. attempts' \in 0..MaxAttempts
    BY <1>7 DEF DialFails, Counters, ConnTyped
  <2>2. ActorTyped'
    BY <1>7, FinishesType DEF DialFails, ActorTyped
  <2>. QED
    BY <1>7, <2>1, <2>2 DEF DialFails, ConnTyped, ChanTyped
<1>8. CASE DialSucceeds
  <2>1. gen' \in 0..MaxGen /\ gen' \in Gen
    BY <1>8 DEF DialSucceeds, ConnTyped, Gen
  <2>2. recv' \in [Gen -> Task]
    BY <1>8, <2>1, GoesType DEF DialSucceeds, Goes
  <2>3. ActorTyped'
    BY <1>8 DEF DialSucceeds, ActorTyped, Place
  <2>4. ChanTyped'
    BY <1>8 DEF DialSucceeds, ChanTyped
  <2>5. sending' \subseteq Gen
    BY <1>8, <2>1 DEF DialSucceeds, ConnTyped
  <2>6. ConnTyped'
    BY <1>8, <2>1, <2>2, <2>5 DEF DialSucceeds, ConnTyped
  <2>. QED
    BY <2>3, <2>4, <2>6
<1>9. CASE MarkOpen
  <2>1. gen \in Gen
    BY <1>9 DEF MarkOpen, Counters, ConnTyped, Gen
  <2>2. ActorTyped' /\ ChanTyped'
    BY <1>9 DEF MarkOpen, ActorTyped, ChanTyped, Place
  <2>3. ConnTyped'
    BY <1>9, <2>1 DEF MarkOpen, MarksOpen, ClientState, ConnTyped
  <2>. QED
    BY <2>2, <2>3
<1>10. CASE LockToRebind
  BY <1>10, LocksType DEF LockToRebind, ActorTyped, ConnTyped, ChanTyped, Place
<1>11. CASE Rebind
  <2>1. Head(todo) \in Chan /\ Tail(todo) \in Seq(Chan)
    BY <1>11, VisitsType DEF Rebind, Visits
  <2>2. wsTx \in Gen
    BY <1>11 DEF Rebind, Visits, Counters, ConnTyped, Gen
  <2>3. chan' \in [Chan -> View!Shown \cup {View!Unbuilt, View!Broken}]
    BY <1>11, <2>1, <2>2, RebindsType DEF Rebind, Rejoined, ChanTyped
  <2>. QED
    BY <1>11, <2>1, <2>3 DEF Rebind, Visits, ActorTyped, ConnTyped, ChanTyped, Place
<1>12. CASE Rejoin
  <2>1. Head(todo) \in Chan /\ Tail(todo) \in Seq(Chan)
    BY <1>12, VisitsType DEF Rejoin, Counters
  <2>2. Append(mail[Head(todo)], "Subscribe") \in Seq({"Subscribe", "Unsubscribe"})
    BY <2>1, AppendProperties DEF ChanTyped
  <2>3. mail' \in [Chan -> Seq({"Subscribe", "Unsubscribe"})]
    BY <1>12, <2>2 DEF Rejoin, PostsSubscribe, ChanTyped
  <2>. QED
    BY <1>12, <2>1, <2>3 DEF Rejoin, ActorTyped, ConnTyped, ChanTyped, Place
<1>13. CASE ConnectDone
  BY <1>13, FinishesType DEF ConnectDone, Leaves, ActorTyped, ConnTyped, ChanTyped, Owner
<1>14. CASE StartDisconnect
  BY <1>14, StartsType, LocksType DEF StartDisconnect, ActorTyped, ConnTyped, ChanTyped, Place
<1>15. CASE Leave
  <2>1. Head(todo) \in Chan /\ Tail(todo) \in Seq(Chan)
    BY <1>15, VisitsType DEF Leave, Visits
  <2>2. CASE LeavesNow(Head(todo))
    <3>1. chan' \in [Chan -> View!Shown \cup {View!Unbuilt, View!Broken}]
      BY <2>1, <2>2, MovesType DEF LeavesNow
    <3>2. out' \in [Gen -> Seq(Frame)]
      BY <2>1, <2>2, SpeaksType DEF LeavesNow, View!Leaves
    <3>. QED
      BY <1>15, <2>1, <2>2, <3>1, <3>2, DiesType DEF Leave, ActorTyped, ConnTyped, ChanTyped
  <2>3. CASE UNCHANGED <<chan, out>>
    BY <1>15, <2>1, <2>3, DiesType DEF Leave, ActorTyped, ConnTyped, ChanTyped
  <2>. QED
    BY <1>15, <2>2, <2>3 DEF Leave
<1>16. CASE DisconnectDone
  BY <1>16, FinishesType, DiesType
  DEF DisconnectDone, Leaves, ClearTasks, ClientState, ActorTyped, ConnTyped, ChanTyped, Owner
<1>17. CASE StartSetAccessToken
  <2>1. token' \in Nat
    BY <1>17 DEF StartSetAccessToken, ConnTyped
  <2>2. ActorTyped'
    BY <1>17, StartsType DEF StartSetAccessToken, ActorTyped, Place
  <2>. QED
    BY <1>17, <2>1, <2>2 DEF StartSetAccessToken, ConnTyped, ChanTyped
<1>18. CASE LockToReAuth
  BY <1>18, LocksType DEF LockToReAuth, ActorTyped, ConnTyped, ChanTyped, Place
<1>19. CASE ReAuth
  <2>1. Head(todo) \in Chan /\ Tail(todo) \in Seq(Chan)
    BY <1>19, VisitsType DEF ReAuth, Visits
  <2>2. chan' \in [Chan -> View!Shown \cup {View!Unbuilt, View!Broken}]
    BY <1>19, <2>1, MovesType DEF ReAuth, ChanTyped
  <2>3. out' \in [Gen -> Seq(Frame)]
    BY <1>19, <2>1, SpeaksType DEF ReAuth, ConnTyped, ChanTyped
  <2>. QED
    BY <1>19, <2>1, <2>2, <2>3, DiesType DEF ReAuth, ActorTyped, ConnTyped, ChanTyped
<1>20. CASE SetAccessTokenDone
  BY <1>20, FinishesType DEF SetAccessTokenDone, Leaves, ActorTyped, ConnTyped, ChanTyped, Owner
<1>. QED
  BY <1>1, <1>2, <1>3, <1>4, <1>5, <1>6, <1>7, <1>8, <1>9, <1>10, <1>11, <1>12, <1>13,
     <1>14, <1>15, <1>16, <1>17, <1>18, <1>19, <1>20 DEF ClientActor

\* Every step of a receive task keeps the types.
LEMMA ReceiveTypes ==
  ASSUME TypeOK, NEW g \in Gen, ReceiveTask(g)
  PROVE  TypeOK'
<1>. USE TypeParts, PartsType, OpsAre, Parties DEF taskRest, taskVars, sharedVars
<1>1. /\ recv \in [Gen -> Task] /\ recv[g] \in Task /\ recv[g].scan \in Seq(Chan)
      /\ recv[g].kept \in Seq(Chan) /\ inq[g] \in Seq(Nat) /\ channels \in Seq(Chan)
  BY DEF ConnTyped, Task
<1>2. <<>> \in Seq(Chan)
  BY EmptySeq
<1>4. CASE ReadMessage(g)
  <2>1. Head(inq[g]) \in Nat /\ Tail(inq[g]) \in Seq(Nat)
    BY <1>1, <1>4, HeadTailProperties DEF ReadMessage
  <2>2. recv' \in [Gen -> Task]
    <3>1. [recv[g] EXCEPT !.at = "locking", !.msg = Head(inq[g])] \in Task
      BY <1>1, <2>1 DEF Task
    <3>. QED
      BY <1>4, <3>1, TaskType DEF ReadMessage
  <2>3. inq' \in [Gen -> Seq(Nat)]
    BY <1>4, <2>1 DEF ReadMessage, ConnTyped
  <2>. QED
    BY <1>4, <2>2, <2>3 DEF ReadMessage, ActorTyped, ConnTyped, ChanTyped
<1>4a. CASE ReadPanics(g)
  <2>1. Tail(inq[g]) \in Seq(Nat)
    BY <1>1, <1>4a, HeadTailProperties DEF ReadPanics
  <2>2. inq' \in [Gen -> Seq(Nat)]
    BY <1>4a, <2>1 DEF ReadPanics, ConnTyped
  <2>. QED
    BY <1>4a, <2>2, GoesType DEF ReadPanics, ActorTyped, ConnTyped, ChanTyped
<1>5. CASE ReadError(g)
  <2>1. stream' \in [Gen -> {"up", "err", "ended"}]
    BY <1>5 DEF ReadError, ConnTyped
  <2>. QED
    BY <1>5, <2>1 DEF ReadError, ClientState, ActorTyped, ConnTyped, ChanTyped
<1>6. CASE ReadEnd(g)
  <2>1. recv' \in [Gen -> Task]
    BY <1>6, GoesType DEF ReadEnd
  <2>2. [op |-> "Connect", by |-> g] \in Request
    BY DEF Request
  <2>3. Append(inbox, [op |-> "Connect", by |-> g]) \in Seq(Request)
    BY <2>2, AppendProperties DEF ActorTyped
  <2>4. inbox' \in Seq(Request) /\ call' \in [Party -> Call]
    BY <1>6, <2>3, WaitsType DEF ReadEnd, AsksToConnect, ActorTyped
  <2>. QED
    BY <1>6, <2>1, <2>4 DEF ReadEnd, ClientState, ActorTyped, ConnTyped, ChanTyped
<1>7. CASE Reconnected(g)
  <2>1. recv' \in [Gen -> Task]
    BY <1>7, GoesType DEF Reconnected
  <2>2. call' \in [Party -> Call]
    BY <1>7 DEF Reconnected, ActorTyped, Call
  <2>. QED
    BY <1>7, <2>1, <2>2 DEF Reconnected, ActorTyped, ConnTyped, ChanTyped
<1>8. CASE LockToRoute(g)
  <2>1. recv' \in [Gen -> Task]
    <3>. DEFINE t == [recv[g] EXCEPT !.at = "filter", !.scan = channels, !.kept = <<>>]
    <3>1. t \in Task
      BY <1>1, <1>2 DEF Task
    <3>2. recv' = [recv EXCEPT ![g] = t]
      BY <1>1, <1>8, Zenon DEF LockToRoute
    <3>. QED
      BY <3>1, <3>2, TaskType
  <2>. QED
    BY <1>8, <2>1 DEF LockToRoute, Owner, ActorTyped, ConnTyped, ChanTyped
<1>9. CASE RecvPanics(g)
  BY <1>9, GoesType DEF RecvPanics, Owner, ActorTyped, ConnTyped, ChanTyped
<1>10. CASE Filter(g)
  <2>1. Head(recv[g].scan) \in Chan /\ Tail(recv[g].scan) \in Seq(Chan)
    BY <1>1, <1>10, HeadTailProperties DEF Filter
  <2>2. Append(recv[g].kept, Head(recv[g].scan)) \in Seq(Chan)
    BY <1>1, <2>1, AppendProperties
  <2>3. recv' \in [Gen -> Task]
    <3>. DEFINE c == Head(recv[g].scan)
                t == [recv[g] EXCEPT !.scan = Tail(@),
                        !.kept = IF chan[c].st = "Closed" THEN @ ELSE Append(@, c)]
    <3>1. t \in Task
      BY <1>1, <2>1, <2>2 DEF Task
    <3>2. recv' = [recv EXCEPT ![g] = t]
      BY <1>1, <1>10, Zenon DEF Filter
    <3>. QED
      BY <3>1, <3>2, TaskType
  <2>. QED
    BY <1>10, <2>3 DEF Filter, ActorTyped, ConnTyped, ChanTyped
<1>11. CASE FilterDone(g)
  <2>1. recv' \in [Gen -> Task]
    <3>. DEFINE t == [recv[g] EXCEPT !.at = "dispatch", !.scan = channels', !.kept = <<>>]
    <3>1. t \in Task
      BY <1>1, <1>2, <1>11 DEF Task, FilterDone, NewList
    <3>2. recv' = [recv EXCEPT ![g] = t]
      BY <1>1, <1>11, Zenon DEF FilterDone
    <3>. QED
      BY <3>1, <3>2, TaskType
  <2>. QED
    BY <1>1, <1>11, <2>1 DEF FilterDone, NewList, ActorTyped, ConnTyped, ChanTyped
<1>12. CASE Dispatch(g)
  <2>1. Head(recv[g].scan) \in Chan /\ Tail(recv[g].scan) \in Seq(Chan)
    BY <1>1, <1>12, HeadTailProperties DEF Dispatch
  <2>2. recv[g].msg \in Nat
    BY <1>1 DEF Task
  <2>3. Append(got[Head(recv[g].scan)], recv[g].msg) \in Seq(Nat)
    BY <2>1, <2>2, AppendProperties DEF ChanTyped
  <2>4. got' \in [Chan -> Seq(Nat)]
    BY <1>12, <2>3 DEF Dispatch, ChanTyped
  <2>5. recv' \in [Gen -> Task]
    <3>1. [recv[g] EXCEPT !.scan = Tail(@)] \in Task
      BY <1>1, <2>1 DEF Task
    <3>. QED
      BY <1>12, <3>1, TaskType DEF Dispatch
  <2>. QED
    BY <1>12, <2>4, <2>5 DEF Dispatch, ActorTyped, ConnTyped, ChanTyped
<1>13. CASE DispatchDone(g)
  <2>1. recv' \in [Gen -> Task]
    <3>1. [recv[g] EXCEPT !.at = "reading", !.msg = 0] \in Task
      BY <1>1 DEF Task
    <3>. QED
      BY <1>13, <3>1, TaskType DEF DispatchDone
  <2>. QED
    BY <1>13, <2>1 DEF DispatchDone, Owner, ActorTyped, ConnTyped, ChanTyped
<1>. QED
  BY <1>4, <1>4a, <1>5, <1>6, <1>7, <1>8, <1>9, <1>10, <1>11, <1>12, <1>13 DEF ReceiveTask

\* A function on the places of a sequence is a sequence of the same length.
LEMMA SameDomainIsSeq ==
  ASSUME NEW S, NEW T, NEW s \in Seq(S), NEW f, f \in [DOMAIN s -> T]
  PROVE  f \in Seq(T) /\ Len(f) = Len(s) /\ DOMAIN f = DOMAIN s
<1>1. DOMAIN s = 1..Len(s) /\ Len(s) \in Nat
  OBVIOUS
<1>. QED
  BY <1>1, IsASeq

\* What an orphaned request becomes: the same, with nobody to answer.
LEMMA OrphansType ==
  ASSUME TypeOK, NEW p \in Party, Orphans(p)
  PROVE  /\ inbox' \in Seq(Request) /\ cur' \in Request /\ call' \in [Party -> Call]
         /\ Len(inbox') = Len(inbox) /\ DOMAIN inbox' = DOMAIN inbox
         /\ \A i \in DOMAIN inbox :
              /\ inbox[i] \in Request /\ inbox'[i].op = inbox[i].op
              /\ inbox'[i].by = IF inbox[i].by = p THEN NoOne ELSE inbox[i].by
         /\ cur'.op = cur.op /\ cur'.by = IF cur.by = p THEN NoOne ELSE cur.by
<1>. DEFINE Orphan(r) == IF r.by = p THEN [r EXCEPT !.by = NoOne] ELSE r
<1>1. ASSUME NEW r \in Request
      PROVE  /\ Orphan(r) \in Request /\ Orphan(r).op = r.op
             /\ Orphan(r).by = IF r.by = p THEN NoOne ELSE r.by
  BY <1>1 DEF Request
<1>2. /\ inbox' = [i \in DOMAIN inbox |-> Orphan(inbox[i])]
      /\ cur' = Orphan(cur)
      /\ call' = [call EXCEPT ![p].st = "idle"]
  BY DEF Orphans
<1>3. inbox \in Seq(Request) /\ cur \in Request
  BY DEF TypeOK
<1>4. \A i \in DOMAIN inbox : inbox[i] \in Request
  BY <1>3
<1>. HIDE DEF Orphan
<1>5. inbox' \in [DOMAIN inbox -> Request]
  BY <1>1, <1>2, <1>4
<1>6. inbox' \in Seq(Request) /\ Len(inbox') = Len(inbox) /\ DOMAIN inbox' = DOMAIN inbox
  BY <1>3, <1>5, SameDomainIsSeq
<1>7. call' \in [Party -> Call]
  BY <1>2, Typed DEF ActorTyped, Call
<1>. QED
  BY <1>1, <1>2, <1>3, <1>4, <1>6, <1>7

\* An abort that takes effect keeps the types.
LEMMA CancelledTypes ==
  ASSUME TypeOK, NEW g \in Gen, Cancelled(g)
  PROVE  TypeOK'
<1>. USE TypeParts, PartsType, OpsAre, Parties DEF taskVars
<1>1. recv' \in [Gen -> Task]
  BY GoesType DEF Cancelled
<1>2. ActorTyped'
  BY OrphansType DEF Cancelled, GuardOf, Owner, ActorTyped
<1>3. /\ chan' \in [Chan -> View!Shown \cup {View!Unbuilt, View!Broken}]
      /\ mail' \in [Chan -> Seq({"Subscribe", "Unsubscribe"})]
  <2>1. CASE UNCHANGED <<chan, mail>>
    BY <2>1 DEF ChanTyped
  <2>2. CASE recv[g].scan # <<>> /\ LET c == Head(recv[g].scan) IN
               View!Breaks(c) /\ mail' = [mail EXCEPT ![c] = <<>>]
    <3>1. recv[g].scan \in Seq(Chan)
      BY DEF ConnTyped, Task
    <3>2. Head(recv[g].scan) \in Chan
      BY <2>2, <3>1, HeadTailProperties
    <3>3. <<>> \in Seq({"Subscribe", "Unsubscribe"})
      BY EmptySeq
    <3>4. chan' \in [Chan -> View!Shown \cup {View!Unbuilt, View!Broken}]
      BY <2>2, <3>2, MovesType
    <3>. QED
      BY <2>2, <3>2, <3>3, <3>4 DEF ChanTyped
  <2>. QED
    BY <2>1, <2>2 DEF Cancelled
<1>. QED
  BY <1>1, <1>2, <1>3 DEF Cancelled, ConnTyped, ChanTyped

\* So does the end of a send task.
LEMMA SendEndsTypes ==
  ASSUME TypeOK, NEW g \in Gen, SendEnds(g)
  PROVE  TypeOK'
BY TypeParts, PartsType
DEF SendEnds, actorVars, sharedVars, chanVars, taskVars, ActorTyped, ConnTyped, ChanTyped

\* So do the tasks of the channels.
LEMMA ChannelTasksTypes ==
  ASSUME TypeOK, NEW c \in Chan, ChannelTasks(c)
  PROVE  TypeOK'
<1>. USE TypeParts, PartsType
     DEF channelRest, actorVars, sharedVars, connVars, taskVars
<1>1. ActorTyped' /\ ConnTyped'
  BY DEF ChannelTasks, PerformSubscribe, PerformUnsubscribe, HandleMessage, ActorTyped, ConnTyped
<1>2. ASSUME mail[c] # <<>>, mail' = [mail EXCEPT ![c] = Tail(@)]
      PROVE  mail' \in [Chan -> Seq({"Subscribe", "Unsubscribe"})]
  <2>1. Tail(mail[c]) \in Seq({"Subscribe", "Unsubscribe"})
    BY <1>2, HeadTailProperties DEF ChanTyped
  <2>. QED
    BY <1>2, <2>1 DEF ChanTyped
<1>3. CASE PerformSubscribe(c)
  <2>1. chan' \in [Chan -> View!Shown \cup {View!Unbuilt, View!Broken}]
    BY <1>3, MovesType DEF PerformSubscribe
  <2>2. out' \in [Gen -> Seq(Frame)]
    <3>1. View!Live(c)
      BY <1>3 DEF PerformSubscribe, View!Subscribes
    <3>2. chan[c].tok \in Nat
      BY <3>1, LiveShown DEF View!Shown
    <3>. QED
      BY <1>3, <3>1, <3>2, SpeaksType DEF PerformSubscribe, ChanTyped
  <2>. QED
    BY <1>1, <1>2, <1>3, <2>1, <2>2 DEF PerformSubscribe, ChanTyped
<1>4. CASE PerformUnsubscribe(c)
  <2>1. CASE LeavesNow(c)
    <3>1. chan' \in [Chan -> View!Shown \cup {View!Unbuilt, View!Broken}]
      BY <2>1, MovesType DEF LeavesNow
    <3>2. out' \in [Gen -> Seq(Frame)]
      BY <2>1, SpeaksType DEF LeavesNow, View!Leaves
    <3>. QED
      BY <1>1, <1>2, <1>4, <3>1, <3>2 DEF PerformUnsubscribe, ChanTyped
  <2>2. CASE UNCHANGED <<chan, out>>
    BY <1>1, <1>2, <1>4, <2>2 DEF PerformUnsubscribe, ChanTyped
  <2>. QED
    BY <1>4, <2>1, <2>2 DEF PerformUnsubscribe
<1>5. CASE HandleMessage(c)
  <2>1. chan' \in [Chan -> View!Shown \cup {View!Unbuilt, View!Broken}]
    BY <1>5, MovesType DEF HandleMessage, Joins, ChanTyped
  <2>2. heard' \in [Chan -> Nat] /\ deaf' \subseteq Chan
    BY <1>5 DEF HandleMessage, ChanTyped
  <2>. QED
    BY <1>1, <1>5, <2>1, <2>2 DEF HandleMessage, ChanTyped
<1>. QED
  BY <1>3, <1>4, <1>5 DEF ChannelTasks

\* Posting a request keeps the queue and the calls typed.
LEMMA PostsType ==
  ASSUME TypeOK, NEW p \in Party, NEW op \in AllOps, Posts(p, op)
  PROVE  inbox' \in Seq(Request) /\ call' \in [Party -> Call]
<1>1. [op |-> op, by |-> p] \in Request
  BY DEF Request
<1>2. Append(inbox, [op |-> op, by |-> p]) \in Seq(Request)
  BY <1>1, TypeParts, AppendProperties DEF ActorTyped
<1>3. call' \in [Party -> Call]
  <2>1. CASE call' = Waits(p)
    BY <2>1, WaitsType
  <2>2. CASE call' = [call EXCEPT ![p] = [st |-> "refused", val |-> 0]]
    BY <2>2, TypeParts DEF ActorTyped, Call
  <2>. QED
    BY <2>1, <2>2 DEF Posts
<1>. QED
  BY <1>2, <1>3, TypeParts DEF Posts, ActorTyped

\* So do the callers, the builders, the holders and the network.
LEMMA EnvironmentTypes ==
  ASSUME TypeOK, Asking, Environment
  PROVE  TypeOK'
<1>. USE TypeParts, PartsType, Parties
     DEF callerRest, actorVars, sharedVars, connVars, taskVars, chanVars, wireRest
<1>1. ASSUME NEW k \in Caller, Resume(k)
      PROVE  TypeOK'
  <2>1. call' \in [Party -> Call]
    BY <1>1 DEF Resume, ActorTyped, Call
  <2>. QED
    BY <1>1, <2>1 DEF Resume, ActorTyped, ConnTyped, ChanTyped
<1>2. ASSUME NEW k \in Caller, Abandon(k)
      PROVE  TypeOK'
  <2>1. budget' \in Nat
    BY <1>2 DEF Abandon, Spend, ChanTyped
  <2>. QED
    BY <1>2, <2>1, OrphansType DEF Abandon, ActorTyped, ConnTyped, ChanTyped
<1>3. ASSUME NEW k \in Caller, NEW op \in AllOps, Ask(k, op)
      PROVE  TypeOK'
  <2>1. budget' \in Nat
    BY <1>3 DEF Ask, Spend, ChanTyped
  <2>. QED
    BY <1>3, <2>1, PostsType DEF Ask, ActorTyped, ConnTyped, ChanTyped
<1>4. ASSUME NEW c \in Chan, BuildAsks(c)
      PROVE  TypeOK'
  <2>1. budget' \in Nat
    BY <1>4 DEF BuildAsks, Spend, ChanTyped
  <2>2. build[c] \in [at : 0..6, tx : 0..MaxGen, tok : Nat] /\ build[c].at \in 0..3
    BY <1>4 DEF BuildAsks, ChanTyped
  <2>3. [build[c] EXCEPT !.at = @ + 1] \in [at : 0..6, tx : 0..MaxGen, tok : Nat]
    BY <2>2
  <2>4. build' = [build EXCEPT ![c] = [build[c] EXCEPT !.at = @ + 1]]
    BY <1>4 DEF BuildAsks
  <2>5. build' \in [Chan -> [at : 0..6, tx : 0..MaxGen, tok : Nat]]
    BY <2>3, <2>4 DEF ChanTyped
  <2>6. build'[c].at = build[c].at + 1
    BY <2>2, <2>4 DEF ChanTyped
  <2>7. BuildOps[build'[c].at] \in AllOps
    BY <2>2, <2>6, OpsAre
  <2>8. inbox' \in Seq(Request) /\ call' \in [Party -> Call]
    BY <1>4, <2>7, PostsType DEF BuildAsks
  <2>9. chan' \in [Chan -> View!Shown \cup {View!Unbuilt, View!Broken}]
    <3>1. CASE build'[c].at = 4
      <4>1. build[c].at = 3
        BY <2>2, <2>6, <3>1
      <4>2. build[c].tx \in Gen
        BY <4>1 DEF Asking, Builder
      <4>. QED
        BY <1>4, <2>2, <3>1, <4>2, BuiltType DEF BuildAsks
    <3>. QED
      BY <1>4, <3>1 DEF BuildAsks, ChanTyped
  <2>. QED
    BY <1>4, <2>1, <2>5, <2>8, <2>9 DEF BuildAsks, ActorTyped, ConnTyped, ChanTyped
<1>5. ASSUME NEW c \in Chan, BuildResumes(c)
      PROVE  TypeOK'
  <2>1. call' \in [Party -> Call]
    BY <1>5 DEF BuildResumes, ActorTyped, Call
  <2>2. /\ build[c] \in [at : 0..6, tx : 0..MaxGen, tok : Nat]
        /\ call[c] \in Call
    BY DEF ChanTyped, ActorTyped
  <2>3. build[c].at = 1 => call[c].val \in 0..MaxGen
    <3>1. Builder(c)
      BY DEF Asking
    <3>. QED
      BY <1>5, <3>1 DEF BuildResumes, Builder, Gen
  <2>. DEFINE tx  == IF build[c].at = 1 THEN call[c].val ELSE build[c].tx
              tok == IF build[c].at = 2 THEN call[c].val ELSE build[c].tok
              at  == IF call[c].st = "refused" THEN 6
                     ELSE IF build[c].at = 4 THEN 5 ELSE build[c].at
              b   == [build[c] EXCEPT !.tx = tx, !.tok = tok, !.at = at]
  <2>4. b \in [at : 0..6, tx : 0..MaxGen, tok : Nat]
    <3>1. tx \in 0..MaxGen /\ tok \in Nat /\ at \in 0..6
      BY <2>2, <2>3 DEF Call
    <3>. QED
      BY <2>2, <3>1
  <2>5. build' = [build EXCEPT ![c] = b]
    BY <1>5, Zenon DEF BuildResumes, ChanTyped
  <2>6. build' \in [Chan -> [at : 0..6, tx : 0..MaxGen, tok : Nat]]
    BY <2>4, <2>5 DEF ChanTyped
  <2>. QED
    BY <1>5, <2>1, <2>6 DEF BuildResumes, ActorTyped, ConnTyped, ChanTyped
<1>6. ASSUME NEW c \in Chan, ChannelPanics(c)
      PROVE  TypeOK'
  <2>1. budget' \in Nat
    <3>1. Spend
      BY <1>6, Zenon DEF ChannelPanics
    <3>. QED
      BY <3>1 DEF Spend, ChanTyped
  <2>2. <<>> \in Seq({"Subscribe", "Unsubscribe"})
    BY EmptySeq
  <2>3. mail' \in [Chan -> Seq({"Subscribe", "Unsubscribe"})]
    BY <1>6, <2>2 DEF ChannelPanics, ChanTyped
  <2>4. chan' \in [Chan -> View!Shown \cup {View!Unbuilt, View!Broken}]
    BY <1>6, MovesType DEF ChannelPanics
  <2>. QED
    BY <1>6, <2>1, <2>3, <2>4 DEF ChannelPanics, ActorTyped, ConnTyped, ChanTyped
<1>7. ASSUME NEW c \in Chan, NEW op \in {"Subscribe", "Unsubscribe"}, HolderPosts(c, op)
      PROVE  TypeOK'
  <2>1. budget' \in Nat
    BY <1>7 DEF HolderPosts, Spend, ChanTyped
  <2>2. Append(mail[c], op) \in Seq({"Subscribe", "Unsubscribe"})
    BY AppendProperties DEF ChanTyped
  <2>3. mail' \in [Chan -> Seq({"Subscribe", "Unsubscribe"})]
    BY <1>7, <2>2 DEF HolderPosts, ChanTyped
  <2>. QED
    BY <1>7, <2>1, <2>3 DEF HolderPosts, ActorTyped, ConnTyped, ChanTyped
<1>8. ASSUME NEW g \in Gen, NEW how \in {"err", "ended"}, ConnEnds(g, how)
      PROVE  TypeOK'
  <2>1. budget' \in Nat
    BY <1>8 DEF ConnEnds, Spend, ChanTyped
  <2>2. stream' \in [Gen -> {"up", "err", "ended"}]
    BY <1>8 DEF ConnEnds, ConnTyped
  <2>. QED
    BY <1>8, <2>1, <2>2 DEF ConnEnds, ActorTyped, ConnTyped, ChanTyped
<1>. QED
  BY <1>1, <1>2, <1>3, <1>4, <1>5, <1>6, <1>7, <1>8 DEF Environment

\* So does a message of the server, whatever it costs.
LEMMA ServerSendsType ==
  ASSUME TypeOK, NEW g \in Gen, NEW t \in Topic, NEW re \in Chan \cup {NoOne},
         ServerSends(g, t, re), budget' \in Nat
  PROVE  TypeOK'
<1>. USE TypeParts, PartsType
     DEF wireRest, actorVars, sharedVars, taskVars, chanVars
<1>1. [conn |-> g, topic |-> t, re |-> re] \in Message
  BY DEF Message
<1>2. sent' \in Seq(Message) /\ Len(sent') \in Nat
  BY <1>1, AppendProperties, LenProperties DEF ServerSends, ChanTyped
<1>3. Append(inq[g], Len(sent')) \in Seq(Nat)
  BY <1>2, AppendProperties DEF ConnTyped
<1>4. inq' \in [Gen -> Seq(Nat)]
  BY <1>3 DEF ServerSends, ConnTyped
<1>. QED
  BY <1>2, <1>4 DEF ServerSends, ActorTyped, ConnTyped, ChanTyped

\* Every step of the specification keeps the types.
LEMMA NextTypes ==
  ASSUME TypeOK, Counters, Asking, [Next]_vars
  PROVE  TypeOK'
<1>1. CASE UNCHANGED vars
  BY <1>1, TypeParts, PartsType
  DEF vars, actorVars, sharedVars, connVars, chanVars, taskVars, ActorTyped, ConnTyped, ChanTyped
<1>2. CASE Server
  <2>1. budget' \in Nat
    BY <1>2 DEF Server, Spend, TypeOK
  <2>. QED
    BY <1>2, <2>1, ServerSendsType, ClientAssumption DEF Server, Confirms
<1>3. CASE Local
  BY <1>3, ActorTypes, ReceiveTypes, CancelledTypes, SendEndsTypes, ChannelTasksTypes,
     EnvironmentTypes DEF Local
<1>. QED
  BY <1>1, <1>2, <1>3 DEF Next

\* The types hold at the start.
LEMMA InitTypes ==
  ASSUME Init
  PROVE  TypeOK
<1>. USE OpsAre, Parties, ClientAssumption
<1>1. cur \in Request
  BY DEF Init, Request
<1>2. /\ inbox \in Seq(Request) /\ todo \in Seq(Chan) /\ channels \in Seq(Chan)
      /\ sent \in Seq(Message) /\ inq \in [Gen -> Seq(Nat)] /\ out \in [Gen -> Seq(Frame)]
      /\ mail \in [Chan -> Seq({"Subscribe", "Unsubscribe"})] /\ got \in [Chan -> Seq(Nat)]
  BY DEF Init
<1>3. recv \in [Gen -> Task]
  BY DEF Init, NoTask, Task
<1>4. chan \in [Chan -> View!Shown \cup {View!Unbuilt, View!Broken}]
  BY DEF Init
<1>5. /\ build \in [Chan -> [at : 0..6, tx : 0..MaxGen, tok : Nat]]
      /\ call \in [Party -> [st : {"idle", "waiting", "ok", "refused"}, val : Nat]]
      /\ added \in [Chan -> [gen : 0..MaxGen, tok : Nat]]
  BY DEF Init
<1>. QED
  BY <1>1, <1>2, <1>3, <1>4, <1>5 DEF Init, TypeOK, Task, ClientState

==============================================================================
