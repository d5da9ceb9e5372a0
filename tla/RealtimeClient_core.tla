------------------------- MODULE RealtimeClient_core -------------------------
(***************************************************************************)
(* Proofs about RealtimeClient: the core of its inductive invariant, which is *)
(* that the types are right, that whoever awaits the actor has one responder, *)
(* and that everybody asks where and what its code asks.                   *)
(***************************************************************************)
EXTENDS RealtimeClient_types

-----------------------------------------------------------------------------
(* What a step does to a channel: nobody unbuilds it, and its connection and  *)
(* its token change in two places only.                                      *)

\* A channel that changes its state, takes a token or panics keeps its sender.
LEMMA ViewMoves ==
  ASSUME TypeOK, NEW c \in Chan, NEW d \in Chan,
         \/ View!Subscribes(c) \/ View!Confirmed(c) \/ View!Leaves(c)
         \/ View!TakesToken(c) \/ View!Breaks(c)
  PROVE  /\ chan[d] # View!Unbuilt => chan'[d] # View!Unbuilt
         /\ chan'[d].st \in View!LiveStates =>
              View!Live(d) /\ chan'[d].tx = chan[d].tx /\ chan'[d].tok \in {chan[d].tok, token}
<1>1. chan \in [Chan -> View!Shown \cup {View!Unbuilt, View!Broken}] /\ token \in Nat
  BY DEF TypeOK
<1>2. View!Unbuilt.st \notin View!LiveStates /\ View!Broken.st \notin View!LiveStates
      /\ View!Unbuilt.st # View!Broken.st
  BY DEF View!LiveStates, View!Unbuilt, View!Broken
<1>3. CASE d # c
  BY <1>1, <1>3 DEF View!Subscribes, View!Confirmed, View!Leaves, View!TakesToken, View!Breaks,
     View!Moves, View!Live
<1>4. ASSUME View!Live(c)
      PROVE  chan[c] \in View!Shown /\ chan[c].st \in View!LiveStates
  BY <1>4, LiveShown DEF View!Live
<1>5. CASE d = c /\ (View!Subscribes(c) \/ View!Confirmed(c) \/ View!Leaves(c))
  <2>1. /\ chan'[c].st \in View!LiveStates /\ chan'[c].tx = chan[c].tx /\ chan'[c].tok = chan[c].tok
        /\ View!Live(c)
    BY <1>1, <1>4, <1>5 DEF View!Subscribes, View!Confirmed, View!Leaves, View!Moves,
       View!LiveStates, View!Shown
  <2>. QED
    BY <1>2, <1>5, <2>1
<1>6. CASE d = c /\ View!TakesToken(c)
  <2>1. /\ chan'[c].st \in View!LiveStates /\ chan'[c].tx = chan[c].tx /\ chan'[c].tok = token
        /\ View!Live(c)
    BY <1>1, <1>4, <1>6 DEF View!TakesToken, View!Shown
  <2>. QED
    BY <1>2, <1>6, <2>1
<1>7. CASE d = c /\ View!Breaks(c)
  <2>1. chan'[c] = View!Broken
    BY <1>1, <1>7 DEF View!Breaks
  <2>. QED
    BY <1>2, <1>7, <2>1
<1>. QED
  BY <1>3, <1>5, <1>6, <1>7

\* ClientTx changes the sender of one channel.
LEMMA ViewRebinds ==
  ASSUME TypeOK, NEW c \in Chan, NEW d \in Chan, NEW g \in Gen, View!Rebinds(c, g)
  PROVE  /\ chan[d] # View!Unbuilt => chan'[d] # View!Unbuilt
         /\ chan'[d].st \in View!LiveStates =>
              /\ View!Live(d) /\ chan'[d].tok = chan[d].tok
              /\ chan'[d].tx = IF d = c THEN g ELSE chan[d].tx
<1>1. chan \in [Chan -> View!Shown \cup {View!Unbuilt, View!Broken}]
  BY DEF TypeOK
<1>2. View!Unbuilt.st \notin View!LiveStates
  BY DEF View!LiveStates, View!Unbuilt
<1>3. chan[c] \in View!Shown /\ chan[c].st \in View!LiveStates
  BY LiveShown DEF View!Rebinds, View!Live
<1>4. chan'[c].st \in View!LiveStates /\ chan'[c].tok = chan[c].tok /\ chan'[c].tx = g
  BY <1>1, <1>3 DEF View!Rebinds, View!Shown
<1>5. d # c => chan'[d] = chan[d]
  BY <1>1 DEF View!Rebinds
<1>. QED
  BY <1>2, <1>3, <1>4, <1>5 DEF View!Live

\* build_common makes one channel out of nothing.
LEMMA ViewBuilt ==
  ASSUME TypeOK, NEW c \in Chan, NEW d \in Chan, NEW g, NEW t, View!Built(c, g, t)
  PROVE  /\ chan'[c] # View!Unbuilt /\ chan[c] = View!Unbuilt
         /\ d # c => chan'[d] = chan[d]
<1>1. chan'[c] = [st |-> "Closed", tx |-> g, tok |-> t]
  BY DEF TypeOK, View!Built
<1>2. View!Unbuilt.st # chan'[c].st
  BY <1>1 DEF View!Unbuilt
<1>. QED
  BY <1>2 DEF TypeOK, View!Built

\* What a step may do to a channel d once it is built.
Steady(d) ==
  /\ chan'[d] # View!Unbuilt
  /\ chan'[d].st \in View!LiveStates =>
       /\ View!Live(d)
       /\ chan'[d].tx = chan[d].tx \/ (Rebind /\ d = Head(todo) /\ chan'[d].tx = wsTx)
       /\ chan'[d].tok \in {chan[d].tok, token}

\* What any step of the client makes of a channel.
LEMMA ChanStep ==
  ASSUME TypeOK, Counters, [Next]_vars, NEW d \in Chan, chan[d] # View!Unbuilt
  PROVE  Steady(d)
<1>. USE DEF Steady
<1>1. ASSUME NEW c \in Chan,
             \/ View!Subscribes(c) \/ View!Confirmed(c) \/ View!Leaves(c)
             \/ View!TakesToken(c) \/ View!Breaks(c)
      PROVE  Steady(d)
  BY <1>1, ViewMoves
<1>2. CASE UNCHANGED chan
  BY <1>2 DEF View!Live
<1>3. CASE ClientActor
  <2>1. CASE Rebind
    <3>1. Head(todo) \in Chan
      BY <2>1, VisitsType DEF Rebind, Visits
    <3>2. wsTx \in Gen
      BY <2>1 DEF Rebind, Visits, Counters, TypeOK, Gen
    <3>3. CASE View!Rebinds(Head(todo), wsTx)
      BY <2>1, <3>1, <3>2, <3>3, ViewRebinds
    <3>. QED
      BY <1>2, <2>1, <3>3 DEF Rebind, Rejoined
  <2>2. CASE Leave
    BY <1>1, <1>2, <2>2, VisitsType DEF Leave, Visits, LeavesNow
  <2>3. CASE ReAuth
    BY <1>1, <1>2, <2>3, VisitsType DEF ReAuth, Visits
  <2>4. CASE \/ HandleGetState \/ HandleGetAccessToken \/ HandleGetWsTx \/ HandleAddChannel
             \/ StartConnect \/ BuildRequest \/ DialFails \/ DialSucceeds \/ MarkOpen
             \/ LockToRebind \/ Rejoin \/ ConnectDone \/ StartDisconnect \/ DisconnectDone
             \/ StartSetAccessToken \/ LockToReAuth \/ SetAccessTokenDone
    <3>1. UNCHANGED chan
      BY <2>4 DEF HandleGetState, HandleGetAccessToken, HandleGetWsTx, HandleAddChannel,
         StartConnect, BuildRequest, DialFails, DialSucceeds, MarkOpen,
         LockToRebind, Rejoin, ConnectDone, StartDisconnect, DisconnectDone,
         StartSetAccessToken, LockToReAuth, SetAccessTokenDone, chanVars
    <3>. QED
      BY <1>2, <3>1
  <2>. QED
    BY <1>3, <2>1, <2>2, <2>3, <2>4 DEF ClientActor
<1>4. ASSUME NEW g \in Gen, ReceiveTask(g)
      PROVE  UNCHANGED chan
  BY <1>4 DEF ReceiveTask, ReadMessage, ReadPanics, ReadError, ReadEnd, Reconnected,
              LockToRoute, RecvPanics,
     Filter, FilterDone, Dispatch, DispatchDone
<1>5. ASSUME NEW g \in Gen, Cancelled(g)
      PROVE  Steady(d)
  <2>1. CASE recv[g].scan # <<>> /\ View!Breaks(Head(recv[g].scan))
    <3>1. recv[g].scan \in Seq(Chan)
      BY TypeParts DEF ConnTyped, Task
    <3>2. Head(recv[g].scan) \in Chan
      BY <2>1, <3>1, HeadTailProperties
    <3>. QED
      BY <1>1, <2>1, <3>2
  <2>. QED
    BY <1>2, <1>5, <2>1, Zenon DEF Cancelled
<1>6. ASSUME NEW c \in Chan, ChannelTasks(c)
      PROVE  Steady(d)
  BY <1>1, <1>2, <1>6 DEF ChannelTasks, PerformSubscribe, PerformUnsubscribe, HandleMessage, Joins, LeavesNow
<1>7. ASSUME NEW c \in Chan, BuildAsks(c)
      PROVE  Steady(d)
  <2>1. CASE View!Built(c, build[c].tx, build[c].tok)
    <3>1. d # c /\ chan'[d] = chan[d]
      BY <2>1, ViewBuilt
    <3>. QED
      BY <3>1 DEF View!Live
  <2>. QED
    BY <1>2, <1>7, <2>1 DEF BuildAsks
<1>8. ASSUME NEW c \in Chan, ChannelPanics(c)
      PROVE  Steady(d)
  <2>1. View!Breaks(c)
    BY <1>8, Zenon DEF ChannelPanics
  <2>. QED
    BY <1>1, <2>1
<1>9. CASE Environment
  <2>1. CASE UNCHANGED chan
    BY <1>2, <2>1
  <2>. QED
    BY <1>7, <1>8, <1>9, <2>1 DEF Environment, Resume, Abandon, Ask, BuildResumes, HolderPosts,
       ConnEnds, chanVars, wireRest
<1>10. CASE Server \/ (\E g \in Gen : SendEnds(g)) \/ UNCHANGED vars
  <2>1. UNCHANGED chan
    BY <1>10 DEF Server, Confirms, ServerSends, SendEnds, vars, chanVars, wireRest
  <2>. QED
    BY <1>2, <2>1
<1>. QED
  BY <1>2, <1>3, <1>4, <1>5, <1>6, <1>9, <1>10 DEF Next, Local

\* What the client keeps to itself. Only the actor and the receive tasks change it.
ownVars == <<pc, attempts, todo, handles, wsTx, endpoint, cstate, channels, lock, token, gen,
             recv, aborted, added>>

\* A step that changes these is one of the actor or of a receive task.
LEMMA Elsewhere ==
  ASSUME [Next]_vars
  PROVE  \/ ClientActor
         \/ \E g \in Gen : ReceiveTask(g) \/ Cancelled(g)
         \/ UNCHANGED ownVars
<1>. USE DEF ownVars, sharedVars, connVars, actorVars, taskVars, chanVars
<1>1. ASSUME NEW g \in Gen, SendEnds(g)
      PROVE  UNCHANGED ownVars
  BY <1>1 DEF SendEnds
<1>2. ASSUME NEW c \in Chan, ChannelTasks(c)
      PROVE  UNCHANGED ownVars
  BY <1>2 DEF ChannelTasks, PerformSubscribe, PerformUnsubscribe, HandleMessage, channelRest
<1>3. ASSUME Environment
      PROVE  UNCHANGED ownVars
  BY <1>3 DEF Environment, Resume, Abandon, Ask, BuildAsks, BuildResumes, ChannelPanics, HolderPosts,
     ConnEnds, callerRest, wireRest
<1>4. ASSUME Server \/ UNCHANGED vars
      PROVE  UNCHANGED ownVars
  BY <1>4 DEF Server, Confirms, ServerSends, vars, wireRest
<1>. QED
  BY <1>1, <1>2, <1>3, <1>4 DEF Next, Local

\* Where a step of a receive task takes it, and that the others stay.
LEMMA TaskMoves ==
  ASSUME TypeOK, NEW g \in Gen
  PROVE  /\ ReceiveTask(g) \/ Cancelled(g) => \A h \in Gen \ {g} : recv'[h] = recv[h]
         /\ ReadMessage(g) => recv[g].at = "reading" /\ recv'[g].at = "locking" /\ recv'[g].msg = Head(inq[g])
         /\ ReadPanics(g) => recv[g].at = "reading" /\ recv'[g].at = "gone"
         /\ ReadError(g) => recv[g].at = "reading" /\ UNCHANGED recv
         /\ ReadEnd(g) => recv[g].at = "reading" /\ recv'[g].at \in {"waiting", "gone"}
         /\ Reconnected(g) => recv[g].at = "waiting" /\ recv'[g].at \in {"reading", "gone"}
         /\ LockToRoute(g) => /\ recv[g].at = "locking" /\ recv'[g].at = "filter"
                              /\ recv'[g].scan = channels /\ recv'[g].kept = <<>>
                              /\ recv'[g].msg = recv[g].msg
         /\ RecvPanics(g) => recv[g].at \in {"filter", "dispatch"} /\ recv'[g].at = "gone"
         /\ Filter(g) => /\ recv[g].at = "filter" /\ recv'[g].at = "filter"
                         /\ recv'[g].scan = Tail(recv[g].scan) /\ recv'[g].msg = recv[g].msg
                         /\ recv'[g].kept \in {recv[g].kept, Append(recv[g].kept, Head(recv[g].scan))}
         /\ FilterDone(g) => /\ recv[g].at = "filter" /\ recv'[g].at = "dispatch"
                             /\ recv'[g].scan = recv[g].kept /\ recv'[g].msg = recv[g].msg
         /\ Dispatch(g) => /\ recv[g].at = "dispatch" /\ recv'[g].at = "dispatch"
                           /\ recv'[g].scan = Tail(recv[g].scan) /\ recv'[g].msg = recv[g].msg
         /\ DispatchDone(g) => recv[g].at = "dispatch" /\ recv'[g].at = "reading"
         /\ Cancelled(g) => recv'[g].at = "gone"
<1>1. recv \in [Gen -> Task] /\ recv[g] \in Task
  BY Typed
<1>2. ASSUME NEW at, Goes(g, at)
      PROVE  recv'[g].at = at /\ \A h \in Gen \ {g} : recv'[h] = recv[h]
  BY <1>1, <1>2 DEF Goes, Task
<1>3. ASSUME ReadMessage(g)
      PROVE  /\ recv[g].at = "reading" /\ recv'[g].at = "locking" /\ recv'[g].msg = Head(inq[g])
             /\ \A h \in Gen \ {g} : recv'[h] = recv[h]
  BY <1>1, <1>3 DEF ReadMessage, ReadPanics, At, Task
<1>4a. ASSUME ReadPanics(g)
       PROVE  recv[g].at = "reading" /\ Goes(g, "gone")
  BY <1>4a DEF ReadPanics, At
<1>4. ASSUME ReadError(g)
      PROVE  recv[g].at = "reading" /\ UNCHANGED recv
  BY <1>4 DEF ReadError, At
<1>5. ASSUME ReadEnd(g)
      PROVE  recv[g].at = "reading" /\ (Goes(g, "waiting") \/ Goes(g, "gone"))
  BY <1>5, Zenon DEF ReadEnd, At
<1>6. ASSUME Reconnected(g)
      PROVE  recv[g].at = "waiting" /\ (Goes(g, "reading") \/ Goes(g, "gone"))
  BY <1>6 DEF Reconnected, At
<1>7. ASSUME LockToRoute(g)
      PROVE  /\ recv[g].at = "locking" /\ recv'[g].at = "filter"
             /\ recv'[g].scan = channels /\ recv'[g].kept = <<>>
             /\ recv'[g].msg = recv[g].msg
             /\ \A h \in Gen \ {g} : recv'[h] = recv[h]
  BY <1>1, <1>7, Zenon DEF LockToRoute, At, Task
<1>8. ASSUME RecvPanics(g)
      PROVE  recv[g].at \in {"filter", "dispatch"} /\ Goes(g, "gone")
  BY <1>8 DEF RecvPanics, At
<1>9. ASSUME Filter(g)
      PROVE  /\ recv[g].at = "filter" /\ recv'[g].at = "filter"
             /\ recv'[g].scan = Tail(recv[g].scan) /\ recv'[g].msg = recv[g].msg
             /\ recv'[g].kept \in {recv[g].kept, Append(recv[g].kept, Head(recv[g].scan))}
             /\ \A h \in Gen \ {g} : recv'[h] = recv[h]
  BY <1>1, <1>9 DEF Filter, At, Task
<1>10. ASSUME FilterDone(g)
       PROVE  /\ recv[g].at = "filter" /\ recv'[g].at = "dispatch"
              /\ recv'[g].scan = recv[g].kept /\ recv'[g].msg = recv[g].msg
              /\ \A h \in Gen \ {g} : recv'[h] = recv[h]
  BY <1>1, <1>10 DEF FilterDone, NewList, At, Task
<1>11. ASSUME Dispatch(g)
       PROVE  /\ recv[g].at = "dispatch" /\ recv'[g].at = "dispatch"
              /\ recv'[g].scan = Tail(recv[g].scan) /\ recv'[g].msg = recv[g].msg
              /\ \A h \in Gen \ {g} : recv'[h] = recv[h]
  <2>1. recv[g].at = "dispatch" /\ recv' = [recv EXCEPT ![g].scan = Tail(@)]
    BY <1>11 DEF Dispatch, At
  <2>. QED
    BY <1>1, <2>1 DEF Task
<1>12. ASSUME DispatchDone(g)
       PROVE  /\ recv[g].at = "dispatch" /\ recv'[g].at = "reading"
              /\ \A h \in Gen \ {g} : recv'[h] = recv[h]
  BY <1>1, <1>12 DEF DispatchDone, At, Task
<1>13. ASSUME Cancelled(g)
       PROVE  Goes(g, "gone")
  BY <1>13 DEF Cancelled
<1>. QED
  BY <1>2, <1>3, <1>4, <1>4a, <1>5, <1>6, <1>7, <1>8, <1>9, <1>10, <1>11, <1>12, <1>13
     DEF ReceiveTask

-----------------------------------------------------------------------------
(* Who awaits the actor: every step keeps the correspondence between the     *)
(* parties that wait and the requests that name them.                        *)

\* Where the requests behind the first are, before and after it is taken.
LEMMA TailFacts ==
  ASSUME NEW S, NEW s \in Seq(S), s # <<>>
  PROVE  /\ 1 \in DOMAIN s /\ Head(s) = s[1]
         /\ \A i \in DOMAIN Tail(s) : i + 1 \in DOMAIN s /\ i + 1 # 1 /\ Tail(s)[i] = s[i + 1]
         /\ \A i \in DOMAIN s : i # 1 => i - 1 \in DOMAIN Tail(s) /\ Tail(s)[i - 1] = s[i]
         /\ DOMAIN Tail(s) \subseteq Nat /\ DOMAIN s \subseteq Nat
<1>1. /\ Len(s) \in Nat \ {0} /\ DOMAIN s = 1..Len(s)
      /\ Len(Tail(s)) = Len(s) - 1 /\ DOMAIN Tail(s) = 1..(Len(s) - 1)
      /\ \A i \in 1..(Len(s) - 1) : Tail(s)[i] = s[i + 1]
      /\ Head(s) = s[1]
  BY HeadTailProperties, EmptySeq, LenProperties
<1>. QED
  BY <1>1

\* An append leaves what was there where it is.
LEMMA AppendFacts ==
  ASSUME NEW S, NEW s \in Seq(S), NEW e
  PROVE  /\ DOMAIN Append(s, e) = DOMAIN s \cup {Len(s) + 1} /\ Len(s) + 1 \notin DOMAIN s
         /\ Append(s, e)[Len(s) + 1] = e
         /\ \A i \in DOMAIN s : Append(s, e)[i] = s[i]
OBVIOUS

\* Nobody new waits and no request changes.
LEMMA QuietResponder ==
  ASSUME TypeOK, OneResponder, UNCHANGED <<cur, inbox>>,
         \A p \in Party : call'[p].st = "waiting" <=> call[p].st = "waiting"
  PROVE  OneResponder'
BY DEF OneResponder

\* A panic refuses everybody who waits.
LEMMA DiesResponder ==
  ASSUME TypeOK, OneResponder, Dies
  PROVE  OneResponder'
<1>1. ASSUME NEW p \in Party
      PROVE  call'[p].st # "waiting"
  <2>1. call'[p] = IF \E r \in Range(inbox) \cup {cur} : r.by = p
                   THEN [st |-> "refused", val |-> 0] ELSE call[p]
    BY DEF Dies
  <2>2. CASE call[p].st = "waiting"
    <3>1. cur.by = p \/ \E i \in DOMAIN inbox : inbox[i].by = p
      BY <2>2 DEF OneResponder
    <3>2. \E r \in Range(inbox) \cup {cur} : r.by = p
      BY <3>1 DEF Range
    <3>. QED
      BY <2>1, <3>2
  <2>. QED
    BY <2>1, <2>2
<1>2. cur'.by = NoOne /\ inbox' = <<>>
  BY DEF Dies, NoReq
<1>. QED
  BY <1>1, <1>2, Parties DEF OneResponder

\* The request at the head is answered, or becomes the current one.
LEMMA TakenResponder ==
  ASSUME TypeOK, OneResponder, NEW op, Takes(op), inbox' = Tail(inbox),
         \/ cur' = cur /\ \E v \in Nat : call' = Gets(Head(inbox).by, v)
         \/ cur.by = NoOne /\ cur' = Head(inbox) /\ call' = call
  PROVE  OneResponder'
<1>1. inbox \in Seq(Request) /\ inbox # <<>> /\ call \in [Party -> Call]
  BY Typed DEF ActorTyped, Takes
<1>2. /\ 1 \in DOMAIN inbox /\ Head(inbox) = inbox[1]
      /\ \A i \in DOMAIN inbox' : i + 1 \in DOMAIN inbox /\ i + 1 # 1 /\ inbox'[i] = inbox[i + 1]
      /\ \A i \in DOMAIN inbox : i # 1 => i - 1 \in DOMAIN inbox' /\ inbox'[i - 1] = inbox[i]
      /\ DOMAIN inbox' \subseteq Nat /\ DOMAIN inbox \subseteq Nat
  BY <1>1, TailFacts
<1>. SUFFICES ASSUME NEW p \in Party
              PROVE  /\ call'[p].st = "waiting" <=> cur'.by = p \/ \E i \in DOMAIN inbox' : inbox'[i].by = p
                     /\ \A i \in DOMAIN inbox' : inbox'[i].by = p =>
                          cur'.by # p /\ \A j \in DOMAIN inbox' : inbox'[j].by = p => i = j
  BY DEF OneResponder
<1>3. /\ call[p].st = "waiting" <=> cur.by = p \/ \E i \in DOMAIN inbox : inbox[i].by = p
      /\ \A i \in DOMAIN inbox : inbox[i].by = p =>
           cur.by # p /\ \A j \in DOMAIN inbox : inbox[j].by = p => i = j
  BY DEF OneResponder
<1>4. \A i \in DOMAIN inbox' : inbox'[i].by = p =>
        /\ inbox[1].by # p /\ cur.by # p
        /\ \A j \in DOMAIN inbox' : inbox'[j].by = p => i = j
  <2>. SUFFICES ASSUME NEW i \in DOMAIN inbox', inbox'[i].by = p
                PROVE  /\ inbox[1].by # p /\ cur.by # p
                       /\ \A j \in DOMAIN inbox' : inbox'[j].by = p => i = j
    OBVIOUS
  <2>1. i + 1 \in DOMAIN inbox /\ inbox[i + 1].by = p /\ i \in Nat /\ i + 1 # 1
    BY <1>2
  <2>2. ASSUME NEW j \in DOMAIN inbox', inbox'[j].by = p
        PROVE  i = j
    <3>1. j + 1 \in DOMAIN inbox /\ inbox[j + 1].by = p /\ j \in Nat
      BY <1>2, <2>2
    <3>2. i + 1 = j + 1
      BY <1>3, <2>1, <3>1
    <3>. QED
      BY <2>1, <3>1, <3>2
  <2>. QED
    BY <1>2, <1>3, <2>1, <2>2
<1>5. (\E i \in DOMAIN inbox : inbox[i].by = p)
        <=> inbox[1].by = p \/ \E i \in DOMAIN inbox' : inbox'[i].by = p
  <2>1. ASSUME NEW i \in DOMAIN inbox, inbox[i].by = p, i # 1
        PROVE  \E j \in DOMAIN inbox' : inbox'[j].by = p
    <3>1. i - 1 \in DOMAIN inbox' /\ inbox'[i - 1].by = p
      BY <1>2, <2>1
    <3>. QED
      BY <3>1
  <2>2. ASSUME NEW i \in DOMAIN inbox', inbox'[i].by = p
        PROVE  \E j \in DOMAIN inbox : inbox[j].by = p
    <3>1. i + 1 \in DOMAIN inbox /\ inbox[i + 1].by = p
      BY <1>2, <2>2
    <3>. QED
      BY <3>1
  <2>. QED
    BY <1>2, <2>1, <2>2
<1>6. CASE cur' = cur /\ \E v \in Nat : call' = Gets(Head(inbox).by, v)
  <2>1. call'[p].st = IF Head(inbox).by = p THEN "ok" ELSE call[p].st
    BY <1>1, <1>6, Parties DEF Gets
  <2>. QED
    BY <1>2, <1>3, <1>4, <1>5, <1>6, <2>1
<1>7. CASE cur.by = NoOne /\ cur' = Head(inbox) /\ call' = call
  BY <1>2, <1>3, <1>4, <1>5, <1>7, Parties
<1>. QED
  BY <1>6, <1>7

\* The current request is answered.
LEMMA FinishesResponder ==
  ASSUME TypeOK, OneResponder, Finishes, UNCHANGED inbox
  PROVE  OneResponder'
<1>1. cur' = NoReq /\ call' = Gets(cur.by, 0) /\ call \in [Party -> Call]
  BY Typed DEF ActorTyped, Finishes
<1>2. \A p \in Party : call'[p].st = IF cur.by = p THEN "ok" ELSE call[p].st
  BY <1>1, Parties DEF Gets
<1>3. cur'.by = NoOne
  BY <1>1 DEF NoReq
<1>. QED
  BY <1>2, <1>3, Parties DEF OneResponder

\* A party that was not waiting posts a request.
LEMMA PostsResponder ==
  ASSUME TypeOK, OneResponder, NEW p \in Party, NEW op, call[p].st # "waiting",
         Posts(p, op), UNCHANGED cur
  PROVE  OneResponder'
<1>1. inbox \in Seq(Request) /\ call \in [Party -> Call]
  BY Typed DEF ActorTyped
<1>2. CASE inbox' = Append(inbox, [op |-> op, by |-> p]) /\ call' = Waits(p)
  <2>1. /\ DOMAIN inbox' = DOMAIN inbox \cup {Len(inbox) + 1} /\ Len(inbox) + 1 \notin DOMAIN inbox
        /\ inbox'[Len(inbox) + 1].by = p
        /\ \A i \in DOMAIN inbox : inbox'[i] = inbox[i]
    BY <1>1, <1>2, AppendFacts
  <2>2. call'[p].st = "waiting" /\ \A q \in Party \ {p} : call'[q] = call[q]
    BY <1>1, <1>2 DEF Waits
  <2>. QED
    BY <2>1, <2>2 DEF OneResponder
<1>3. CASE inbox' = inbox /\ call' = [call EXCEPT ![p] = [st |-> "refused", val |-> 0]]
  BY <1>1, <1>3, QuietResponder
<1>. QED
  BY <1>2, <1>3 DEF Posts

\* A party is no longer there to be answered.
LEMMA OrphansResponder ==
  ASSUME TypeOK, OneResponder, NEW p \in Party, Orphans(p)
  PROVE  OneResponder'
<1>1. /\ DOMAIN inbox' = DOMAIN inbox
      /\ \A i \in DOMAIN inbox : inbox'[i].by = IF inbox[i].by = p THEN NoOne ELSE inbox[i].by
      /\ cur'.by = IF cur.by = p THEN NoOne ELSE cur.by
  BY OrphansType
<1>2. \A q \in Party : call'[q].st = IF q = p THEN "idle" ELSE call[q].st
  BY Typed DEF ActorTyped, Orphans, Call
<1>. QED
  BY <1>1, <1>2, Parties DEF OneResponder

\* A request that is handled in one go is answered, or the actor panics.
LEMMA ReplyResponder ==
  ASSUME TypeOK, OneResponder, NEW op, NEW v \in Nat, Reply(op, v)
  PROVE  OneResponder'
<1>1. CASE Dies
  BY <1>1, DiesResponder
<1>2. CASE inbox' = Tail(inbox) /\ call' = Gets(Head(inbox).by, v) /\ UNCHANGED cur
  BY <1>2, TakenResponder DEF Reply
<1>. QED
  BY <1>1, <1>2 DEF Reply

\* A request that takes several steps becomes the current one.
LEMMA StartsResponder ==
  ASSUME TypeOK, OneResponder, Asking, NEW op, NEW next, Starts(op, next), UNCHANGED call
  PROVE  OneResponder'
BY TakenResponder DEF Starts, Takes, Asking

\* The actor answers each request once: one case per action.
LEMMA ActorResponder ==
  ASSUME TypeOK, OneResponder, Asking, ClientActor
  PROVE  OneResponder'
<1>. USE QuietResponder, DiesResponder, FinishesResponder, ReplyResponder, StartsResponder
<1>1. token \in Nat /\ wsTx \in Nat /\ 0 \in Nat
  BY DEF TypeOK
<1>2. CASE HandleGetState \/ HandleGetAccessToken \/ HandleGetWsTx \/ HandleAddChannel
  BY <1>1, <1>2 DEF HandleGetState, HandleGetAccessToken, HandleGetWsTx, HandleAddChannel
<1>3. CASE StartConnect \/ StartDisconnect \/ StartSetAccessToken
  BY <1>3 DEF StartConnect, StartDisconnect, StartSetAccessToken
<1>4. CASE BuildRequest \/ DialFails
  BY <1>4 DEF BuildRequest, DialFails
<1>5. CASE DialSucceeds \/ MarkOpen \/ LockToRebind \/ Rebind \/ Rejoin \/ LockToReAuth
  BY <1>5 DEF DialSucceeds, MarkOpen, LockToRebind, Rebind, Rejoin, LockToReAuth
<1>6. CASE ConnectDone \/ DisconnectDone \/ SetAccessTokenDone
  BY <1>6 DEF ConnectDone, DisconnectDone, SetAccessTokenDone
<1>7. CASE Leave \/ ReAuth
  BY <1>7 DEF Leave, ReAuth
<1>. QED
  BY <1>2, <1>3, <1>4, <1>5, <1>6, <1>7 DEF ClientActor

\* A receive task posts when it waits for nothing, and takes its answer.
LEMMA ReceiveResponder ==
  ASSUME TypeOK, OneResponder, Asking, NEW g \in Gen, ReceiveTask(g)
  PROVE  OneResponder'
<1>1. g \in Party /\ call \in [Party -> Call]
  BY Parties, Typed DEF ActorTyped
<1>2. CASE ReadEnd(g)
  <2>1. UNCHANGED cur
    BY <1>2 DEF ReadEnd, taskRest
  <2>2. CASE pc # "dead" /\ inbox' = Append(inbox, [op |-> "Connect", by |-> g]) /\ call' = Waits(g)
    <3>1. Posts(g, "Connect")
      BY <2>2 DEF Posts
    <3>2. call[g].st # "waiting"
      BY <1>2 DEF ReadEnd, At, Asking
    <3>. QED
      BY <1>1, <2>1, <3>1, <3>2, PostsResponder
  <2>3. CASE UNCHANGED <<inbox, call>>
    BY <2>1, <2>3, QuietResponder
  <2>. QED
    BY <1>2, <2>2, <2>3 DEF ReadEnd, AsksToConnect
<1>3. CASE Reconnected(g)
  <2>1. \A p \in Party : call'[p].st = IF p = g THEN "idle" ELSE call[p].st
    BY <1>1, <1>3 DEF Reconnected, Call
  <2>2. UNCHANGED <<cur, inbox>> /\ call[g].st # "waiting"
    BY <1>3 DEF Reconnected, taskRest
  <2>. QED
    BY <1>1, <2>1, <2>2, QuietResponder
<1>4. CASE UNCHANGED <<cur, inbox, call>>
  BY <1>4, QuietResponder
<1>. QED
  BY <1>2, <1>3, <1>4 DEF ReceiveTask, ReadMessage, ReadPanics, ReadError, LockToRoute,
                          RecvPanics, Filter,
     FilterDone, Dispatch, DispatchDone, taskRest

\* So do callers and builders; one that is dropped orphans its request.
LEMMA EnvironmentResponder ==
  ASSUME TypeOK, OneResponder, Asking, Environment
  PROVE  OneResponder'
<1>. USE Parties DEF callerRest
<1>1. call \in [Party -> Call]
  BY Typed DEF ActorTyped
<1>2. ASSUME NEW p \in Party, call[p].st # "waiting", UNCHANGED <<cur, inbox>>,
             call' = [call EXCEPT ![p].st = "idle"]
      PROVE  OneResponder'
  <2>1. \A q \in Party : call'[q].st = IF q = p THEN "idle" ELSE call[q].st
    BY <1>1, <1>2 DEF Call
  <2>. QED
    BY <1>2, <2>1, QuietResponder
<1>3. ASSUME NEW k \in Caller, Resume(k)
      PROVE  OneResponder'
  BY <1>2, <1>3 DEF Resume
<1>4. ASSUME NEW k \in Caller, Abandon(k)
      PROVE  OneResponder'
  BY <1>4, OrphansResponder DEF Abandon
<1>5. ASSUME NEW k \in Caller, NEW op \in AllOps, Ask(k, op)
      PROVE  OneResponder'
  BY <1>5, PostsResponder DEF Ask
<1>6. ASSUME NEW c \in Chan, BuildAsks(c)
      PROVE  OneResponder'
  <2>1. Posts(c, BuildOps[build'[c].at]) /\ call[c].st # "waiting" /\ UNCHANGED cur
    BY <1>6 DEF BuildAsks
  <2>. QED
    BY <2>1, PostsResponder
<1>7. ASSUME NEW c \in Chan, BuildResumes(c)
      PROVE  OneResponder'
  <2>1. call[c].st # "waiting" /\ UNCHANGED <<cur, inbox>> /\ call' = [call EXCEPT ![c].st = "idle"]
    BY <1>7 DEF BuildResumes
  <2>. QED
    BY <1>2, <2>1
<1>8. CASE UNCHANGED <<cur, inbox, call>>
  BY <1>8, QuietResponder
<1>9. ASSUME NEW c \in Chan, ChannelPanics(c) \/ \E op \in {"Subscribe", "Unsubscribe"} : HolderPosts(c, op)
      PROVE  UNCHANGED <<cur, inbox, call>>
  BY <1>9, Zenon DEF ChannelPanics, HolderPosts
<1>10. ASSUME NEW g \in Gen, NEW how, ConnEnds(g, how)
       PROVE  UNCHANGED <<cur, inbox, call>>
  BY <1>10 DEF ConnEnds, wireRest, actorVars
<1>. QED
  BY <1>3, <1>4, <1>5, <1>6, <1>7, <1>8, <1>9, <1>10 DEF Environment

\* Every step keeps one responder to each party that waits.
LEMMA NextResponder ==
  ASSUME TypeOK, OneResponder, Asking, [Next]_vars
  PROVE  OneResponder'
<1>1. ASSUME NEW g \in Gen, Cancelled(g)
      PROVE  OneResponder'
  BY <1>1, Parties, OrphansResponder DEF Cancelled
<1>2. ASSUME NEW g \in Gen, SendEnds(g)
      PROVE  UNCHANGED <<cur, inbox, call>>
  BY <1>2 DEF SendEnds, actorVars
<1>3. ASSUME NEW c \in Chan, ChannelTasks(c)
      PROVE  UNCHANGED <<cur, inbox, call>>
  BY <1>3 DEF ChannelTasks, PerformSubscribe, PerformUnsubscribe, HandleMessage, channelRest, actorVars
<1>4. ASSUME Server
      PROVE  UNCHANGED <<cur, inbox, call>>
  BY <1>4 DEF Server, Confirms, ServerSends, wireRest, actorVars
<1>5. ASSUME UNCHANGED vars
      PROVE  UNCHANGED <<cur, inbox, call>>
  BY <1>5 DEF vars, actorVars
<1>6. CASE UNCHANGED <<cur, inbox, call>>
  BY <1>6, QuietResponder
<1>. QED
  BY <1>1, <1>2, <1>3, <1>4, <1>5, <1>6, ActorResponder, ReceiveResponder, EnvironmentResponder
  DEF Next, Local

-----------------------------------------------------------------------------
(* Counters and Asking are kept.                                              *)

\* ws_tx follows the newest connection.
LEMMA NextCounters ==
  ASSUME TypeOK, Counters, [Next]_vars
  PROVE  Counters'
<1>. USE DEF Counters
<1>1. CASE UNCHANGED <<pc, gen, wsTx, attempts, todo>>
  BY <1>1
<1>2. CASE ClientActor
  <2>1. CASE HandleGetState \/ HandleGetAccessToken \/ HandleGetWsTx \/ HandleAddChannel
    BY <2>1 DEF HandleGetState, HandleGetAccessToken, HandleGetWsTx, HandleAddChannel, Reply,
       Takes, Dies, connVars
  <2>2. CASE StartConnect \/ StartDisconnect \/ StartSetAccessToken
    BY <2>2 DEF StartConnect, StartDisconnect, StartSetAccessToken, Starts, Takes, LocksList, connVars
  <2>3. CASE BuildRequest
    BY <2>3, ClientAssumption DEF BuildRequest, Finishes, Dies, connVars
  <2>4. CASE DialFails
    <3>1. attempts' \in Nat /\ MaxAttempts \in Nat
      BY <2>4, Parties, TypeParts DEF DialFails, ConnTyped
    <3>. QED
      BY <2>4, <3>1 DEF DialFails, Finishes, GivesUp, connVars
  <2>7. CASE DialSucceeds \/ MarkOpen
    <3>1. gen \in Nat /\ wsTx \in Nat
      BY TypeParts, Parties DEF ConnTyped
    <3>. QED
      BY <2>7, <3>1 DEF DialSucceeds, MarkOpen, connVars
  <2>8. CASE LockToRebind \/ Rebind \/ Rejoin \/ LockToReAuth
    BY <2>8 DEF LockToRebind, LocksList, Rebind, Visits, Rejoin, LockToReAuth, connVars
  <2>5. CASE ConnectDone \/ DisconnectDone \/ SetAccessTokenDone
    BY <2>5 DEF ConnectDone, DisconnectDone, SetAccessTokenDone, Leaves, Finishes, Dies, connVars
  <2>6. CASE Leave \/ ReAuth
    BY <2>6 DEF Leave, ReAuth, Visits, Dies, connVars
  <2>. QED
    BY <1>2, <2>1, <2>2, <2>3, <2>4, <2>5, <2>6, <2>7, <2>8 DEF ClientActor
<1>3. ASSUME NEW g \in Gen, ReceiveTask(g) \/ Cancelled(g)
      PROVE  UNCHANGED <<pc, gen, wsTx, attempts, todo>>
  BY <1>3 DEF ReceiveTask, ReadMessage, ReadPanics, ReadError, ReadEnd, Reconnected,
              LockToRoute, RecvPanics,
     Filter, FilterDone, Dispatch, DispatchDone, taskRest, Cancelled
<1>. QED
  BY <1>1, <1>2, <1>3, Elsewhere DEF ownVars

\* Nobody asks and nobody is answered.
LEMMA QuietAsking ==
  ASSUME TypeOK, Asking, UNCHANGED <<cur, inbox, call, build, gen>>,
         pc' \in {"recv", "dead"} => pc \in {"recv", "dead"},
         \A g \in Gen : /\ g > gen => recv'[g].at = "none"
                        /\ recv'[g].at # "waiting" => recv[g].at # "waiting",
         \A c \in Chan : chan[c] # View!Unbuilt => chan'[c] # View!Unbuilt
  PROVE  Asking'
BY DEF Asking, Builder

\* Answers and refusals, when nobody posts a request: whoever is answered was
\* waiting, and no request is there that was not.
LEMMA AnswersAsking ==
  ASSUME TypeOK, OneResponder, Asking, UNCHANGED <<recv, build, chan, gen>>,
         pc' \in {"recv", "dead"} => cur'.by = NoOne,
         cur'.by \notin Chan,
         \A i \in DOMAIN inbox' : \E j \in DOMAIN inbox : inbox'[i] = inbox[j],
         \A p \in Party : \/ call'[p] = call[p]
                          \/ /\ call[p].st = "waiting" /\ call'[p].st \in {"ok", "refused"}
                             /\ call'[p].st = "refused" => call'[p].val = 0
                             /\ p \in Chan /\ call'[p].st = "ok" /\ build[p].at = 1 => call'[p].val \in Gen
  PROVE  Asking'
<1>. USE Parties
<1>1. \A g \in Gen : recv[g].at # "waiting" => call'[g].st = "idle"
  BY DEF Asking
<1>2. \A i \in DOMAIN inbox' : inbox'[i].op = "AddChannel" => inbox'[i].by \in Chan
  BY DEF Asking
<1>3. ASSUME NEW c \in Chan
      PROVE  Builder(c)'
  <2>1. Builder(c)
    BY DEF Asking
  <2>2. \A i \in DOMAIN inbox' : inbox'[i].by = c => inbox'[i].op = BuildOps[build[c].at]
    BY <2>1 DEF Builder
  <2>. QED
    BY <2>1, <2>2 DEF Builder
<1>. QED
  BY <1>1, <1>2, <1>3 DEF Asking

\* A panic of the actor.
LEMMA DiesAsking ==
  ASSUME TypeOK, OneResponder, Asking, Dies, UNCHANGED <<recv, build, gen>>,
         \A c \in Chan : chan[c] # View!Unbuilt => chan'[c] # View!Unbuilt
  PROVE  Asking'
<1>. USE Parties
<1>1. cur'.by = NoOne /\ inbox' = <<>>
  BY DEF Dies, NoReq
<1>2. \A p \in Party : \/ call'[p] = call[p]
                       \/ call[p].st = "waiting" /\ call'[p].st = "refused" /\ call'[p].val = 0
  <2>. SUFFICES ASSUME NEW p \in Party, call'[p] # call[p]
                PROVE  call[p].st = "waiting" /\ call'[p].st = "refused" /\ call'[p].val = 0
    OBVIOUS
  <2>1. call'[p] = IF \E r \in Range(inbox) \cup {cur} : r.by = p
                   THEN [st |-> "refused", val |-> 0] ELSE call[p]
    BY DEF Dies
  <2>2. PICK r \in Range(inbox) \cup {cur} : r.by = p
    BY <2>1
  <2>3. cur.by = p \/ \E i \in DOMAIN inbox : inbox[i].by = p
    BY <2>2 DEF Range
  <2>. QED
    BY <2>1, <2>2, <2>3 DEF OneResponder
<1>3. \A g \in Gen : recv[g].at # "waiting" => call'[g].st = "idle"
  BY <1>2 DEF Asking
<1>4. ASSUME NEW c \in Chan
      PROVE  Builder(c)'
  <2>1. Builder(c)
    BY DEF Asking
  <2>. QED
    BY <1>1, <1>2, <2>1 DEF Builder
<1>5. pc' = "dead" /\ \A i \in DOMAIN inbox' : FALSE
  BY <1>1 DEF Dies
<1>. QED
  BY <1>1, <1>3, <1>4, <1>5 DEF Asking

\* A request is taken, and answered or made current.
LEMMA TakenAsking ==
  ASSUME TypeOK, OneResponder, Asking, NEW op, Takes(op), inbox' = Tail(inbox),
         UNCHANGED <<recv, build, chan, gen>>,
         \/ /\ UNCHANGED <<pc, cur>> /\ (op = "GetWsTx" => wsTx \in Gen)
            /\ \E v \in Nat : call' = Gets(Head(inbox).by, v) /\ (op = "GetWsTx" => v = wsTx)
         \/ /\ op \in {"Connect", "Disconnect", "SetAccessToken"}
            /\ pc' \notin {"recv", "dead"} /\ cur' = Head(inbox) /\ call' = call
  PROVE  Asking'
<1>. USE Parties
<1>1. inbox \in Seq(Request) /\ inbox # <<>> /\ call \in [Party -> Call]
  BY Typed DEF ActorTyped, Takes
<1>2. /\ 1 \in DOMAIN inbox /\ Head(inbox) = inbox[1]
      /\ \A i \in DOMAIN inbox' : i + 1 \in DOMAIN inbox /\ inbox'[i] = inbox[i + 1]
  BY <1>1, TailFacts
<1>3. \A i \in DOMAIN inbox' : \E j \in DOMAIN inbox : inbox'[i] = inbox[j]
  BY <1>2
<1>4. inbox[1].op = op /\ inbox[1].by \in Party \cup {NoOne}
  BY <1>2, TakesType
<1>5. ASSUME NEW c \in Chan, inbox[1].by = c
      PROVE  op = BuildOps[build[c].at] /\ build[c].at \in 1..4 /\ call[c].st = "waiting"
  <2>1. call[c].st = "waiting"
    BY <1>2, <1>5 DEF OneResponder
  <2>. QED
    BY <1>2, <1>4, <1>5, <2>1 DEF Asking, Builder
<1>6. CASE /\ UNCHANGED <<pc, cur>> /\ (op = "GetWsTx" => wsTx \in Gen)
           /\ \E v \in Nat : call' = Gets(Head(inbox).by, v) /\ (op = "GetWsTx" => v = wsTx)
  <2>1. PICK v \in Nat : call' = Gets(inbox[1].by, v) /\ (op = "GetWsTx" => v = wsTx)
    BY <1>2, <1>6
  <2>2. ASSUME NEW p \in Party
        PROVE  \/ call'[p] = call[p]
               \/ p = inbox[1].by /\ call'[p].st = "ok" /\ call'[p].val = v
    BY <1>1, <1>4, <2>1 DEF Gets
  <2>3. ASSUME NEW p \in Party, p = inbox[1].by
        PROVE  call[p].st = "waiting"
    BY <1>2, <2>3 DEF OneResponder
  <2>4. ASSUME NEW c \in Chan, c = inbox[1].by, build[c].at = 1
        PROVE  v \in Gen
    BY <1>5, <1>6, <2>1, <2>4, OpsAre
  <2>. QED
    BY <1>3, <1>6, <2>2, <2>3, <2>4, AnswersAsking DEF Asking
<1>7. CASE /\ op \in {"Connect", "Disconnect", "SetAccessToken"}
           /\ pc' \notin {"recv", "dead"} /\ cur' = Head(inbox) /\ call' = call
  <2>1. cur'.by \notin Chan
    <3>1. SUFFICES ASSUME NEW c \in Chan, inbox[1].by = c
                   PROVE  FALSE
      BY <1>2, <1>7
    <3>2. op = BuildOps[build[c].at] /\ build[c].at \in 1..4
      BY <1>5, <3>1
    <3>3. BuildOps[build[c].at] \in {"GetWsTx", "GetAccessToken", "GetAccessTokenArc", "AddChannel"}
      BY <3>2, OpsAre
    <3>. QED
      BY <1>7, <3>2, <3>3
  <2>. QED
    BY <1>3, <1>7, <2>1, AnswersAsking
<1>. QED
  BY <1>6, <1>7

\* The current request is answered; it was no builder's.
LEMMA FinishesAsking ==
  ASSUME TypeOK, OneResponder, Asking, Finishes, UNCHANGED <<inbox, recv, build, chan, gen>>
  PROVE  Asking'
<1>. USE Parties
<1>1. cur' = NoReq /\ call' = Gets(cur.by, 0) /\ call \in [Party -> Call]
  BY Typed DEF ActorTyped, Finishes
<1>2. cur'.by = NoOne
  BY <1>1 DEF NoReq
<1>3. ASSUME NEW p \in Party
      PROVE  \/ call'[p] = call[p]
             \/ call[p].st = "waiting" /\ call'[p].st = "ok" /\ p \notin Chan
  BY <1>1 DEF Gets, OneResponder, Asking
<1>. QED
  BY <1>2, <1>3, AnswersAsking

\* A caller or a receive task is no longer there to be answered.
LEMMA OrphansAsking ==
  ASSUME TypeOK, OneResponder, Asking, NEW p \in Caller \cup Gen, Orphans(p),
         UNCHANGED <<pc, build, gen>>,
         \A g \in Gen : /\ g # p => recv'[g].at = recv[g].at
                        /\ g > gen => recv'[g].at = "none",
         \A c \in Chan : chan[c] # View!Unbuilt => chan'[c] # View!Unbuilt
  PROVE  Asking'
<1>. USE Parties
<1>1. p \in Party
  BY DEF Party
<1>2. /\ DOMAIN inbox' = DOMAIN inbox
      /\ \A i \in DOMAIN inbox : /\ inbox'[i].op = inbox[i].op
                                 /\ inbox'[i].by = IF inbox[i].by = p THEN NoOne ELSE inbox[i].by
      /\ cur'.by = IF cur.by = p THEN NoOne ELSE cur.by
  BY <1>1, OrphansType
<1>3. /\ call'[p].st = "idle"
      /\ \A q \in Party : q # p => call'[q] = call[q]
  BY <1>1, Typed DEF ActorTyped, Orphans, Call
<1>4. ASSUME NEW c \in Chan
      PROVE  Builder(c)' /\ \A i \in DOMAIN inbox : inbox[i].by = c => inbox[i].by # p
  <2>1. Builder(c) /\ c # p /\ call'[c] = call[c]
    BY <1>3 DEF Asking
  <2>. QED
    BY <1>2, <2>1 DEF Builder
<1>5. \A g \in Gen : recv'[g].at # "waiting" => call'[g].st = "idle"
  BY <1>3 DEF Asking
<1>6. \A i \in DOMAIN inbox' : inbox'[i].op = "AddChannel" => inbox'[i].by \in Chan
  BY <1>2, <1>4 DEF Asking
<1>. QED
  BY <1>2, <1>4, <1>5, <1>6 DEF Asking

\* A request that is handled in one go.
LEMMA ReplyAsking ==
  ASSUME TypeOK, OneResponder, Asking, NEW op, NEW v \in Nat, Reply(op, v),
         UNCHANGED <<recv, build, chan, gen>>, op = "GetWsTx" => v = wsTx /\ wsTx \in Gen
  PROVE  Asking'
<1>1. CASE Dies
  BY <1>1, DiesAsking
<1>2. CASE inbox' = Tail(inbox) /\ call' = Gets(Head(inbox).by, v) /\ UNCHANGED <<pc, cur>>
  BY <1>2, TakenAsking DEF Reply
<1>. QED
  BY <1>1, <1>2 DEF Reply

\* A request that takes several steps.
LEMMA StartsAsking ==
  ASSUME TypeOK, OneResponder, Asking, NEW op \in {"Connect", "Disconnect", "SetAccessToken"},
         NEW next, next \notin {"recv", "dead"}, Starts(op, next),
         UNCHANGED <<call, recv, build, chan, gen>>
  PROVE  Asking'
BY TakenAsking DEF Starts

\* The steps of the actor.
LEMMA ActorAsking ==
  ASSUME TypeOK, Counters, OneResponder, Asking, ClientActor
  PROVE  Asking'
<1>. USE DEF connVars, chanVars, sharedVars
<1>1. token \in Nat /\ wsTx \in Nat /\ 0 \in Nat /\ (wsTx # 0 => wsTx \in Gen)
  BY DEF TypeOK, Gen
<1>2. \A c \in Chan : chan[c] # View!Unbuilt => chan'[c] # View!Unbuilt
  BY ChanStep DEF Next, Local, Steady
<1>3. CASE HandleGetState \/ HandleGetAccessToken \/ HandleAddChannel
  <2>1. UNCHANGED <<recv, build, chan, gen>>
    BY <1>3 DEF HandleGetState, HandleGetAccessToken, HandleAddChannel
  <2>2. \/ Reply("GetState", 0) \/ Reply("GetAccessToken", token)
        \/ Reply("GetAccessTokenArc", token) \/ Reply("AddChannel", 0)
    BY <1>3 DEF HandleGetState, HandleGetAccessToken, HandleAddChannel
  <2>3. ASSUME NEW op, NEW v \in Nat, op # "GetWsTx", Reply(op, v)
        PROVE  Asking'
    BY <2>1, <2>3, ReplyAsking
  <2>. QED
    BY <1>1, <2>2, <2>3
<1>4. CASE HandleGetWsTx
  <2>1. UNCHANGED <<recv, build, chan, gen>>
    BY <1>4 DEF HandleGetWsTx
  <2>2. Dies \/ (wsTx # 0 /\ Reply("GetWsTx", wsTx))
    BY <1>4 DEF HandleGetWsTx
  <2>. QED
    <3>1. CASE wsTx # 0 /\ Reply("GetWsTx", wsTx)
      BY <1>1, <2>1, <3>1, ReplyAsking
    <3>2. CASE Dies
      BY <1>2, <2>1, <3>2, DiesAsking
    <3>. QED
      BY <2>2, <3>1, <3>2
<1>5. CASE StartConnect
  BY <1>5, StartsAsking DEF StartConnect
<1>6. CASE StartDisconnect \/ StartSetAccessToken
  BY <1>6, StartsAsking DEF StartDisconnect, StartSetAccessToken
<1>7. CASE BuildRequest
  <2>1. UNCHANGED <<recv, build, chan, gen>>
    BY <1>7 DEF BuildRequest
  <2>2. \/ pc' = "dial" /\ UNCHANGED <<cur, inbox, call>>
        \/ Finishes /\ UNCHANGED inbox
        \/ Dies
    BY <1>7 DEF BuildRequest
  <2>3. CASE pc' = "dial" /\ UNCHANGED <<cur, inbox, call>>
    BY <2>1, <2>3 DEF Asking, Builder
  <2>. QED
    BY <1>2, <2>1, <2>2, <2>3, FinishesAsking, DiesAsking
<1>8. CASE DialFails
  <2>1. UNCHANGED <<inbox, recv, build, chan, gen>>
    BY <1>8 DEF DialFails
  <2>2. CASE Finishes
    BY <2>1, <2>2, FinishesAsking
  <2>3. CASE UNCHANGED <<pc, cur, call>>
    BY <2>1, <2>3 DEF Asking, Builder
  <2>. QED
    BY <1>8, <2>2, <2>3 DEF DialFails
<1>9. CASE DialSucceeds
  <2>1. \A g \in Gen : /\ g > gen' => g > gen /\ recv'[g] = recv[g]
                       /\ g # gen + 1 => recv'[g] = recv[g]
    BY <1>9, TypeParts, Parties DEF DialSucceeds, ConnTyped
  <2>2. gen + 1 \in Gen => recv[gen + 1].at = "none"
    BY TypeParts, Parties DEF Asking, ConnTyped
  <2>3. \A g \in Gen : /\ g > gen' => recv'[g].at = "none"
                       /\ recv'[g].at # "waiting" => call'[g].st = "idle"
    BY <1>9, <2>1, <2>2 DEF DialSucceeds, Asking
  <2>4. UNCHANGED <<cur, inbox, call, build, chan>> /\ pc' = "open"
    BY <1>9 DEF DialSucceeds
  <2>. QED
    BY <2>3, <2>4 DEF Asking, Builder
<1>10. CASE MarkOpen \/ LockToRebind \/ Rejoin \/ LockToReAuth
  <2>1. /\ UNCHANGED <<cur, inbox, call, build, gen, recv, chan>>
        /\ pc' \in {"rebindLock", "rebind", "reauth"}
    BY <1>10 DEF MarkOpen, LockToRebind, Rejoin, LockToReAuth, LocksList
  <2>. QED
    BY <2>1 DEF Asking, Builder
<1>11. CASE Rebind
  <2>1. UNCHANGED <<cur, inbox, call, build, gen, recv>> /\ pc' \notin {"recv", "dead"}
    BY <1>11 DEF Rebind, Visits
  <2>. QED
    BY <1>2, <2>1 DEF Asking, Builder
<1>12. CASE ConnectDone \/ DisconnectDone \/ SetAccessTokenDone
  BY <1>2, <1>12, FinishesAsking, DiesAsking DEF ConnectDone, DisconnectDone, SetAccessTokenDone
<1>13. CASE Leave \/ ReAuth
  <2>1. CASE UNCHANGED <<pc, cur, inbox, call>>
    <3>1. UNCHANGED <<build, gen, recv>>
      BY <1>13 DEF Leave, ReAuth
    <3>. QED
      BY <1>2, <2>1, <3>1 DEF Asking, Builder
  <2>2. CASE Dies
    <3>1. UNCHANGED <<build, gen, recv>>
      BY <1>13 DEF Leave, ReAuth
    <3>. QED
      BY <1>2, <2>2, <3>1, DiesAsking
  <2>. QED
    BY <1>13, <2>1, <2>2 DEF Leave, ReAuth
<1>. QED
  BY <1>3, <1>4, <1>5, <1>6, <1>7, <1>8, <1>9, <1>10, <1>11, <1>12, <1>13 DEF ClientActor

\* The steps of the receive tasks.
LEMMA ReceiveAsking ==
  ASSUME TypeOK, Counters, OneResponder, Asking, NEW g \in Gen, ReceiveTask(g)
  PROVE  Asking'
<1>. USE Parties DEF taskRest
<1>1. g \in Party /\ call \in [Party -> Call] /\ recv \in [Gen -> Task] /\ inbox \in Seq(Request)
  BY Typed DEF ActorTyped, Party
<1>2. UNCHANGED <<pc, cur, build, gen, chan>>
  BY DEF ReceiveTask, ReadMessage, ReadPanics, ReadError, ReadEnd, Reconnected, LockToRoute,
         RecvPanics, Filter,
     FilterDone, Dispatch, DispatchDone
<1>3. \A h \in Gen \ {g} : recv'[h] = recv[h]
  BY <1>1 DEF ReceiveTask, ReadMessage, ReadPanics, ReadError, ReadEnd, Reconnected,
              LockToRoute, RecvPanics, Filter,
     FilterDone, Dispatch, DispatchDone, Goes
<1>4. recv[g].at # "none"
  BY DEF ReceiveTask, ReadMessage, ReadPanics, ReadError, ReadEnd, Reconnected, LockToRoute,
         RecvPanics, Filter,
     FilterDone, Dispatch, DispatchDone, At
<1>5. \A h \in Gen : h > gen' => recv'[h].at = "none"
  BY <1>2, <1>3, <1>4 DEF Asking
<1>6. CASE UNCHANGED <<inbox, call>> /\ (recv'[g].at # "waiting" => recv[g].at # "waiting")
  BY <1>2, <1>3, <1>5, <1>6, QuietAsking
<1>7. CASE ReadEnd(g)
  <2>1. CASE pc = "dead"
    <3>1. UNCHANGED <<inbox, call>> /\ recv[g].at = "reading"
      BY <1>7, <2>1, Zenon DEF ReadEnd, At
    <3>. QED
      BY <1>6, <3>1
  <2>2. CASE pc # "dead"
    <3>0. /\ inbox' = Append(inbox, [op |-> "Connect", by |-> g]) /\ call' = Waits(g)
          /\ Goes(g, "waiting")
      BY <1>7, <2>2, Zenon DEF ReadEnd, AsksToConnect
    <3>1. /\ inbox' = Append(inbox, [op |-> "Connect", by |-> g]) /\ call' = Waits(g)
          /\ recv'[g].at = "waiting"
      BY <1>1, <3>0 DEF Goes
    <3>2. /\ DOMAIN inbox' = DOMAIN inbox \cup {Len(inbox) + 1}
          /\ inbox'[Len(inbox) + 1] = [op |-> "Connect", by |-> g]
          /\ \A i \in DOMAIN inbox : inbox'[i] = inbox[i]
      BY <1>1, <3>1, AppendFacts
    <3>3. \A p \in Party \ {g} : call'[p] = call[p]
      BY <1>1, <3>1 DEF Waits
    <3>4. ASSUME NEW c \in Chan
          PROVE  Builder(c)'
      <4>1. Builder(c) /\ c # g /\ call'[c] = call[c]
        BY <3>3 DEF Asking
      <4>2. \A i \in DOMAIN inbox' : inbox'[i].by = c => inbox'[i].op = BuildOps[build[c].at]
        BY <3>2, <4>1 DEF Builder
      <4>. QED
        BY <1>2, <4>1, <4>2 DEF Builder
    <3>5. \A i \in DOMAIN inbox' : inbox'[i].op = "AddChannel" => inbox'[i].by \in Chan
      BY <3>2 DEF Asking
    <3>6. \A h \in Gen : recv'[h].at # "waiting" => call'[h].st = "idle"
      BY <1>3, <3>1, <3>3 DEF Asking
    <3>. QED
      BY <1>2, <1>5, <3>4, <3>5, <3>6 DEF Asking
  <2>. QED
    BY <2>1, <2>2
<1>8. CASE Reconnected(g)
  <2>1. /\ call'[g].st = "idle" /\ \A p \in Party \ {g} : call'[p] = call[p]
        /\ UNCHANGED inbox
    BY <1>1, <1>8 DEF Reconnected, Call
  <2>2. ASSUME NEW c \in Chan
        PROVE  Builder(c)'
    BY <1>2, <2>1 DEF Asking, Builder
  <2>3. \A h \in Gen : recv'[h].at # "waiting" => call'[h].st = "idle"
    BY <1>3, <2>1 DEF Asking
  <2>. QED
    BY <1>2, <1>5, <2>1, <2>2, <2>3 DEF Asking
<1>9. CASE \/ ReadMessage(g) \/ ReadPanics(g) \/ ReadError(g) \/ LockToRoute(g)
           \/ RecvPanics(g) \/ Filter(g) \/ FilterDone(g)
           \/ Dispatch(g) \/ DispatchDone(g)
  <2>1. UNCHANGED <<inbox, call>> /\ recv[g].at # "waiting"
    BY <1>9 DEF ReadMessage, ReadPanics, ReadError, LockToRoute, RecvPanics, Filter, FilterDone,
                Dispatch,
       DispatchDone, At
  <2>. QED
    BY <1>6, <2>1
<1>. QED
  BY <1>7, <1>8, <1>9 DEF ReceiveTask

\* A caller posts a request.
LEMMA PostsAsking ==
  ASSUME TypeOK, OneResponder, Asking, NEW k \in Caller, NEW op, op # "AddChannel", Posts(k, op),
         UNCHANGED <<pc, cur, recv, build, chan, gen>>
  PROVE  Asking'
<1>. USE Parties
<1>1. k \in Party /\ call \in [Party -> Call] /\ inbox \in Seq(Request)
  BY Typed DEF ActorTyped, Party
<1>2. \A p \in Party \ {k} : call'[p] = call[p]
  BY <1>1 DEF Posts, Waits
<1>3. \A i \in DOMAIN inbox' : \/ inbox'[i].op = op /\ inbox'[i].by = k
                               \/ i \in DOMAIN inbox /\ inbox'[i] = inbox[i]
  <2>1. CASE inbox' = Append(inbox, [op |-> op, by |-> k])
    BY <1>1, <2>1, AppendFacts
  <2>. QED
    BY <2>1 DEF Posts
<1>4. ASSUME NEW c \in Chan
      PROVE  Builder(c)'
  <2>1. Builder(c) /\ c # k /\ call'[c] = call[c]
    BY <1>2 DEF Asking
  <2>2. \A i \in DOMAIN inbox' : inbox'[i].by = c => inbox'[i].op = BuildOps[build[c].at]
    BY <1>3, <2>1 DEF Builder
  <2>. QED
    BY <2>1, <2>2 DEF Builder
<1>5. \A i \in DOMAIN inbox' : inbox'[i].op = "AddChannel" => inbox'[i].by \in Chan
  BY <1>3 DEF Asking
<1>6. \A h \in Gen : recv'[h].at # "waiting" => call'[h].st = "idle"
  BY <1>2 DEF Asking
<1>. QED
  BY <1>4, <1>5, <1>6 DEF Asking

\* A builder asks its next question.
LEMMA BuildAsksAsking ==
  ASSUME TypeOK, OneResponder, Asking, NEW c \in Chan, BuildAsks(c)
  PROVE  Asking'
<1>. USE Parties DEF callerRest, connVars
<1>1. c \in Party /\ call \in [Party -> Call] /\ inbox \in Seq(Request)
  BY Typed DEF ActorTyped, Party
<1>2. UNCHANGED <<pc, cur, recv, gen>>
  BY DEF BuildAsks
<1>3. /\ build'[c].at = build[c].at + 1 /\ build'[c].tx = build[c].tx /\ build[c].at \in 0..3
      /\ call[c].st = "idle" /\ Posts(c, BuildOps[build'[c].at])
      /\ \A d \in Chan \ {c} : build'[d] = build[d]
  BY TypeParts DEF BuildAsks, ChanTyped
<1>4. /\ \A p \in Party \ {c} : call'[p] = call[p]
      /\ call'[c].st \in {"waiting", "refused"} /\ call'[c].val = 0
  BY <1>1, <1>3 DEF Posts, Waits
<1>5. \A i \in DOMAIN inbox' : \/ inbox'[i].op = BuildOps[build'[c].at] /\ inbox'[i].by = c
                               \/ i \in DOMAIN inbox /\ inbox'[i] = inbox[i]
  <2>1. CASE inbox' = Append(inbox, [op |-> BuildOps[build'[c].at], by |-> c])
    BY <1>1, <2>1, AppendFacts
  <2>. QED
    BY <1>3, <2>1 DEF Posts
<1>6. \A d \in Chan : (chan[d] # View!Unbuilt \/ (d = c /\ build'[c].at = 4)) => chan'[d] # View!Unbuilt
  <2>1. CASE View!Built(c, build[c].tx, build[c].tok)
    BY <2>1, ViewBuilt
  <2>2. CASE build'[c].at # 4 /\ UNCHANGED chan
    BY <2>2
  <2>. QED
    BY <2>1, <2>2 DEF BuildAsks
<1>7. ASSUME NEW d \in Chan \ {c}
      PROVE  Builder(d)'
  <2>1. Builder(d) /\ call'[d] = call[d] /\ build'[d] = build[d]
    BY <1>3, <1>4 DEF Asking
  <2>2. \A i \in DOMAIN inbox' : inbox'[i].by = d => inbox'[i].op = BuildOps[build[d].at]
    BY <1>5, <2>1 DEF Builder
  <2>. QED
    BY <1>6, <2>1, <2>2 DEF Builder
<1>8. Builder(c)'
  <2>1. Builder(c)
    BY DEF Asking
  <2>2. \A i \in DOMAIN inbox : inbox[i].by # c
    BY <1>3 DEF OneResponder
  <2>3. \A i \in DOMAIN inbox' : inbox'[i].by = c => inbox'[i].op = BuildOps[build'[c].at]
    BY <1>5, <2>2
  <2>. QED
    BY <1>3, <1>4, <1>6, <2>1, <2>3 DEF Builder
<1>9. \A i \in DOMAIN inbox' : inbox'[i].op = "AddChannel" => inbox'[i].by \in Chan
  BY <1>5 DEF Asking
<1>10. \A h \in Gen : recv'[h].at # "waiting" => call'[h].st = "idle"
  BY <1>2, <1>4 DEF Asking
<1>. QED
  BY <1>2, <1>7, <1>8, <1>9, <1>10 DEF Asking

\* A builder takes the answer to its question.
LEMMA BuildResumesAsking ==
  ASSUME TypeOK, OneResponder, Asking, NEW c \in Chan, BuildResumes(c)
  PROVE  Asking'
<1>. USE Parties DEF callerRest, connVars
<1>1. c \in Party /\ call \in [Party -> Call]
  BY Typed DEF ActorTyped, Party
<1>2. UNCHANGED <<pc, cur, recv, gen, inbox, chan>>
  BY DEF BuildResumes
<1>3. /\ \A p \in Party \ {c} : call'[p] = call[p]
      /\ call'[c].st = "idle" /\ call[c].st \in {"ok", "refused"}
  BY <1>1 DEF BuildResumes, Call
<1>4. /\ build'[c].at = IF call[c].st = "refused" THEN 6 ELSE IF build[c].at = 4 THEN 5 ELSE build[c].at
      /\ build'[c].tx = IF build[c].at = 1 THEN call[c].val ELSE build[c].tx
      /\ \A d \in Chan \ {c} : build'[d] = build[d]
  BY TypeParts DEF BuildResumes, ChanTyped
<1>5. ASSUME NEW d \in Chan \ {c}
      PROVE  Builder(d)'
  BY <1>2, <1>3, <1>4 DEF Asking, Builder
<1>6. Builder(c)'
  <2>1. Builder(c) /\ \A i \in DOMAIN inbox : inbox[i].by # c
    BY <1>3 DEF Asking, OneResponder
  <2>. QED
    BY <1>2, <1>3, <1>4, <2>1 DEF Builder
<1>7. \A h \in Gen : recv'[h].at # "waiting" => call'[h].st = "idle"
  BY <1>2, <1>3 DEF Asking
<1>. QED
  BY <1>2, <1>5, <1>6, <1>7 DEF Asking

\* Every step keeps who asks what.
LEMMA NextAsking ==
  ASSUME TypeOK, Counters, OneResponder, Asking, [Next]_vars
  PROVE  Asking'
<1>. USE Parties
<1>0. \A c \in Chan : chan[c] # View!Unbuilt => chan'[c] # View!Unbuilt
  BY ChanStep DEF Steady
<1>1. CASE UNCHANGED <<pc, cur, gen, recv, inbox, call, build>>
  BY <1>0, <1>1 DEF Asking, Builder
<1>2. ASSUME NEW g \in Gen, Cancelled(g)
      PROVE  Asking'
  <2>1. recv \in [Gen -> Task]
    BY Typed
  <2>2. \A h \in Gen : /\ h # g => recv'[h].at = recv[h].at
                       /\ h > gen => recv'[h].at = "none"
    BY <1>2, <2>1 DEF Cancelled, Goes, Asking
  <2>. QED
    BY <1>0, <1>2, <2>2, OrphansAsking DEF Cancelled
<1>3. ASSUME NEW k \in Caller, Resume(k)
      PROVE  Asking'
  <2>1. k \in Party /\ call \in [Party -> Call]
    BY Typed DEF ActorTyped, Party
  <2>2. \A p \in Party \ {k} : call'[p] = call[p]
    BY <1>3, <2>1 DEF Resume
  <2>3. UNCHANGED <<pc, cur, gen, recv, inbox, build>>
    BY <1>3 DEF Resume, callerRest, connVars
  <2>. QED
    BY <1>0, <2>2, <2>3 DEF Asking, Builder
<1>4. ASSUME NEW k \in Caller, Abandon(k)
      PROVE  Asking'
  <2>1. UNCHANGED <<pc, build, gen, recv, chan>> /\ Orphans(k)
    BY <1>4 DEF Abandon, connVars, chanVars
  <2>. QED
    BY <2>1, OrphansAsking DEF Asking
<1>5. ASSUME NEW k \in Caller, NEW op \in AllOps, Ask(k, op)
      PROVE  Asking'
  <2>1. UNCHANGED <<pc, cur, recv, build, chan, gen>> /\ Posts(k, op) /\ op # "AddChannel"
    BY <1>5, ClientAssumption DEF Ask, callerRest, connVars
  <2>. QED
    BY <2>1, PostsAsking
<1>6. ASSUME NEW c \in Chan, ChannelPanics(c) \/ \E op \in {"Subscribe", "Unsubscribe"} : HolderPosts(c, op)
      PROVE  UNCHANGED <<pc, cur, gen, recv, inbox, call, build>>
  BY <1>6, Zenon DEF ChannelPanics, HolderPosts, callerRest, connVars
<1>7. ASSUME NEW g \in Gen, NEW how, ConnEnds(g, how)
      PROVE  UNCHANGED <<pc, cur, gen, recv, inbox, call, build>>
  BY <1>7 DEF ConnEnds, wireRest, actorVars, chanVars
<1>8. ASSUME NEW g \in Gen, SendEnds(g)
      PROVE  UNCHANGED <<pc, cur, gen, recv, inbox, call, build>>
  BY <1>8 DEF SendEnds, actorVars, chanVars
<1>9. ASSUME NEW c \in Chan, ChannelTasks(c)
      PROVE  UNCHANGED <<pc, cur, gen, recv, inbox, call, build>>
  BY <1>9 DEF ChannelTasks, PerformSubscribe, PerformUnsubscribe, HandleMessage, channelRest, actorVars,
     connVars
<1>10. ASSUME Server \/ UNCHANGED vars
       PROVE  UNCHANGED <<pc, cur, gen, recv, inbox, call, build>>
  BY <1>10 DEF Server, Confirms, ServerSends, vars, wireRest, actorVars, connVars, chanVars
<1>11. CASE Environment
  BY <1>1, <1>3, <1>4, <1>5, <1>6, <1>7, <1>11, BuildAsksAsking, BuildResumesAsking DEF Environment
<1>. QED
  BY <1>1, <1>2, <1>8, <1>9, <1>10, <1>11, ActorAsking, ReceiveAsking DEF Next, Local

-----------------------------------------------------------------------------
(* The core of the inductive invariant.                                      *)

Core == TypeOK /\ Counters /\ OneResponder /\ Asking

\* The core of the invariant holds at the start.
LEMMA InitCore == Init => Core
<1>. SUFFICES ASSUME Init
              PROVE  Counters /\ OneResponder /\ Asking
  BY InitTypes DEF Core
<1>1. /\ cur.by = NoOne /\ cur.op = "Connect" /\ inbox = <<>> /\ DOMAIN inbox = {}
      /\ pc = "request" /\ gen = 0 /\ wsTx = 0
  BY DEF Init
<1>2. \A p \in Party : call[p].st = "idle"
  BY DEF Init
<1>3. \A g \in Gen : recv[g].at = "none"
  BY DEF Init, NoTask
<1>4. \A c \in Chan : build[c].at = 0
  BY DEF Init
<1>5. Counters
  BY <1>1 DEF Counters
<1>6. OneResponder
  BY <1>1, <1>2, Parties DEF OneResponder
<1>7. Asking
  <2>1. \A g \in Gen : /\ g > gen => recv[g].at = "none"
                       /\ recv[g].at # "waiting" => call[g].st = "idle"
    BY <1>2, <1>3, Parties
  <2>2. ASSUME NEW c \in Chan
        PROVE  Builder(c)
    <3>1. call[c].st = "idle" /\ build[c].at = 0 /\ DOMAIN inbox = {}
      BY <1>1, <1>2, <1>4, Parties
    <3>. QED
      BY <3>1 DEF Builder
  <2>. QED
    BY <1>1, <2>1, <2>2, Parties DEF Asking
<1>. QED
  BY <1>5, <1>6, <1>7

\* The core of the invariant is inductive.
LEMMA NextCore == Core /\ [Next]_vars => Core'
BY NextTypes, NextCounters, NextResponder, NextAsking DEF Core

\* So it always holds.
LEMMA CoreHolds == Spec => []Core
BY InitCore, NextCore, PTL DEF Spec

\* Every variable keeps its type, whatever the channels, callers, faults and bounds.
THEOREM TypeCorrect == Spec => []TypeOK
BY CoreHolds, PTL DEF Core

\* Each party that awaits the actor is named in exactly one request, and nobody
\* else in any, on every error path of the actor and after its death.
THEOREM OneAnswer == Spec => []OneResponder
BY CoreHolds, PTL DEF Core

==============================================================================
