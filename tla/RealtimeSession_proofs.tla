----------------------- MODULE RealtimeSession_proofs -----------------------
(***************************************************************************)
(* Proofs about RealtimeSession: once everything between a channel and the  *)
(* server is dealt with, both agree on whether the channel is joined.      *)
(***************************************************************************)
EXTENDS RealtimeSession, RealtimeClient_proofs

-----------------------------------------------------------------------------
(* The inductive invariant.  Its parts follow a join from the request that  *)
(* posts it over the frame, the server and the confirmation to the state.   *)

\* What the client is known to keep.
ClientInv == Core /\ ListOwned /\ Listing /\ Ordered

\* The variables of the session have their types, and no task is ahead of its queue.
SessionTypes ==
  /\ written \in [Gen -> Nat] /\ \A g \in Gen : written[g] <= Len(out[g])
  /\ member \in [Gen -> SUBSET Chan] /\ owed \in [Gen -> SUBSET Chan]
  /\ \A c \in Chan : heard[c] <= Len(got[c])

\* No sender a builder or a channel has is newer than that of the actor.
Older ==
  \A c \in Chan :
    /\ call[c].st = "ok" /\ build[c].at = 1 => call[c].val <= wsTx
    /\ build[c].at \in 2..5 \/ (build[c].at = 1 /\ call[c].st = "idle") => build[c].tx <= wsTx
    /\ View!Live(c) => chan[c].tx <= wsTx

\* A channel that has begun has been subscribed. One that has not has queued no
\* frame, and none has queued one on a connection newer than its own.
Begun(c) == chan[c].st \notin {"unbuilt", "Closed"}
Behind ==
  \A c \in Chan, g \in Gen : \A i \in DOMAIN out[g] :
    Says(c, out[g][i]) => Begun(c) /\ (View!Live(c) => g <= chan[c].tx)

\* The server confirms the joins of channels that have begun, on their topics.
Confirming ==
  \A m \in DOMAIN sent : sent[m].re \in Chan =>
    Begun(sent[m].re) /\ sent[m].topic = TopicOf[sent[m].re]

\* Only a channel that was registered is subscribed, or visited by a loop of the actor.
Entered ==
  /\ \A c \in Chan : Begun(c) \/ mail[c] # <<>> => Member(c)
  /\ \A c \in Range(todo) : Member(c)

\* Of the first n frames of o, the last one of c about its membership is of kind e.
LastIn(o, c, n, e) ==
  \E i \in 1..n : /\ o[i].from = c /\ o[i].event = e
                  /\ \A j \in 1..n : j > i => ~Says(c, o[j])

\* The server holds the channels whose last frame that was written is a phx_join,
\* for as long as it holds the connection.
Held ==
  \A g \in Gen, c \in Chan :
    Hangs(g) \/ (c \in member[g] <=> LastIn(out[g], c, written[g], "phx_join"))

\* The last that c has queued on its connection about its membership.
Spoke(c, e) == LastIn(out[chan[c].tx], c, Len(out[chan[c].tx]), e)

\* A channel whose last frame is a phx_join is Joining or Joined.
JoinShows ==
  \A c \in Chan : View!Live(c) /\ Spoke(c, "phx_join") => chan[c].st \in {"Joining", "Joined"}

\* A channel that has begun has said so on its connection, or will once a subscribe
\* that is posted, or about to be, is performed.
Resubscribes(c) == "Subscribe" \in Range(mail[c]) \/ (pc = "rejoin" /\ c = Head(todo))
BegunIsSaid ==
  \A c \in Chan : View!Live(c) /\ Begun(c) =>
    \/ chan[c].tx \notin sending \/ Spoke(c, "phx_join") \/ Spoke(c, "phx_leave")
    \/ Resubscribes(c)

\* A join that was not confirmed has its frame, its confirmation owed, or the
\* confirmation on the way to the message task of the channel.
Lost(g) == g \notin sending \/ stream[g] # "up" \/ recv[g].at = "gone"
InQueue(c, g)   == \E i \in DOMAIN out[g] : i > written[g] /\ out[g][i].from = c
                                            /\ out[g][i].event = "phx_join"
OnWire(c, g)    == \E i \in DOMAIN inq[g] : sent[inq[g][i]].re = c
InHand(c, g)    ==
  /\ recv[g].at \in {"locking", "filter", "dispatch"} /\ sent[recv[g].msg].re = c
  /\ recv[g].at = "filter" => c \in Range(recv[g].scan) \cup Range(recv[g].kept)
  /\ recv[g].at = "dispatch" => c \in Range(recv[g].scan)
Routed(c)       == \E i \in DOMAIN got[c] : i > heard[c] /\ sent[got[c][i]].re = c
Underway(c, g)  == InQueue(c, g) \/ c \in owed[g] \/ OnWire(c, g) \/ InHand(c, g) \/ Routed(c)
JoinGoesOn ==
  \A c \in Chan :
    /\ View!Live(c) /\ chan[c].st # "Joined" /\ Spoke(c, "phx_join")
    /\ c \in Range(channels) \ deaf
    => Lost(chan[c].tx) \/ Underway(c, chan[c].tx)

SessionInv ==
  /\ ClientInv /\ SessionTypes /\ Older /\ Behind /\ Confirming /\ Entered
  /\ Held /\ JoinShows /\ BegunIsSaid /\ JoinGoesOn

-----------------------------------------------------------------------------
(* What the invariant is for.                                              *)

\* In a settled channel nothing is left that could still make a difference.
LEMMA InvAgrees == SessionInv => Agrees
<1>. SUFFICES ASSUME SessionInv, NEW c \in Chan, Settled(c)
              PROVE  /\ c \in member[chan[c].tx] => chan[c].st \in {"Joining", "Joined"}
                     /\ c \in member[chan[c].tx] /\ c \in Range(channels) \ deaf => chan[c].st = "Joined"
                     /\ chan[c].st = "Joined" => c \in member[chan[c].tx] \/ LastSaidLeave(c)
  BY DEF Agrees
<1>. USE DEF SessionInv, ClientInv, Core
<1>1. PICK g : g = chan[c].tx
  OBVIOUS
<1>2. View!Live(c) /\ g \in Gen
  BY <1>1, LiveShown DEF Settled, View!Shown, TypeOK
<1>3. /\ pc = "recv" /\ mail[c] = <<>> /\ heard[c] = Len(got[c])
      /\ g \in sending /\ stream[g] = "up" /\ ~Queued(g) /\ owed[g] = {}
      /\ recv[g].at = "reading" /\ inq[g] = <<>>
  BY <1>1 DEF Settled
<1>4. ~Hangs(g) /\ ~Lost(g)
  BY <1>3 DEF Hangs, Lost
<1>5. /\ out[g] \in Seq(Frame) /\ got[c] \in Seq(Nat)
      /\ Len(out[g]) \in Nat /\ DOMAIN out[g] = 1..Len(out[g]) /\ written[g] = Len(out[g])
  BY <1>2, <1>3 DEF TypeOK, SessionTypes, Queued
<1>6. c \in member[g] <=> Spoke(c, "phx_join")
  BY <1>1, <1>2, <1>4, <1>5 DEF Held, Spoke
<1>7. ~Underway(c, g)
  <2>1. ~InQueue(c, g) /\ ~OnWire(c, g) /\ ~InHand(c, g)
    BY <1>3, <1>5 DEF InQueue, OnWire, InHand
  <2>2. ~Routed(c)
    BY <1>3, <1>5 DEF Routed
  <2>. QED
    BY <1>3, <2>1, <2>2 DEF Underway
<1>8. ~Resubscribes(c)
  BY <1>3 DEF Resubscribes, Range
<1>9. Spoke(c, "phx_leave") => LastSaidLeave(c)
  BY <1>1, <1>5 DEF Spoke, LastIn, LastSaidLeave
<1>10. chan[c].st = "Joined" => Begun(c)
  BY DEF Begun
<1>. QED
  BY <1>1, <1>2, <1>3, <1>4, <1>6, <1>7, <1>8, <1>9, <1>10 DEF JoinShows, BegunIsSaid, JoinGoesOn

\* All of it holds at the start.
LEMMA InitInv == ClientInv /\ SessionInit => SessionInv
<1>. SUFFICES ASSUME ClientInv, SessionInit PROVE SessionInv
  OBVIOUS
<1>1. /\ \A c \in Chan : chan[c] = View!Unbuilt /\ mail[c] = <<>> /\ heard[c] = 0 /\ got[c] = <<>>
                         /\ build[c].at = 0
      /\ \A g \in Gen : out[g] = <<>>
      /\ sent = <<>> /\ todo = <<>>
  BY DEF SessionInit, Init
<1>2. /\ \A c \in Chan : ~View!Live(c) /\ ~Begun(c)
      /\ \A g \in Gen : written[g] = 0 /\ member[g] = {}
  BY <1>1 DEF SessionInit, View!Live, View!LiveStates, View!Unbuilt, Begun
<1>3. SessionTypes
  BY <1>1, <1>2 DEF SessionTypes, SessionInit
<1>4. \A c \in Chan : call[c].st = "idle"
  BY Parties DEF SessionInit, Init
<1>5. Older /\ Behind /\ Confirming /\ Entered
  BY <1>1, <1>2, <1>4 DEF Older, Behind, Confirming, Entered, Range
<1>6. Held
  BY <1>2 DEF Held, LastIn
<1>7. JoinShows /\ BegunIsSaid /\ JoinGoesOn
  BY <1>2 DEF JoinShows, BegunIsSaid, JoinGoesOn
<1>. QED
  BY <1>3, <1>5, <1>6, <1>7 DEF SessionInv

-----------------------------------------------------------------------------
(* The steps of the session.                                               *)

\* Heartbeats, the send tasks and the server move nothing of the client but what
\* waits to be read.
Apart == UNCHANGED <<wireRest, stream>>

\* A step is one of the client, or apart from it.
LEMMA StepKinds ==
  ASSUME [SessionNext]_sessionVars
  PROVE  \/ Local /\ UNCHANGED <<written, member, owed>>
         \/ Apart
<1>1. ASSUME NEW g \in Gen, Write(g) \/ ServerForgets(g)
      PROVE  Apart
  BY <1>1 DEF Write, ServerForgets, Apart, vars, wireRest, connVars
<1>2. ASSUME NEW g \in Gen, Heartbeat(g) \/ ServerAnswers(g) \/ ServerGarbles(g)
      PROVE  Apart
  BY <1>2 DEF Heartbeat, ServerAnswers, ServerGarbles, ServerSends, Apart
<1>3. ASSUME NEW g \in Gen, NEW c \in Chan, ServerConfirms(g, c) \/ ServerTells(g, c)
      PROVE  Apart
  BY <1>3 DEF ServerConfirms, Confirms, ServerTells, ServerSends, Apart
<1>4. ASSUME UNCHANGED sessionVars
      PROVE  Apart
  BY <1>4 DEF sessionVars, vars, Apart, wireRest, connVars
<1>. QED
  BY <1>1, <1>2, <1>3, <1>4 DEF SessionNext, serverVars

\* What a step apart from the client leaves as it is.
LEMMA ApartKeeps ==
  ASSUME ClientInv, Apart
  PROVE  (Counters /\ OneResponder /\ Asking /\ ListOwned /\ Listing)'
<1>. USE DEF ClientInv, Core
<1>1. /\ UNCHANGED <<pc, cur, inbox, attempts, todo, handles, wsTx, endpoint>>
      /\ UNCHANGED <<channels, lock, gen, recv, chan, build, call>>
  BY DEF Apart, wireRest, actorVars, sharedVars, chanVars
<1>2. Counters'
  BY <1>1 DEF Counters
<1>3. OneResponder'
  BY <1>1, QuietResponder
<1>4. Asking'
  <2>1. \A g \in Gen : /\ g > gen => recv'[g].at = "none"
                       /\ recv'[g].at # "waiting" => recv[g].at # "waiting"
    BY <1>1 DEF Asking
  <2>. QED
    BY <1>1, <2>1, QuietAsking
<1>5. ListOwned'
  BY <1>1 DEF ListOwned
<1>6. Listing'
  <2>1. Distinct(channels)' /\ \A c \in Range(channels') : Member(c)'
    BY <1>1 DEF Listing, Member, Distinct
  <2>2. \A g \in Gen : Scanning(g)'
    BY <1>1 DEF Listing, Scanning
  <2>. QED
    BY <2>1, <2>2 DEF Listing
<1>. QED
  BY <1>2, <1>3, <1>4, <1>5, <1>6

\* What a message of the server does, whatever it costs.
LEMMA SendKeeps ==
  ASSUME ClientInv, NEW g \in Gen, NEW t \in Topic, NEW re \in Chan \cup {NoOne},
         ServerSends(g, t, re), budget' \in Nat
  PROVE  ClientInv'
<1>. USE DEF ClientInv, Core
<1>1. Apart
  BY DEF Apart, ServerSends
<1>2. TypeOK'
  BY ServerSendsType
<1>3. Ordered'
  BY ServerOrdered
<1>. QED
  BY <1>1, <1>2, <1>3, ApartKeeps

\* What a heartbeat does.
LEMMA HeartbeatKeeps ==
  ASSUME ClientInv, NEW g \in Gen, Heartbeat(g)
  PROVE  ClientInv'
<1>. USE DEF ClientInv, Core
<1>1. Apart /\ UNCHANGED <<inq, sent>> /\ budget' \in Nat
  BY DEF Apart, Heartbeat, Spend, TypeOK
<1>2. TypeOK'
  BY <1>1, TypeParts, PartsType
  DEF Apart, wireRest, actorVars, sharedVars, chanVars, taskVars, ActorTyped, ConnTyped, ChanTyped
<1>3. Ordered'
  BY <1>1, UnmovedOrdered DEF Apart, Unmoved, wireRest, chanVars
<1>. QED
  BY <1>1, <1>2, <1>3, ApartKeeps

\* Every step of the client keeps what the client is known to keep, ...
LEMMA NextClient ==
  ASSUME ClientInv, [Next]_vars
  PROVE  ClientInv'
BY NextCore, NextOwned, NextListing, NextOrdered DEF ClientInv, Core

\* ... and so does every step of the session.
LEMMA SessionClient ==
  ASSUME ClientInv, [SessionNext]_sessionVars
  PROVE  ClientInv'
<1>1. ASSUME Local \/ UNCHANGED vars
      PROVE  ClientInv'
  BY <1>1, NextClient DEF Next
<1>2. ASSUME NEW g \in Gen, Write(g) \/ ServerForgets(g)
      PROVE  UNCHANGED vars
  BY <1>2 DEF Write, ServerForgets
<1>3. budget \in Nat
  BY DEF ClientInv, Core, TypeOK
<1>4. ASSUME NEW g \in Gen, ServerAnswers(g)
      PROVE  ClientInv'
  BY <1>3, <1>4, SendKeeps, SessionAssumption DEF ServerAnswers
<1>5. ASSUME NEW g \in Gen, NEW c \in Chan, ServerConfirms(g, c)
      PROVE  ClientInv'
  BY <1>3, <1>5, SendKeeps, ClientAssumption DEF ServerConfirms, Confirms
<1>6. ASSUME NEW g \in Gen, NEW c \in Chan, ServerTells(g, c)
      PROVE  ClientInv'
  BY <1>3, <1>6, SendKeeps, ClientAssumption DEF ServerTells, Spend
<1>7. ASSUME NEW g \in Gen, ServerGarbles(g)
      PROVE  ClientInv'
  BY <1>3, <1>7, SendKeeps, ClientAssumption DEF ServerGarbles, Spend
<1>. QED
  BY <1>1, <1>2, <1>4, <1>5, <1>6, <1>7, HeartbeatKeeps DEF SessionNext, sessionVars

-----------------------------------------------------------------------------
(* What a step of the client does to one channel and to what it has said.   *)

\* The channel shows what it did, but for its token; and it says nothing of its
\* membership.
Stays(c) ==
  /\ chan'[c].st = chan[c].st
  /\ View!Live(c) => chan'[c].tx = chan[c].tx
Mute(c) ==
  \A g \in Gen : \/ out'[g] = out[g]
                 \/ \E f \in Frame : ~Says(c, f) /\ out'[g] = Append(out[g], f)

\* It hears that it has joined.
Hears(c) ==
  /\ HandleMessage(c) /\ View!Confirmed(c) /\ UNCHANGED out
  /\ heard[c] < Len(got[c]) /\ sent[got[c][heard[c] + 1]].re = c

\* The ways for a step to change a channel.
Moved(c) ==
  \/ Stays(c) /\ Mute(c)
  \/ PerformSubscribe(c)
  \/ LeavesNow(c)
  \/ Hears(c)
  \/ View!Breaks(c) /\ UNCHANGED out /\ Member(c)
  \/ BuildAsks(c) /\ build[c].at = 3 /\ View!Built(c, build[c].tx, build[c].tok) /\ UNCHANGED out
  \/ Rebind /\ c = Head(todo) /\ View!Rebinds(c, wsTx) /\ UNCHANGED out

\* c says a frame of kind e on its connection, and nothing is said on another.
Spoken(c, e) ==
  LET g == chan[c].tx IN
  \E f \in Frame : /\ f.from = c /\ f.event = e
                   /\ out'[g] = Append(out[g], f) /\ \A h \in Gen \ {g} : out'[h] = out[h]
\* They are these changes, each with what it says on the connection of c.
LEMMA MovedShows ==
  ASSUME TypeOK, NEW c \in Chan
  PROVE  /\ PerformSubscribe(c) =>
              /\ View!Live(c) /\ chan'[c].st = "Joining" /\ chan'[c].tx = chan[c].tx
              /\ IF chan[c].tx \in sending THEN Spoken(c, "phx_join") ELSE UNCHANGED out
         /\ LeavesNow(c) =>
              /\ View!Live(c) /\ chan'[c].st = "Leaving" /\ chan'[c].tx = chan[c].tx
              /\ chan[c].st # "Closed" /\ Spoken(c, "phx_leave")
         /\ View!Confirmed(c) => View!Live(c) /\ chan'[c].st = "Joined" /\ chan'[c].tx = chan[c].tx
         /\ View!Breaks(c) => View!Live(c) /\ chan'[c].st = "panicked"
         /\ \A g, t : View!Built(c, g, t) =>
              chan[c].st = "unbuilt" /\ chan'[c].st = "Closed" /\ chan'[c].tx = g
         /\ \A g : View!Rebinds(c, g) =>
              View!Live(c) /\ chan'[c].st = chan[c].st /\ chan'[c].tx = g
<1>1. /\ chan \in [Chan -> View!Shown \cup {View!Unbuilt, View!Broken}]
      /\ out \in [Gen -> Seq(Frame)]
  BY DEF TypeOK
<1>2. ASSUME View!Live(c)
      PROVE  /\ chan[c].st \in View!LiveStates /\ chan[c].tx \in Gen /\ chan[c].tok \in Nat
             /\ chan[c] = [st |-> chan[c].st, tx |-> chan[c].tx, tok |-> chan[c].tok]
  <2>1. chan[c] \in View!Shown
    BY <1>2, LiveShown
  <2>. QED
    BY <2>1 DEF View!Shown
<1>3. ASSUME NEW st, View!Live(c), View!Moves(c, st)
      PROVE  chan'[c].st = st /\ chan'[c].tx = chan[c].tx
  BY <1>1, <1>2, <1>3 DEF View!Moves
<1>4. ASSUME NEW e \in {"phx_join", "phx_leave", "access_token"}, NEW t \in Nat,
             View!Live(c), Speaks(c, e, t)
      PROVE  Spoken(c, e)
  <2>1. PICK f : f = [event |-> e, from |-> c, tok |-> t]
    OBVIOUS
  <2>2. f \in Frame /\ f.event = e /\ f.from = c
    BY <2>1 DEF Frame
  <2>3. out' = [out EXCEPT ![chan[c].tx] = Append(@, f)]
    BY <1>4, <2>1 DEF Speaks
  <2>. QED
    BY <1>1, <1>2, <1>4, <2>2, <2>3 DEF Spoken
<1>5. ASSUME PerformSubscribe(c)
      PROVE  /\ View!Live(c) /\ chan'[c].st = "Joining" /\ chan'[c].tx = chan[c].tx
             /\ IF chan[c].tx \in sending THEN Spoken(c, "phx_join") ELSE UNCHANGED out
  BY <1>2, <1>3, <1>4, <1>5 DEF PerformSubscribe, View!Subscribes
<1>6. ASSUME LeavesNow(c)
      PROVE  /\ View!Live(c) /\ chan'[c].st = "Leaving" /\ chan'[c].tx = chan[c].tx
             /\ chan[c].st # "Closed" /\ Spoken(c, "phx_leave")
  BY <1>3, <1>4, <1>6 DEF LeavesNow, View!Leaves
<1>7. ASSUME View!Confirmed(c)
      PROVE  View!Live(c) /\ chan'[c].st = "Joined" /\ chan'[c].tx = chan[c].tx
  BY <1>3, <1>7 DEF View!Confirmed
<1>8. ASSUME View!Breaks(c)
      PROVE  View!Live(c) /\ chan'[c].st = "panicked"
  BY <1>1, <1>8 DEF View!Breaks, View!Broken
<1>9. ASSUME NEW g, NEW t, View!Built(c, g, t)
      PROVE  chan[c].st = "unbuilt" /\ chan'[c].st = "Closed" /\ chan'[c].tx = g
  BY <1>1, <1>9 DEF View!Built, View!Unbuilt
<1>10. ASSUME NEW g, View!Rebinds(c, g)
       PROVE  View!Live(c) /\ chan'[c].st = chan[c].st /\ chan'[c].tx = g
  BY <1>1, <1>2, <1>10 DEF View!Rebinds
<1>. QED
  BY <1>5, <1>6, <1>7, <1>8, <1>9, <1>10

\* A channel stays as it is while another one changes, or while it takes a token.
LEMMA OthersStay ==
  ASSUME TypeOK, NEW c \in Chan, NEW d \in Chan,
         \/ UNCHANGED chan
         \/ View!TakesToken(d)
         \/ /\ d # c
            /\ \/ View!Subscribes(d) \/ View!Confirmed(d) \/ View!Leaves(d) \/ View!Breaks(d)
               \/ \E g, t : View!Rebinds(d, g) \/ View!Built(d, g, t)
  PROVE  Stays(c)
<1>1. chan \in [Chan -> View!Shown \cup {View!Unbuilt, View!Broken}]
  BY DEF TypeOK
<1>2. CASE d # c
  <2>1. chan'[c] = chan[c]
    BY <1>1, <1>2 DEF View!Subscribes, View!Confirmed, View!Leaves, View!Breaks, View!Rebinds,
       View!Built, View!TakesToken, View!Moves
  <2>. QED
    BY <2>1 DEF Stays
<1>3. CASE d = c /\ View!TakesToken(d)
  <2>1. chan[c] \in View!Shown /\ chan' = [chan EXCEPT ![c].tok = token]
    BY <1>3, LiveShown DEF View!TakesToken
  <2>. QED
    BY <1>1, <2>1 DEF Stays, View!Shown
<1>. QED
  BY <1>2, <1>3 DEF Stays

\* A channel is mute while another one speaks, or while it sends its token.
LEMMA OthersMute ==
  ASSUME TypeOK, NEW c \in Chan, NEW d \in Chan,
         \/ UNCHANGED out
         \/ \E e, t : /\ e \in {"phx_join", "phx_leave", "access_token"} /\ t \in Nat
                      /\ View!Live(d) /\ Speaks(d, e, t)
                      /\ d # c \/ e = "access_token"
  PROVE  Mute(c)
<1>1. CASE UNCHANGED out
  BY <1>1 DEF Mute
<1>2. ASSUME NEW e \in {"phx_join", "phx_leave", "access_token"}, NEW t \in Nat,
             View!Live(d), Speaks(d, e, t), d # c \/ e = "access_token"
      PROVE  Mute(c)
  <2>1. PICK f : f = [event |-> e, from |-> d, tok |-> t]
    OBVIOUS
  <2>2. f \in Frame /\ ~Says(c, f)
    BY <1>2, <2>1 DEF Frame, Says
  <2>3. out' = [out EXCEPT ![chan[d].tx] = Append(@, f)] /\ out \in [Gen -> Seq(Frame)]
    BY <1>2, <2>1 DEF Speaks, TypeOK
  <2>. QED
    BY <2>2, <2>3 DEF Mute
<1>. QED
  BY <1>1, <1>2

\* Every step of the client moves a channel in one of these ways.
LEMMA ChannelStep ==
  ASSUME ClientInv, Entered, Local, NEW c \in Chan
  PROVE  Moved(c)
<1>. USE DEF ClientInv, Core
<1>1. ASSUME UNCHANGED <<chan, out>>
      PROVE  Moved(c)
  BY <1>1, OthersStay, OthersMute DEF Moved
<1>2. ASSUME NEW d \in Chan, View!Breaks(d), UNCHANGED out, Member(d)
      PROVE  Moved(c)
  BY <1>2, OthersStay, OthersMute DEF Moved
<1>3. ASSUME NEW d \in Chan, LeavesNow(d)
      PROVE  Moved(c)
  <2>1. CASE d = c
    BY <1>3, <2>1 DEF Moved
  <2>2. CASE d # c
    <3>1. Mute(c)
      BY <1>3, <2>2, OthersMute DEF LeavesNow, View!Leaves
    <3>. QED
      BY <1>3, <2>2, <3>1, OthersStay DEF LeavesNow, Moved
  <2>. QED
    BY <2>1, <2>2
<1>4. CASE ClientActor
  <2>1. CASE Rebind
    <3>1. UNCHANGED out /\ Head(todo) \in Chan
      BY <2>1, VisitsType DEF Rebind, Visits
    <3>2. CASE View!Rebinds(Head(todo), wsTx)
      BY <2>1, <3>1, <3>2, OthersStay, OthersMute DEF Moved
    <3>. QED
      BY <1>1, <2>1, <3>1, <3>2 DEF Rebind, Rejoined
  <2>2. CASE Leave
    BY <1>1, <1>3, <2>2, VisitsType DEF Leave, Visits
  <2>3. CASE ReAuth
    <3>1. PICK d \in Chan : d = Head(todo)
      BY <2>3, VisitsType DEF ReAuth, Visits
    <3>2. CASE View!Breaks(d) /\ chan[d].st = "Joined" /\ UNCHANGED out
      <4>1. Member(d)
        BY <3>2 DEF Entered, Begun
      <4>. QED
        BY <1>2, <3>2, <4>1
    <3>3. CASE View!TakesToken(d) /\ View!Live(d)
               /\ (Speaks(d, "access_token", token) \/ UNCHANGED out)
      <4>1. token \in Nat
        BY DEF TypeOK
      <4>2. Mute(c)
        BY <3>3, <4>1, OthersMute
      <4>. QED
        BY <3>3, <4>2, OthersStay DEF Moved
    <3>. QED
      BY <1>1, <2>3, <3>1, <3>2, <3>3 DEF ReAuth, Reaches
  <2>4. CASE \/ HandleGetState \/ HandleGetAccessToken \/ HandleGetWsTx \/ HandleAddChannel
             \/ StartConnect \/ BuildRequest \/ DialFails \/ DialSucceeds \/ MarkOpen
             \/ LockToRebind \/ Rejoin \/ ConnectDone \/ StartDisconnect \/ DisconnectDone
             \/ StartSetAccessToken \/ LockToReAuth \/ SetAccessTokenDone
    <3>1. UNCHANGED <<chan, out>>
      BY <2>4 DEF HandleGetState, HandleGetAccessToken, HandleGetWsTx, HandleAddChannel,
         StartConnect, BuildRequest, DialFails, DialSucceeds, MarkOpen,
         LockToRebind, Rejoin, ConnectDone, StartDisconnect, DisconnectDone,
         StartSetAccessToken, LockToReAuth, SetAccessTokenDone, chanVars
    <3>. QED
      BY <1>1, <3>1
  <2>. QED
    BY <1>4, <2>1, <2>2, <2>3, <2>4 DEF ClientActor
<1>5. ASSUME NEW g \in Gen, ReceiveTask(g) \/ SendEnds(g)
      PROVE  UNCHANGED <<chan, out>>
  BY <1>5 DEF ReceiveTask, ReadMessage, ReadPanics, ReadError, ReadEnd, Reconnected,
              LockToRoute, RecvPanics,
     Filter, FilterDone, Dispatch, DispatchDone, taskRest, SendEnds, chanVars
<1>6. ASSUME NEW g \in Gen, Cancelled(g)
      PROVE  Moved(c)
  <2>1. UNCHANGED out
    BY <1>6 DEF Cancelled
  <2>2. CASE lock = g /\ recv[g].scan # <<>> /\ View!Breaks(Head(recv[g].scan))
    <3>1. recv[g].scan \in Seq(Chan)
      BY Typed DEF Task
    <3>2. Head(recv[g].scan) \in Range(channels)
      BY <2>2, <3>1, TailList DEF ListOwned, Listing, Scanning
    <3>3. Head(recv[g].scan) \in Chan /\ Member(Head(recv[g].scan))
      BY <2>2, <3>1, <3>2, HeadTailProperties DEF Listing
    <3>. QED
      BY <1>2, <2>1, <2>2, <3>3
  <2>3. CASE UNCHANGED chan
    BY <1>1, <2>1, <2>3
  <2>. QED
    BY <1>6, <2>2, <2>3, Zenon DEF Cancelled
<1>7. ASSUME NEW d \in Chan, ChannelTasks(d)
      PROVE  Moved(c)
  <2>1. CASE PerformSubscribe(d)
    <3>1. View!Subscribes(d) /\ View!Live(d) /\ chan[d].tok \in Nat
      BY <2>1, LiveShown DEF PerformSubscribe, View!Subscribes, View!Shown
    <3>2. Speaks(d, "phx_join", chan[d].tok) \/ UNCHANGED out
      BY <2>1 DEF PerformSubscribe
    <3>3. d # c => Mute(c)
      BY <3>1, <3>2, OthersMute
    <3>. QED
      BY <2>1, <3>1, <3>3, OthersStay DEF Moved
  <2>2. CASE PerformUnsubscribe(d)
    BY <1>1, <1>3, <2>2 DEF PerformUnsubscribe
  <2>3. CASE HandleMessage(d)
    <3>1. UNCHANGED out
      BY <2>3 DEF HandleMessage
    <3>2. CASE View!Confirmed(d) /\ sent[got[d][heard[d] + 1]].re = d
      <4>1. CASE d = c
        BY <2>3, <3>1, <3>2, <4>1 DEF Moved, Hears, HandleMessage
      <4>2. CASE d # c
        BY <3>1, <3>2, <4>2, OthersStay, OthersMute DEF Moved
      <4>. QED
        BY <4>1, <4>2
    <3>. QED
      BY <1>1, <2>3, <3>1, <3>2 DEF HandleMessage, Joins, OwnReply
  <2>. QED
    BY <1>7, <2>1, <2>2, <2>3 DEF ChannelTasks
<1>8. ASSUME NEW d \in Chan, BuildAsks(d)
      PROVE  Moved(c)
  <2>1. UNCHANGED out
    BY <1>8 DEF BuildAsks, callerRest
  <2>2. build \in [Chan -> [at : 0..6, tx : 0..MaxGen, tok : Nat]]
    BY DEF TypeOK
  <2>3. build'[d].at = build[d].at + 1
    BY <1>8, <2>2 DEF BuildAsks
  <2>4. CASE build[d].at = 3 /\ View!Built(d, build[d].tx, build[d].tok)
    <3>1. d # c => Stays(c)
      BY <2>4, OthersStay
    <3>. QED
      BY <1>8, <2>1, <2>4, <3>1, OthersMute DEF Moved
  <2>5. CASE UNCHANGED chan
    BY <1>1, <2>1, <2>5
  <2>. QED
    BY <1>8, <2>2, <2>3, <2>4, <2>5 DEF BuildAsks
<1>9. ASSUME NEW d \in Chan, ChannelPanics(d)
      PROVE  Moved(c)
  <2>1. View!Breaks(d) /\ UNCHANGED out /\ build[d].at = 5
    BY <1>9, Zenon DEF ChannelPanics, callerRest
  <2>2. Member(d)
    BY <2>1 DEF Member, Asking, Builder
  <2>. QED
    BY <1>2, <2>1, <2>2
<1>10. ASSUME NEW d \in Chan, \E op \in {"Subscribe", "Unsubscribe"} : HolderPosts(d, op)
       PROVE  UNCHANGED <<chan, out>>
  BY <1>10, Zenon DEF HolderPosts, callerRest
<1>11. CASE Environment
  <2>1. ASSUME NEW k \in Caller, Resume(k) \/ Abandon(k) \/ \E op \in AllOps : Ask(k, op)
        PROVE  UNCHANGED <<chan, out>>
    BY <2>1 DEF Resume, Abandon, Ask, callerRest, chanVars
  <2>2. ASSUME NEW d \in Chan, BuildResumes(d)
        PROVE  UNCHANGED <<chan, out>>
    BY <2>2 DEF BuildResumes, callerRest
  <2>3. ASSUME NEW g \in Gen, NEW how \in {"err", "ended"}, ConnEnds(g, how)
        PROVE  UNCHANGED <<chan, out>>
    BY <2>3 DEF ConnEnds, wireRest, chanVars
  <2>. QED
    BY <1>1, <1>8, <1>9, <1>10, <1>11, <2>1, <2>2, <2>3 DEF Environment
<1>. QED
  BY <1>1, <1>4, <1>5, <1>6, <1>7, <1>11 DEF Local

-----------------------------------------------------------------------------
(* The last frame of a channel about its membership.                       *)

Membership == {"phx_join", "phx_leave"}

\* A frame behind the first n is none of them.
LEMMA LastGrows ==
  ASSUME NEW o \in Seq(Frame), NEW n \in 0..Len(o), NEW f \in Frame, NEW c, NEW e
  PROVE  LastIn(Append(o, f), c, n, e) <=> LastIn(o, c, n, e)
<1>1. \A i \in 1..n : Append(o, f)[i] = o[i]
  OBVIOUS
<1>. QED
  BY <1>1 DEF LastIn

\* With one frame more, that one is the last if it is about the membership of c.
LEMMA LastNext ==
  ASSUME NEW o \in Seq(Frame), NEW n \in Nat, n < Len(o), NEW c, NEW e \in Membership
  PROVE  LastIn(o, c, n + 1, e) <=> IF Says(c, o[n + 1]) THEN o[n + 1].event = e
                                                         ELSE LastIn(o, c, n, e)
<1>1. 1..(n + 1) = 1..n \cup {n + 1} /\ \A i \in 1..n : i < n + 1
  OBVIOUS
<1>2. CASE Says(c, o[n + 1])
  <2>1. o[n + 1].event = e => LastIn(o, c, n + 1, e)
    BY <1>1, <1>2 DEF LastIn, Says
  <2>2. ASSUME LastIn(o, c, n + 1, e)
        PROVE  o[n + 1].event = e
    BY <1>1, <1>2, <2>2 DEF LastIn
  <2>. QED
    BY <1>2, <2>1, <2>2
<1>3. CASE ~Says(c, o[n + 1])
  <2>1. ASSUME NEW i \in 1..(n + 1), o[i].from = c, o[i].event = e
        PROVE  i \in 1..n
    BY <1>1, <1>3, <2>1 DEF Says, Membership
  <2>2. LastIn(o, c, n + 1, e) => LastIn(o, c, n, e)
    BY <1>1, <2>1 DEF LastIn
  <2>3. LastIn(o, c, n, e) => LastIn(o, c, n + 1, e)
    BY <1>1, <1>3 DEF LastIn
  <2>. QED
    BY <1>3, <2>2, <2>3
<1>. QED
  BY <1>2, <1>3

\* The same when the frame is appended.
LEMMA LastAppend ==
  ASSUME NEW o \in Seq(Frame), NEW f \in Frame, NEW c, NEW e \in Membership
  PROVE  LastIn(Append(o, f), c, Len(Append(o, f)), e) <=>
           IF Says(c, f) THEN f.event = e ELSE LastIn(o, c, Len(o), e)
<1>1. PICK p : p = Append(o, f)
  OBVIOUS
<1>2. /\ p \in Seq(Frame) /\ Len(o) \in Nat /\ Len(p) = Len(o) + 1 /\ p[Len(o) + 1] = f
      /\ Len(o) < Len(p) /\ Len(o) \in 0..Len(o)
  BY <1>1, AppendProperties, LenProperties
<1>3. LastIn(p, c, Len(o), e) <=> LastIn(o, c, Len(o), e)
  BY <1>1, <1>2, LastGrows
<1>4. LastIn(p, c, Len(o) + 1, e) <=> IF Says(c, p[Len(o) + 1]) THEN p[Len(o) + 1].event = e
                                                                ELSE LastIn(p, c, Len(o), e)
  BY <1>2, LastNext
<1>5. LastIn(p, c, Len(p), e) <=> LastIn(p, c, Len(o) + 1, e)
  BY <1>2
<1>. QED
  BY <1>1, <1>2, <1>3, <1>4, <1>5

\* While c is mute, and keeps its connection, what it said is the same.
LEMMA MuteSpoke ==
  ASSUME TypeOK, NEW c \in Chan, View!Live(c), Mute(c), chan'[c].tx = chan[c].tx
  PROVE  \A e \in Membership : Spoke(c, e)' <=> Spoke(c, e)
<1>. SUFFICES ASSUME NEW e \in Membership PROVE Spoke(c, e)' <=> Spoke(c, e)
  OBVIOUS
<1>1. PICK g : g = chan[c].tx
  OBVIOUS
<1>2. g \in Gen /\ chan'[c].tx = g /\ out[g] \in Seq(Frame)
  BY <1>1, LiveShown DEF View!Shown, TypeOK
<1>3. CASE out'[g] = out[g]
  BY <1>1, <1>2, <1>3 DEF Spoke
<1>4. ASSUME NEW f \in Frame, ~Says(c, f), out'[g] = Append(out[g], f)
      PROVE  Spoke(c, e)' <=> Spoke(c, e)
  BY <1>1, <1>2, <1>4, LastAppend DEF Spoke
<1>. QED
  BY <1>2, <1>3, <1>4 DEF Mute

\* What c says is the last it said.
LEMMA SpokenSpoke ==
  ASSUME TypeOK, NEW c \in Chan, View!Live(c), NEW e \in Membership, Spoken(c, e),
         chan'[c].tx = chan[c].tx
  PROVE  \A e2 \in Membership : Spoke(c, e2)' <=> e2 = e
<1>. SUFFICES ASSUME NEW e2 \in Membership PROVE Spoke(c, e2)' <=> e2 = e
  OBVIOUS
<1>1. PICK g : g = chan[c].tx
  OBVIOUS
<1>2. g \in Gen /\ chan'[c].tx = g /\ out[g] \in Seq(Frame)
  BY <1>1, LiveShown DEF View!Shown, TypeOK
<1>3. PICK f \in Frame : f.from = c /\ f.event = e /\ out'[g] = Append(out[g], f)
  BY <1>1 DEF Spoken
<1>4. Says(c, f)
  BY <1>3 DEF Says, Membership
<1>5. LastIn(out'[g], c, Len(out'[g]), e2) <=> f.event = e2
  <2>1. LastIn(Append(out[g], f), c, Len(Append(out[g], f)), e2)
          <=> IF Says(c, f) THEN f.event = e2 ELSE LastIn(out[g], c, Len(out[g]), e2)
    BY <1>2, LastAppend
  <2>. QED
    BY <1>3, <1>4, <2>1
<1>. QED
  BY <1>2, <1>3, <1>5 DEF Spoke

\* With a new sender c has said nothing on its connection, and with the same one
\* nothing else.
LEMMA ReboundSpoke ==
  ASSUME ClientInv, Older, Behind, NEW c \in Chan, View!Rebinds(c, wsTx), UNCHANGED out
  PROVE  \A e \in Membership : Spoke(c, e)' => Spoke(c, e) /\ chan'[c].tx = chan[c].tx
<1>. USE DEF ClientInv, Core
<1>. SUFFICES ASSUME NEW e \in Membership, Spoke(c, e)'
              PROVE  Spoke(c, e) /\ chan'[c].tx = chan[c].tx
  OBVIOUS
<1>1. View!Live(c) /\ chan'[c].tx = wsTx
  BY MovedShows
<1>2. chan[c].tx \in Gen /\ wsTx \in 0..MaxGen /\ chan[c].tx <= wsTx
  BY <1>1, LiveShown DEF View!Shown, TypeOK, Older
<1>3. wsTx \in Gen
  <2>1. MaxGen \in Nat
    BY Parties
  <2>. QED
    BY <1>2, <2>1 DEF Gen
<1>4. PICK i \in 1..Len(out[wsTx]) : out[wsTx][i].from = c /\ out[wsTx][i].event = e
  BY <1>1 DEF Spoke, LastIn
<1>5. i \in DOMAIN out[wsTx] /\ Says(c, out[wsTx][i])
  <2>1. out[wsTx] \in Seq(Frame)
    BY <1>3 DEF TypeOK
  <2>. QED
    BY <1>4, <2>1 DEF Says, Membership
<1>6. wsTx <= chan[c].tx
  BY <1>1, <1>3, <1>5 DEF Behind
<1>7. wsTx = chan[c].tx
  BY <1>2, <1>6 DEF Gen
<1>. QED
  BY <1>1, <1>7 DEF Spoke

-----------------------------------------------------------------------------
(* Who changes what, among the steps of the client.                        *)

\* Each of these has few writers.
LEMMA Writers ==
  ASSUME Local
  PROVE  /\ UNCHANGED sent
         /\ UNCHANGED inq \/ \E g \in Gen : ReadMessage(g) \/ ReadPanics(g)
         /\ UNCHANGED got \/ \E g \in Gen : Dispatch(g)
         /\ UNCHANGED <<deaf, heard>> \/ \E c \in Chan : HandleMessage(c)
         /\ UNCHANGED sending \/ DialSucceeds \/ \E g \in Gen : SendEnds(g)
         /\ UNCHANGED stream \/ \E g \in Gen : ReadError(g) \/ \E how \in {"err", "ended"} : ConnEnds(g, how)
         /\ UNCHANGED recv \/ DialSucceeds \/ \E g \in Gen : ReceiveTask(g) \/ Cancelled(g)
         /\ UNCHANGED channels \/ HandleAddChannel \/ \E g \in Gen : FilterDone(g)
<1>1. CASE ClientActor
  <2>1. DialSucceeds \/ UNCHANGED <<sending, recv>>
    BY <1>1 DEF ClientActor, HandleGetState, HandleGetAccessToken, HandleGetWsTx, HandleAddChannel,
       StartConnect, BuildRequest, DialFails, MarkOpen, LockToRebind, Rebind, Rejoin,
       ConnectDone, StartDisconnect, Leave, DisconnectDone, StartSetAccessToken, LockToReAuth, ReAuth,
       SetAccessTokenDone, connVars
  <2>2. UNCHANGED <<stream, deaf, heard>>
    BY <1>1 DEF ClientActor, HandleGetState, HandleGetAccessToken, HandleGetWsTx, HandleAddChannel,
       StartConnect, BuildRequest, DialFails, DialSucceeds, MarkOpen, LockToRebind, Rebind, Rejoin,
       ConnectDone, StartDisconnect, Leave, DisconnectDone, StartSetAccessToken, LockToReAuth, ReAuth,
       SetAccessTokenDone, connVars, chanVars, taskVars
  <2>. QED
    BY <1>1, <2>1, <2>2, ActorKeeps
<1>2. ASSUME NEW g \in Gen, ReceiveTask(g)
      PROVE  /\ UNCHANGED <<sent, deaf, heard, sending>>
             /\ ReadMessage(g) \/ ReadPanics(g) \/ UNCHANGED inq
             /\ Dispatch(g) \/ UNCHANGED got
             /\ ReadError(g) \/ UNCHANGED stream
             /\ FilterDone(g) \/ UNCHANGED channels
  BY <1>2 DEF ReceiveTask, ReadMessage, ReadPanics, ReadError, ReadEnd, Reconnected,
              LockToRoute, RecvPanics,
     Filter, FilterDone, Dispatch, DispatchDone, taskRest, sharedVars, taskVars
<1>3. ASSUME NEW g \in Gen, Cancelled(g)
      PROVE  UNCHANGED <<sent, inq, got, deaf, heard, sending, stream, channels>>
  BY <1>3, Zenon DEF Cancelled, taskVars
<1>4. ASSUME NEW g \in Gen, SendEnds(g)
      PROVE  UNCHANGED <<sent, inq, got, deaf, heard, stream, recv, channels>>
  BY <1>4 DEF SendEnds, chanVars, taskVars, sharedVars
<1>5. ASSUME NEW c \in Chan, ChannelTasks(c)
      PROVE  /\ UNCHANGED <<sent, inq, got, sending, stream, recv, channels>>
             /\ HandleMessage(c) \/ UNCHANGED <<deaf, heard>>
  BY <1>5 DEF ChannelTasks, PerformSubscribe, PerformUnsubscribe, HandleMessage, channelRest,
     connVars, sharedVars, taskVars
<1>6. CASE Environment
  <2>1. ASSUME NEW c \in Chan, ChannelPanics(c) \/ \E op \in {"Subscribe", "Unsubscribe"} : HolderPosts(c, op)
        PROVE  UNCHANGED <<sent, inq, got, deaf, heard, sending, stream, recv, channels>>
    BY <2>1, Zenon DEF ChannelPanics, HolderPosts, callerRest, connVars, sharedVars, taskVars
  <2>2. ASSUME NEW k \in Caller, Resume(k) \/ Abandon(k) \/ \E op \in AllOps : Ask(k, op)
        PROVE  UNCHANGED <<sent, inq, got, deaf, heard, sending, stream, recv, channels>>
    BY <2>2 DEF Resume, Abandon, Ask, callerRest, connVars, chanVars, sharedVars, taskVars
  <2>3. ASSUME NEW c \in Chan, BuildAsks(c) \/ BuildResumes(c)
        PROVE  UNCHANGED <<sent, inq, got, deaf, heard, sending, stream, recv, channels>>
    BY <2>3 DEF BuildAsks, BuildResumes, callerRest, connVars, sharedVars, taskVars
  <2>4. ASSUME NEW g \in Gen, NEW how \in {"err", "ended"}, ConnEnds(g, how)
        PROVE  UNCHANGED <<sent, inq, got, deaf, heard, sending, recv, channels>>
    BY <2>4 DEF ConnEnds, wireRest, chanVars, sharedVars, taskVars
  <2>. QED
    BY <1>6, <2>1, <2>2, <2>3, <2>4 DEF Environment
<1>. QED
  BY <1>1, <1>2, <1>3, <1>4, <1>5, <1>6 DEF Local

\* A connection that is closed for the server stays closed, and one that is lost to
\* the client stays lost.
LEMMA LossesStay ==
  ASSUME ClientInv, Local, NEW g \in Gen
  PROVE  /\ Hangs(g) => Hangs(g)'
         /\ g <= gen /\ Lost(g) => Lost(g)'
<1>. USE DEF ClientInv, Core
<1>1. stream \in [Gen -> {"up", "err", "ended"}] /\ recv \in [Gen -> Task] /\ gen \in Nat
  BY TypeParts, ClientAssumption DEF ConnTyped
<1>2. stream[g] # "up" => stream'[g] # "up"
  BY <1>1, Writers DEF ReadError, ConnEnds
<1>3. recv[g].at = "gone" => recv'[g].at = "gone"
  <2>1. ASSUME NEW h \in Gen, ReceiveTask(h) \/ Cancelled(h)
        PROVE  recv[g].at = "gone" => recv'[g].at = "gone"
    BY <2>1, TaskMoves DEF ReceiveTask
  <2>2. ASSUME DialSucceeds
        PROVE  recv[g].at = "gone" => recv'[g].at = "gone"
    <3>1. recv' = [recv EXCEPT ![gen + 1].at = "reading"]
      BY <2>2 DEF DialSucceeds
    <3>2. g = gen + 1 => recv[g].at = "none"
      BY <1>1 DEF Asking
    <3>. QED
      BY <1>1, <3>1, <3>2 DEF Task
  <2>. QED
    BY <2>1, <2>2, Writers
<1>4. g \notin sending => g \notin sending' \/ (g > gen /\ recv[g].at = "none")
  <2>1. ASSUME DialSucceeds
        PROVE  sending' = sending \cup {gen + 1}
    BY <2>1 DEF DialSucceeds
  <2>2. ASSUME NEW h \in Gen, SendEnds(h)
        PROVE  sending' = sending \ {h}
    BY <2>2 DEF SendEnds
  <2>. QED
    BY <1>1, <2>1, <2>2, Writers DEF Asking
<1>5. g <= gen => ~(g > gen)
  BY <1>1 DEF Gen
<1>. QED
  BY <1>2, <1>3, <1>4, <1>5 DEF Hangs, Lost

\* A queue stays or takes one frame more.
LEMMA QueueStep ==
  ASSUME ClientInv, Entered, Local, NEW g \in Gen
  PROVE  out'[g] = out[g] \/ \E f \in Frame : out'[g] = Append(out[g], f)
<1>1. TypeOK /\ TypeOK'
  BY NextClient DEF ClientInv, Core, Next
<1>2. ASSUME NEW c \in Chan
      PROVE  out'[g] = out[g] \/ \E f \in Frame : out'[g] = Append(out[g], f)
  <2>1. Moved(c)
    BY ChannelStep
  <2>2. Mute(c) \/ UNCHANGED out \/ \E e \in Membership : Spoken(c, e)
    BY <1>1, <2>1, MovedShows DEF Moved, Hears, Membership
  <2>. QED
    BY <2>2 DEF Mute, Spoken
<1>3. CASE Chan = {}
  <2>1. out[g] \in Seq({}) /\ out'[g] \in Seq({})
    BY <1>1, <1>3 DEF TypeOK, Frame
  <2>2. \A s \in Seq({}) : s = <<>>
    OBVIOUS
  <2>. QED
    BY <2>1, <2>2
<1>. QED
  BY <1>2, <1>3

\* Every step keeps the types of the session.
LEMMA TypesStep ==
  ASSUME ClientInv, Entered, SessionTypes, [SessionNext]_sessionVars
  PROVE  SessionTypes'
<1>. USE DEF ClientInv, Core
<1>1. /\ out \in [Gen -> Seq(Frame)] /\ got \in [Chan -> Seq(Nat)] /\ heard \in [Chan -> Nat]
      /\ recv \in [Gen -> Task]
  BY Typed DEF TypeOK
<1>2. ASSUME Local, UNCHANGED <<written, member, owed>>
      PROVE  SessionTypes'
  <2>1. \A g \in Gen : Len(out[g]) <= Len(out'[g]) /\ Len(out[g]) \in Nat /\ Len(out'[g]) \in Nat
    BY <1>1, <1>2, QueueStep, AppendProperties, LenProperties
  <2>2. \A g \in Gen : written'[g] <= Len(out'[g])
    BY <1>2, <2>1 DEF SessionTypes
  <2>3. ASSUME NEW g \in Gen, Dispatch(g)
        PROVE  \A c \in Chan : Len(got[c]) <= Len(got'[c]) /\ Len(got'[c]) \in Nat
    <3>1. PICK d \in Chan : UNCHANGED got \/ got' = [got EXCEPT ![d] = Append(@, recv[g].msg)]
      BY <2>3, DispatchStep
    <3>2. recv[g].msg \in Nat
      BY <1>1 DEF Task
    <3>3. \A c \in Chan : got'[c] = got[c] \/ got'[c] = Append(got[c], recv[g].msg)
      BY <1>1, <3>1
    <3>4. \A c \in Chan : Len(got[c]) \in Nat /\ Len(Append(got[c], recv[g].msg)) = Len(got[c]) + 1
      BY <1>1, <3>2, AppendProperties, LenProperties
    <3>. QED
      BY <3>3, <3>4
  <2>4. \A c \in Chan : Len(got[c]) <= Len(got'[c]) /\ Len(got[c]) \in Nat /\ Len(got'[c]) \in Nat
    BY <1>1, <1>2, <2>3, Writers
  <2>5. ASSUME NEW d \in Chan, HandleMessage(d)
        PROVE  \A c \in Chan : heard'[c] <= Len(got[c]) /\ heard'[c] \in Nat
    <3>1. heard[d] < Len(got[d])
      BY <2>5 DEF HandleMessage
    <3>2. \/ heard' = [heard EXCEPT ![d] = @ + 1]
          \/ heard' = [heard EXCEPT ![d] = Len(got[d])]
      BY <2>5 DEF HandleMessage
    <3>. QED
      BY <1>1, <2>4, <3>1, <3>2 DEF SessionTypes
  <2>6. \A c \in Chan : heard'[c] <= Len(got[c]) /\ heard'[c] \in Nat
    BY <1>1, <1>2, <2>5, Writers DEF SessionTypes
  <2>7. \A c \in Chan : heard'[c] <= Len(got'[c])
    BY <2>4, <2>6
  <2>. QED
    BY <1>2, <2>2, <2>7 DEF SessionTypes
<1>3. ASSUME Apart, UNCHANGED <<written, member, owed>>
      PROVE  SessionTypes'
  BY <1>3 DEF SessionTypes, Apart, wireRest, chanVars, taskVars
<1>4. ASSUME NEW g \in Gen, Write(g)
      PROVE  SessionTypes'
  <2>1. /\ written[g] \in Nat /\ written[g] < Len(out[g]) /\ Len(out[g]) \in Nat
        /\ written' = [written EXCEPT ![g] = @ + 1]
    BY <1>1, <1>4 DEF Write, Queued, SessionTypes
  <2>2. out[g][written[g] + 1].from \in Chan
    <3>1. out[g] \in Seq(Frame) /\ written[g] + 1 \in 1..Len(out[g])
      BY <1>1, <2>1
    <3>2. out[g][written[g] + 1] \in Frame
      BY <3>1
    <3>. QED
      BY <3>2 DEF Frame
  <2>3. member' \in [Gen -> SUBSET Chan] /\ owed' \in [Gen -> SUBSET Chan]
    BY <1>4, <2>2 DEF Write, ServerTakes, SessionTypes, serverVars
  <2>4. UNCHANGED <<out, got, heard>>
    BY <1>4 DEF Write, vars, chanVars, taskVars
  <2>5. written' \in [Gen -> Nat] /\ \A h \in Gen : written'[h] <= Len(out[h])
    BY <2>1 DEF SessionTypes
  <2>. QED
    BY <2>3, <2>4, <2>5 DEF SessionTypes
<1>5. ASSUME NEW g \in Gen, ServerForgets(g) \/ \E c \in Chan : ServerConfirms(g, c)
      PROVE  SessionTypes'
  <2>1. /\ UNCHANGED <<out, got, heard, written>>
        /\ member' \in [Gen -> SUBSET Chan] /\ owed' \in [Gen -> SUBSET Chan]
    BY <1>5 DEF ServerForgets, ServerConfirms, Confirms, ServerSends, SessionTypes, vars, wireRest,
       chanVars, taskVars
  <2>. QED
    BY <2>1 DEF SessionTypes
<1>6. ASSUME NEW g \in Gen, \/ Heartbeat(g) \/ ServerAnswers(g) \/ ServerGarbles(g)
                            \/ \E c \in Chan : ServerTells(g, c)
      PROVE  UNCHANGED <<written, member, owed>>
  BY <1>6 DEF Heartbeat, ServerAnswers, ServerGarbles, ServerTells, serverVars
<1>7. UNCHANGED sessionVars => UNCHANGED <<written, member, owed>>
  BY DEF sessionVars, serverVars
<1>. QED
  BY <1>2, <1>3, <1>4, <1>5, <1>6, <1>7, StepKinds DEF SessionNext, serverVars

-----------------------------------------------------------------------------
(* Senders only get newer.                                                 *)

\* How a builder comes to its answers: those that are more than a word are the
\* sender of the actor and its token.
Told(c) ==
  \/ call'[c] = call[c] \/ BuildAsks(c) \/ BuildResumes(c) \/ call'[c].st = "refused"
  \/ /\ call'[c].st = "ok" /\ ClientActor
     /\ \/ call'[c].val = 0
        \/ call'[c].val = wsTx
        \/ inbox # <<>> /\ Head(inbox).by = c /\ Head(inbox).op \in {"GetAccessToken", "GetAccessTokenArc"}
\* A step of the client tells a builder in one of these ways.
LEMMA AnswerStep ==
  ASSUME ClientInv, Local, NEW c \in Chan
  PROVE  Told(c)
<1>. USE Parties DEF ClientInv, Core
<1>1. call \in [Party -> Call] /\ c \in Party /\ cur.by \in Party \cup {NoOne}
  BY Typed DEF ActorTyped, TypeOK, Request
<1>2. ASSUME UNCHANGED call
      PROVE  Told(c)
  BY <1>2 DEF Told
<1>3. ASSUME NEW p \in Party \cup {NoOne}, NEW v, call' = Gets(p, v)
      PROVE  call'[c] = call[c] \/ (p = c /\ call'[c].st = "ok" /\ call'[c].val = v)
  BY <1>1, <1>3 DEF Gets
<1>4. ASSUME Dies
      PROVE  Told(c)
  <2>1. call'[c] = IF \E r \in Range(inbox) \cup {cur} : r.by = c
                   THEN [st |-> "refused", val |-> 0] ELSE call[c]
    BY <1>1, <1>4 DEF Dies
  <2>. QED
    BY <2>1 DEF Told
<1>5. CASE ClientActor
  <2>1. ASSUME NEW op, NEW v, Reply(op, v), ~Dies
        PROVE  /\ inbox # <<>> /\ Head(inbox).op = op
               /\ call'[c] = call[c] \/ (Head(inbox).by = c /\ call'[c].st = "ok" /\ call'[c].val = v)
    BY <1>3, <2>1, TakesType DEF Reply, Takes
  <2>2. CASE HandleGetState \/ HandleGetWsTx \/ HandleAddChannel
    BY <1>4, <1>5, <2>1, <2>2 DEF HandleGetState, HandleGetWsTx, HandleAddChannel, Told
  <2>3. CASE HandleGetAccessToken
    BY <1>4, <1>5, <2>1, <2>3 DEF HandleGetAccessToken, Told
  <2>4. CASE Finishes
    BY <1>1, <1>3, <1>5, <2>4 DEF Finishes, Told
  <2>. QED
    BY <1>2, <1>4, <1>5, <2>2, <2>3, <2>4 DEF ClientActor, StartConnect, BuildRequest, DialFails,
       DialSucceeds, MarkOpen, LockToRebind, Rebind, Rejoin, ConnectDone, StartDisconnect, Leave,
       DisconnectDone, StartSetAccessToken, LockToReAuth, ReAuth, SetAccessTokenDone
<1>6. ASSUME NEW p \in Party, p # c, call' = Waits(p) \/ call' = [call EXCEPT ![p].st = "idle"]
             \/ call' = [call EXCEPT ![p] = [st |-> "refused", val |-> 0]]
      PROVE  Told(c)
  BY <1>1, <1>6 DEF Waits, Told
<1>7. ASSUME NEW g \in Gen, ReceiveTask(g) \/ Cancelled(g)
      PROVE  Told(c)
  <2>1. UNCHANGED call \/ call' = Waits(g) \/ call' = [call EXCEPT ![g].st = "idle"]
    BY <1>7 DEF ReceiveTask, ReadMessage, ReadPanics, ReadError, ReadEnd, AsksToConnect,
                Reconnected,
       LockToRoute, RecvPanics, Filter, FilterDone, Dispatch, DispatchDone, Cancelled, Orphans
  <2>. QED
    BY <1>2, <1>6, <2>1
<1>8. ASSUME NEW k \in Caller, Resume(k) \/ Abandon(k) \/ \E op \in AllOps : Ask(k, op)
      PROVE  Told(c)
  <2>1. \/ call' = Waits(k) \/ call' = [call EXCEPT ![k].st = "idle"]
        \/ call' = [call EXCEPT ![k] = [st |-> "refused", val |-> 0]]
    BY <1>8 DEF Resume, Abandon, Orphans, Ask, Posts
  <2>. QED
    BY <1>6, <2>1
<1>9. ASSUME NEW d \in Chan, BuildAsks(d) \/ BuildResumes(d)
      PROVE  Told(c)
  <2>1. \/ call' = Waits(d) \/ call' = [call EXCEPT ![d].st = "idle"]
        \/ call' = [call EXCEPT ![d] = [st |-> "refused", val |-> 0]]
    BY <1>9 DEF BuildAsks, BuildResumes, Posts
  <2>2. d \in Party
    OBVIOUS
  <2>3. d # c => Told(c)
    BY <1>6, <2>1, <2>2
  <2>. QED
    BY <1>9, <2>3 DEF Told
<1>10. ASSUME NEW d \in Chan, ChannelPanics(d) \/ \E op \in {"Subscribe", "Unsubscribe"} : HolderPosts(d, op)
       PROVE  UNCHANGED call
  BY <1>10, Zenon DEF ChannelPanics, HolderPosts
<1>11. CASE Environment
  BY <1>2, <1>8, <1>9, <1>10, <1>11 DEF Environment, ConnEnds, wireRest
<1>12. ASSUME \/ \E d \in Chan : ChannelTasks(d)
              \/ \E g \in Gen : SendEnds(g)
       PROVE  UNCHANGED call
  BY <1>12 DEF ChannelTasks, PerformSubscribe, PerformUnsubscribe, HandleMessage, channelRest, SendEnds
<1>. QED
  BY <1>2, <1>5, <1>7, <1>11, <1>12 DEF Local

\* Who changes what a builder has.
LEMMA BuildsAlone ==
  ASSUME ClientInv, Local, NEW c \in Chan
  PROVE  build'[c] = build[c] \/ BuildAsks(c) \/ BuildResumes(c)
<1>. USE DEF ClientInv, Core
<1>1. build \in [Chan -> [at : 0..6, tx : 0..MaxGen, tok : Nat]]
  BY DEF TypeOK
<1>2. ASSUME NEW d \in Chan, d # c, BuildAsks(d) \/ BuildResumes(d)
      PROVE  build'[c] = build[c]
  BY <1>1, <1>2 DEF BuildAsks, BuildResumes
<1>3. ASSUME \/ \E g \in Gen : ReceiveTask(g) \/ Cancelled(g) \/ SendEnds(g)
             \/ \E d \in Chan : ChannelTasks(d)
      PROVE  UNCHANGED build
  BY <1>3 DEF ReceiveTask, ReadMessage, ReadPanics, ReadError, ReadEnd, Reconnected,
              LockToRoute, RecvPanics,
     Filter, FilterDone, Dispatch, DispatchDone, taskRest, Cancelled, SendEnds, chanVars,
     ChannelTasks, PerformSubscribe, PerformUnsubscribe, HandleMessage, channelRest
<1>4. ASSUME NEW d \in Chan, ChannelPanics(d) \/ \E op \in {"Subscribe", "Unsubscribe"} : HolderPosts(d, op)
      PROVE  UNCHANGED build
  BY <1>4, Zenon DEF ChannelPanics, HolderPosts
<1>5. CASE Environment
  BY <1>2, <1>4, <1>5 DEF Environment, Resume, Abandon, Ask, ConnEnds, wireRest, chanVars
<1>. QED
  BY <1>3, <1>5, ActorKeeps DEF Local

\* The sender of the actor only gets newer.
LEMMA SenderGrows ==
  ASSUME ClientInv, Local
  PROVE  wsTx \in Nat /\ wsTx' \in Nat /\ wsTx <= wsTx'
<1>. USE DEF ClientInv, Core
<1>1. wsTx \in Nat /\ gen \in Nat
  BY ClientAssumption DEF TypeOK
<1>2. CASE MarkOpen
  BY <1>1, <1>2 DEF MarkOpen, Counters
<1>3. CASE ~MarkOpen
  <2>1. UNCHANGED wsTx
    BY <1>3, ActorKeeps, LoopsElsewhere DEF Next
  <2>. QED
    BY <1>1, <2>1
<1>. QED
  BY <1>2, <1>3

\* Every step keeps what builders and channels have no newer than that.
LEMMA OlderStep ==
  ASSUME ClientInv, Older, Entered, [SessionNext]_sessionVars
  PROVE  Older'
<1>. USE DEF ClientInv, Core
<1>1. CASE Apart
  <2>1. UNCHANGED <<call, build, wsTx, chan>>
    BY <1>1 DEF Apart, wireRest, actorVars, chanVars
  <2>2. \A c \in Chan : View!Live(c)' <=> View!Live(c)
    BY <2>1 DEF View!Live
  <2>. QED
    BY <2>1, <2>2 DEF Older
<1>2. CASE Local
  <2>. SUFFICES ASSUME NEW c \in Chan
                PROVE  /\ call'[c].st = "ok" /\ build'[c].at = 1 => call'[c].val <= wsTx'
                       /\ build'[c].at \in 2..5 \/ (build'[c].at = 1 /\ call'[c].st = "idle")
                            => build'[c].tx <= wsTx'
                       /\ View!Live(c)' => chan'[c].tx <= wsTx'
    BY DEF Older
  <2>. USE Parties
  <2>1. /\ wsTx \in Nat /\ wsTx' \in Nat /\ wsTx <= wsTx'
        /\ Core' /\ Asking /\ Asking'
    BY <1>2, SenderGrows, NextClient DEF Next
  <2>2. /\ build \in [Chan -> [at : 0..6, tx : 0..MaxGen, tok : Nat]] /\ call \in [Party -> Call]
        /\ call[c] \in Call /\ build[c] \in [at : 0..6, tx : 0..MaxGen, tok : Nat]
        /\ build[c].tx \in Nat /\ call[c].val \in Nat /\ inbox \in Seq(Request)
    <3>1. call \in [Party -> Call] /\ c \in Party
      BY Typed DEF ActorTyped
    <3>2. build \in [Chan -> [at : 0..6, tx : 0..MaxGen, tok : Nat]] /\ inbox \in Seq(Request)
      BY DEF TypeOK
    <3>3. call[c] \in Call /\ build[c] \in [at : 0..6, tx : 0..MaxGen, tok : Nat]
      BY <3>1, <3>2
    <3>4. build[c].tx \in 0..MaxGen /\ call[c].val \in Nat
      BY <3>3 DEF Call
    <3>. QED
      BY <3>1, <3>2, <3>3, <3>4, ClientAssumption
  <2>3. Builder(c) /\ Builder(c)' /\ Told(c) /\ (build'[c] = build[c] \/ BuildAsks(c) \/ BuildResumes(c))
    BY <1>2, <2>1, AnswerStep, BuildsAlone DEF Asking
  <2>4. ASSUME BuildAsks(c)
        PROVE  /\ call[c].st = "idle" /\ build[c].at \in 0..3
               /\ build'[c].at = build[c].at + 1 /\ build'[c].tx = build[c].tx
               /\ call'[c].st \in {"waiting", "refused"}
    <3>1. call' = Waits(c) \/ call' = [call EXCEPT ![c] = [st |-> "refused", val |-> 0]]
      BY <2>4 DEF BuildAsks, Posts
    <3>. QED
      BY <2>2, <2>4, <3>1 DEF BuildAsks, Waits
  <2>5. ASSUME BuildResumes(c)
        PROVE  /\ call[c].st \in {"ok", "refused"} /\ call'[c].st = "idle" /\ build[c].at \in 1..4
               /\ build'[c].tx = IF build[c].at = 1 THEN call[c].val ELSE build[c].tx
               /\ build'[c].at = IF call[c].st = "refused" THEN 6
                                 ELSE IF build[c].at = 4 THEN 5 ELSE build[c].at
    <3>1. call' = [call EXCEPT ![c].st = "idle"]
      BY <2>5 DEF BuildResumes
    <3>2. call[c].st \in {"ok", "refused"} /\ build[c].at \in 1..4
      BY <2>3, <2>5 DEF BuildResumes, Builder
    <3>. QED
      BY <2>2, <2>5, <3>1, <3>2 DEF BuildResumes, Call
  <2>6. call'[c].st = "ok" /\ build'[c].at = 1 => call'[c].val <= wsTx'
    <3>. SUFFICES ASSUME call'[c].st = "ok", build'[c].at = 1
                  PROVE  call'[c].val <= wsTx'
      OBVIOUS
    <3>1. build'[c] = build[c] /\ ~BuildAsks(c) /\ ~BuildResumes(c)
      BY <2>3, <2>4, <2>5
    <3>2. call'[c].val # 0
      BY <2>3 DEF Builder, Gen
    <3>3. ASSUME inbox # <<>>, Head(inbox).by = c
          PROVE  Head(inbox).op = "GetWsTx"
      <4>1. 1 \in DOMAIN inbox /\ Head(inbox) = inbox[1]
        BY <2>2, <3>3, TailFacts
      <4>. QED
        BY <2>3, <3>1, <3>3, <4>1, OpsAre DEF Builder
    <3>4. CASE call'[c] = call[c]
      BY <2>1, <2>2, <3>1, <3>4 DEF Older
    <3>5. CASE call'[c].val = wsTx
      BY <2>1, <3>5
    <3>. QED
      BY <2>3, <3>1, <3>2, <3>3, <3>4, <3>5 DEF Told
  <2>7. build'[c].at \in 2..5 \/ (build'[c].at = 1 /\ call'[c].st = "idle") => build'[c].tx <= wsTx'
    <3>1. CASE BuildAsks(c)
      <4>1. build'[c].at \in 2..5 => build[c].at \in 2..5 \/ (build[c].at = 1 /\ call[c].st = "idle")
        BY <2>4, <3>1
      <4>2. build'[c].at \in 2..5 => build[c].tx <= wsTx
        BY <4>1 DEF Older
      <4>. QED
        BY <2>1, <2>2, <2>4, <3>1, <4>2
    <3>2. CASE BuildResumes(c)
      <4>1. call[c].st = "ok" /\ build[c].at = 1 => call[c].val <= wsTx
        BY DEF Older
      <4>2. build[c].at \in 2..4 => build[c].tx <= wsTx
        BY DEF Older
      <4>. QED
        BY <2>1, <2>2, <2>5, <3>2, <4>1, <4>2
    <3>3. CASE build'[c] = build[c] /\ ~BuildAsks(c) /\ ~BuildResumes(c)
      <4>1. call'[c].st = "idle" => call[c].st = "idle"
        BY <2>3, <3>3 DEF Told
      <4>. QED
        BY <2>1, <2>2, <3>3, <4>1 DEF Older
    <3>. QED
      BY <2>3, <3>1, <3>2, <3>3
  <2>8. View!Live(c)' => chan'[c].tx <= wsTx'
    <3>. SUFFICES ASSUME View!Live(c)' PROVE chan'[c].tx <= wsTx'
      OBVIOUS
    <3>1. chan'[c].tx \in Gen
      <4>1. chan'[c] \in View!Shown \cup {View!Unbuilt, View!Broken}
        BY <2>1 DEF TypeOK
      <4>2. chan'[c].st \in View!LiveStates
        BY DEF View!Live
      <4>. QED
        BY <4>1, <4>2 DEF View!Shown, View!Unbuilt, View!Broken, View!LiveStates
    <3>2. ASSUME View!Live(c), chan'[c].tx = chan[c].tx
          PROVE  chan'[c].tx <= wsTx'
      BY <2>1, <3>1, <3>2 DEF Older, Gen
    <3>3. CASE Stays(c)
      BY <3>2, <3>3 DEF Stays, View!Live
    <3>4. CASE View!Built(c, build[c].tx, build[c].tok) /\ build[c].at = 3
      <4>1. chan'[c].tx = build[c].tx
        BY <3>4, MovedShows
      <4>2. build[c].tx <= wsTx
        BY <3>4 DEF Older
      <4>. QED
        BY <2>1, <2>2, <4>1, <4>2
    <3>5. CASE View!Rebinds(c, wsTx)
      <4>1. chan'[c].tx = wsTx
        BY <3>5, MovedShows
      <4>. QED
        BY <2>1, <4>1
    <3>6. ASSUME View!Breaks(c)
          PROVE  FALSE
      BY <3>6, MovedShows DEF View!Live, View!LiveStates
    <3>7. Moved(c)
      BY <1>2, ChannelStep
    <3>8. CASE PerformSubscribe(c) \/ LeavesNow(c) \/ Hears(c)
      BY <3>2, <3>8, MovedShows DEF Hears
    <3>. QED
      BY <3>3, <3>4, <3>5, <3>6, <3>7, <3>8 DEF Moved
  <2>. QED
    BY <2>6, <2>7, <2>8
<1>. QED
  BY <1>1, <1>2, StepKinds

-----------------------------------------------------------------------------
(* Frames come from channels that have begun, over connections of their time. *)

\* A frame of c is one that was there, or it is on the connection of c.
LEMMA FramesOld ==
  ASSUME TypeOK, NEW c \in Chan, NEW g \in Gen, NEW i \in DOMAIN out'[g], Says(c, out'[g][i]),
         Mute(c) \/ UNCHANGED out \/ \E e \in Membership : Spoken(c, e)
  PROVE  \/ i \in DOMAIN out[g] /\ Says(c, out[g][i])
         \/ g = chan[c].tx /\ ~Mute(c)
<1>1. out[g] \in Seq(Frame)
  BY DEF TypeOK
<1>2. ASSUME NEW f \in Frame, ~Says(c, f), out'[g] = Append(out[g], f)
      PROVE  i \in DOMAIN out[g] /\ Says(c, out[g][i])
  BY <1>1, <1>2, AppendFacts
<1>3. Mute(c) \/ UNCHANGED out => i \in DOMAIN out[g] /\ Says(c, out[g][i])
  BY <1>2 DEF Mute
<1>4. ASSUME NEW e \in Membership, Spoken(c, e), g # chan[c].tx
      PROVE  i \in DOMAIN out[g] /\ Says(c, out[g][i])
  BY <1>4 DEF Spoken
<1>. QED
  BY <1>3, <1>4

\* What the confirmations that are handled say.
LEMMA HearsBegun ==
  ASSUME ClientInv, Confirming, NEW c \in Chan, Hears(c)
  PROVE  Begun(c)
<1>1. PICK n : n = heard[c] + 1
  OBVIOUS
<1>2. n \in DOMAIN got[c] /\ sent[got[c][n]].re = c
  BY <1>1 DEF Hears, ClientInv, Core, TypeOK
<1>3. got[c][n] \in DOMAIN sent
  BY <1>2 DEF ClientInv, Ordered, Given
<1>. QED
  BY <1>2, <1>3 DEF Confirming

\* Whoever has begun does not go back to not having begun.
LEMMA BegunStays ==
  ASSUME ClientInv, Entered, [SessionNext]_sessionVars, NEW c \in Chan, Begun(c)
  PROVE  Begun(c)'
<1>1. CASE Apart
  BY <1>1 DEF Apart, wireRest, chanVars, Begun
<1>2. CASE Local
  <2>1. Moved(c)
    BY <1>2, ChannelStep
  <2>. QED
    BY <2>1, MovedShows DEF Moved, Hears, Stays, Begun, ClientInv, Core
<1>. QED
  BY <1>1, <1>2, StepKinds

\* A step apart from the client does nothing to the channels.
LEMMA ApartChannels ==
  ASSUME Apart
  PROVE  /\ UNCHANGED <<chan, out, mail, channels, sending, stream, recv>>
         /\ UNCHANGED <<got, deaf, heard, pc, todo, wsTx, gen>>
         /\ \A c \in Chan : /\ View!Live(c)' <=> View!Live(c)
                            /\ Begun(c)' <=> Begun(c)
                            /\ Member(c)' <=> Member(c)
                            /\ \A e : Spoke(c, e)' <=> Spoke(c, e)
<1>1. /\ UNCHANGED <<chan, out, mail, channels, sending, stream, recv>>
      /\ UNCHANGED <<got, deaf, heard, pc, todo, wsTx, gen, build, call>>
  BY DEF Apart, wireRest, actorVars, sharedVars, chanVars, taskVars
<1>2. ASSUME NEW c \in Chan
      PROVE  /\ View!Live(c)' <=> View!Live(c)
             /\ Begun(c)' <=> Begun(c)
             /\ Member(c)' <=> Member(c)
  BY <1>1 DEF View!Live, Begun, Member
<1>3. ASSUME NEW c \in Chan, NEW e
      PROVE  Spoke(c, e)' <=> Spoke(c, e)
  BY <1>1 DEF Spoke
<1>. QED
  BY <1>1, <1>2, <1>3

\* Every step keeps the frames behind.
LEMMA BehindStep ==
  ASSUME ClientInv, Older, Behind, Confirming, Entered, [SessionNext]_sessionVars
  PROVE  Behind'
<1>. USE DEF ClientInv, Core
<1>1. CASE Apart
  BY <1>1, ApartChannels DEF Behind
<1>2. CASE Local
  <2>. SUFFICES ASSUME NEW c \in Chan, NEW g \in Gen, NEW i \in DOMAIN out'[g], Says(c, out'[g][i])
                PROVE  Begun(c)' /\ (View!Live(c)' => g <= chan'[c].tx)
    BY DEF Behind
  <2>1. Moved(c) /\ (View!Live(c) => chan[c].tx \in Gen)
    BY <1>2, ChannelStep, LiveShown DEF View!Shown
  <2>2. ASSUME i \in DOMAIN out[g], Says(c, out[g][i])
        PROVE  Begun(c) /\ (View!Live(c) => g <= chan[c].tx)
    BY <2>2 DEF Behind
  <2>3. CASE Stays(c) /\ Mute(c)
    BY <2>2, <2>3, FramesOld DEF Stays, Begun, View!Live
  <2>4. CASE PerformSubscribe(c) \/ LeavesNow(c)
    <3>1. /\ View!Live(c) /\ chan'[c].st \in {"Joining", "Leaving"} /\ chan'[c].tx = chan[c].tx
          /\ UNCHANGED out \/ \E e \in Membership : Spoken(c, e)
      BY <2>4, MovedShows DEF Membership
    <3>2. g <= chan[c].tx
      BY <2>1, <2>2, <3>1, FramesOld DEF Gen
    <3>. QED
      BY <3>1, <3>2 DEF Begun
  <2>5. CASE Hears(c) \/ (View!Breaks(c) /\ UNCHANGED out)
    BY <2>2, <2>5, MovedShows DEF Hears, Begun, View!Live, View!LiveStates
  <2>6. CASE View!Built(c, build[c].tx, build[c].tok) /\ UNCHANGED out
    BY <2>2, <2>6, MovedShows DEF Begun
  <2>7. CASE View!Rebinds(c, wsTx) /\ UNCHANGED out
    <3>1. View!Live(c) /\ chan'[c].st = chan[c].st /\ chan'[c].tx = wsTx
      BY <2>7, MovedShows
    <3>2. chan[c].tx <= wsTx /\ wsTx \in Nat
      BY <3>1, ClientAssumption DEF Older, TypeOK
    <3>3. Begun(c) /\ g <= chan[c].tx /\ g \in Nat /\ chan[c].tx \in Nat
      BY <2>1, <2>2, <2>7, <3>1 DEF Gen
    <3>. QED
      BY <3>1, <3>2, <3>3 DEF Begun
  <2>. QED
    BY <2>1, <2>3, <2>4, <2>5, <2>6, <2>7 DEF Moved
<1>. QED
  BY <1>1, <1>2, StepKinds

\* Every step keeps that a join shows.
LEMMA JoinShowsStep ==
  ASSUME ClientInv, Older, Behind, Entered, JoinShows, [SessionNext]_sessionVars
  PROVE  JoinShows'
<1>. USE DEF ClientInv, Core
<1>1. CASE Apart
  BY <1>1, ApartChannels DEF JoinShows
<1>2. CASE Local
  <2>. SUFFICES ASSUME NEW c \in Chan, View!Live(c)', Spoke(c, "phx_join")'
                PROVE  chan'[c].st \in {"Joining", "Joined"}
    BY DEF JoinShows
  <2>1. Moved(c)
    BY <1>2, ChannelStep
  <2>2. View!Live(c) /\ Spoke(c, "phx_join") => chan[c].st \in {"Joining", "Joined"}
    BY DEF JoinShows
  <2>3. CASE Stays(c) /\ Mute(c)
    BY <2>2, <2>3, MuteSpoke DEF Stays, Membership, View!Live
  <2>4. CASE PerformSubscribe(c) \/ Hears(c)
    BY <2>4, MovedShows DEF Hears
  <2>5. CASE LeavesNow(c)
    BY <2>5, MovedShows, SpokenSpoke DEF Membership
  <2>6. CASE View!Breaks(c)
    BY <2>6, MovedShows DEF View!Live, View!LiveStates
  <2>7. CASE View!Built(c, build[c].tx, build[c].tok) /\ UNCHANGED out
    <3>1. chan'[c].tx \in Gen /\ ~Begun(c)
      <4>1. TypeOK'
        BY <1>2, NextClient DEF Next
      <4>2. chan'[c] \in View!Shown \cup {View!Unbuilt, View!Broken}
        BY <4>1 DEF TypeOK
      <4>. QED
        BY <2>7, <4>2, MovedShows DEF Begun, View!Shown, View!Unbuilt, View!Broken
    <3>2. PICK h \in Gen : h = chan'[c].tx
      BY <3>1
    <3>3. LastIn(out[h], c, Len(out[h]), "phx_join")
      BY <2>7, <3>2 DEF Spoke
    <3>4. PICK i \in 1..Len(out[h]) : out[h][i].from = c /\ out[h][i].event = "phx_join"
      BY <3>3 DEF LastIn
    <3>5. i \in DOMAIN out[h] /\ Says(c, out[h][i])
      BY <3>4 DEF TypeOK, Says
    <3>. QED
      BY <3>1, <3>5 DEF Behind
  <2>8. CASE View!Rebinds(c, wsTx) /\ UNCHANGED out
    BY <2>2, <2>8, MovedShows, ReboundSpoke DEF Membership
  <2>. QED
    BY <2>1, <2>3, <2>4, <2>5, <2>6, <2>7, <2>8 DEF Moved
<1>. QED
  BY <1>1, <1>2, StepKinds

-----------------------------------------------------------------------------
(* What is posted to a channel, and whom the loops of the actor visit.      *)

\* The ways for a step to change what is posted to c.
Posted(c) ==
  \/ mail'[c] = mail[c]
  \/ /\ Rejoin /\ c = Head(todo) /\ mail'[c] = Append(mail[c], "Subscribe")
  \/ /\ \E op \in {"Subscribe", "Unsubscribe"} : mail'[c] = Append(mail[c], op)
     /\ Member(c) /\ UNCHANGED <<chan, out, pc, todo>>
  \/ /\ mail[c] # <<>> /\ mail'[c] = Tail(mail[c])
     /\ PerformSubscribe(c) \/ Head(mail[c]) = "Unsubscribe"
  \/ mail'[c] = <<>> /\ View!Breaks(c)
\* A step of the client posts to c, and takes from it, in one of these ways.
LEMMA MailStep ==
  ASSUME ClientInv, Local, NEW c \in Chan
  PROVE  Posted(c)
<1>. USE DEF ClientInv, Core
<1>1. mail \in [Chan -> Seq({"Subscribe", "Unsubscribe"})]
  BY DEF TypeOK
<1>2. ASSUME UNCHANGED mail
      PROVE  Posted(c)
  BY <1>2 DEF Posted
<1>3. ASSUME NEW d \in Chan, NEW m, mail' = [mail EXCEPT ![d] = m], d # c
      PROVE  Posted(c)
  BY <1>1, <1>3 DEF Posted
<1>4. CASE ClientActor
  <2>1. CASE Rejoin
    <3>1. Head(todo) \in Chan
      BY <2>1, VisitsType DEF Counters, Rejoin
    <3>2. PICK d \in Chan : d = Head(todo)
      BY <3>1
    <3>3. UNCHANGED mail \/ mail' = [mail EXCEPT ![d] = Append(@, "Subscribe")]
      BY <2>1, <3>2 DEF Rejoin, PostsSubscribe
    <3>4. CASE d = c /\ ~UNCHANGED mail
      <4>1. mail'[c] = Append(mail[c], "Subscribe")
        BY <1>1, <3>3, <3>4
      <4>. QED
        BY <2>1, <3>2, <3>4, <4>1 DEF Posted
    <3>. QED
      BY <1>2, <1>3, <3>3, <3>4
  <2>2. CASE ~Rejoin
    <3>1. UNCHANGED mail
      BY <1>4, <2>2 DEF ClientActor, HandleGetState, HandleGetAccessToken, HandleGetWsTx, HandleAddChannel,
       StartConnect, BuildRequest, DialFails, DialSucceeds, MarkOpen, LockToRebind, Rebind,
       ConnectDone, StartDisconnect, Leave, DisconnectDone, StartSetAccessToken, LockToReAuth, ReAuth,
       SetAccessTokenDone, chanVars
    <3>. QED
      BY <1>2, <3>1
  <2>. QED
    BY <2>1, <2>2
<1>5. ASSUME NEW g \in Gen, ReceiveTask(g) \/ SendEnds(g)
      PROVE  UNCHANGED mail
  BY <1>5 DEF ReceiveTask, ReadMessage, ReadPanics, ReadError, ReadEnd, Reconnected,
              LockToRoute, RecvPanics,
     Filter, FilterDone, Dispatch, DispatchDone, taskRest, SendEnds, chanVars
<1>6. ASSUME NEW d \in Chan, View!Breaks(d), mail' = [mail EXCEPT ![d] = <<>>]
      PROVE  Posted(c)
  <2>1. d = c => mail'[c] = <<>>
    BY <1>1, <1>6
  <2>. QED
    BY <1>3, <1>6, <2>1 DEF Posted
<1>7. ASSUME NEW g \in Gen, Cancelled(g)
      PROVE  Posted(c)
  <2>1. CASE UNCHANGED mail
    BY <1>2, <2>1
  <2>2. CASE ~UNCHANGED mail
    <3>1. PICK d : d = Head(recv[g].scan)
      OBVIOUS
    <3>2. recv[g].scan # <<>> /\ View!Breaks(d) /\ mail' = [mail EXCEPT ![d] = <<>>]
      BY <1>7, <2>2, <3>1 DEF Cancelled
    <3>3. recv[g].scan \in Seq(Chan)
      BY Typed DEF Task
    <3>4. d \in Chan
      BY <3>1, <3>2, <3>3, HeadTailProperties
    <3>. QED
      BY <1>6, <3>2, <3>4
  <2>. QED
    BY <2>1, <2>2
<1>8. ASSUME NEW d \in Chan, ChannelTasks(d)
      PROVE  Posted(c)
  <2>1. CASE PerformSubscribe(d) \/ PerformUnsubscribe(d)
    <3>1. /\ mail[d] # <<>> /\ mail' = [mail EXCEPT ![d] = Tail(@)]
          /\ PerformSubscribe(d) \/ Head(mail[d]) = "Unsubscribe"
      BY <2>1 DEF PerformSubscribe, PerformUnsubscribe
    <3>2. d = c => mail'[c] = Tail(mail[c])
      BY <1>1, <3>1
    <3>. QED
      BY <1>3, <3>1, <3>2 DEF Posted
  <2>2. CASE HandleMessage(d)
    BY <1>2, <2>2 DEF HandleMessage
  <2>. QED
    BY <1>8, <2>1, <2>2 DEF ChannelTasks
<1>9. ASSUME NEW d \in Chan, NEW op \in {"Subscribe", "Unsubscribe"}, HolderPosts(d, op)
      PROVE  Posted(c)
  <2>1. /\ mail' = [mail EXCEPT ![d] = Append(@, op)] /\ build[d].at = 5
        /\ UNCHANGED <<chan, out, pc, todo>>
    BY <1>9, Zenon DEF HolderPosts, callerRest
  <2>2. Member(d)
    BY <2>1 DEF Member, Asking, Builder
  <2>3. d = c => mail'[c] = Append(mail[c], op)
    BY <1>1, <2>1
  <2>. QED
    BY <1>3, <2>1, <2>2, <2>3 DEF Posted
<1>10. ASSUME NEW d \in Chan, ChannelPanics(d)
       PROVE  Posted(c)
  <2>1. View!Breaks(d) /\ mail' = [mail EXCEPT ![d] = <<>>]
    BY <1>10, Zenon DEF ChannelPanics
  <2>. QED
    BY <1>6, <2>1
<1>11. CASE Environment
  <2>1. ASSUME NEW k \in Caller, Resume(k) \/ Abandon(k) \/ \E op \in AllOps : Ask(k, op)
        PROVE  UNCHANGED mail
    BY <2>1 DEF Resume, Abandon, Ask, callerRest, chanVars
  <2>2. ASSUME NEW d \in Chan, BuildAsks(d) \/ BuildResumes(d)
        PROVE  UNCHANGED mail
    BY <2>2 DEF BuildAsks, BuildResumes
  <2>3. ASSUME NEW g \in Gen, NEW how \in {"err", "ended"}, ConnEnds(g, how)
        PROVE  UNCHANGED mail
    BY <2>3 DEF ConnEnds, wireRest, chanVars
  <2>. QED
    BY <1>2, <1>9, <1>10, <1>11, <2>1, <2>2, <2>3 DEF Environment
<1>. QED
  BY <1>2, <1>4, <1>5, <1>7, <1>8, <1>11 DEF Local

\* A loop goes on with the rest, begins with the list, or ends.
LEMMA TodoStep ==
  ASSUME ClientInv, Local
  PROVE  \/ UNCHANGED todo
         \/ todo # <<>> /\ todo' = Tail(todo)
         \/ todo' = channels \/ todo' = <<>>
<1>1. CASE ClientActor
  <2>1. ASSUME NEW op, NEW v, Reply(op, v)
        PROVE  UNCHANGED todo \/ todo' = <<>>
    BY <2>1 DEF Reply, Dies
  <2>2. CASE HandleGetState \/ HandleGetAccessToken \/ HandleGetWsTx \/ HandleAddChannel
    BY <2>1, <2>2 DEF HandleGetState, HandleGetAccessToken, HandleGetWsTx, HandleAddChannel, Dies
  <2>3. CASE Rebind \/ Leave \/ ReAuth
    BY <2>3 DEF Rebind, Leave, ReAuth, Visits, Dies
  <2>4. CASE Rejoin
    BY <2>4 DEF Rejoin, ClientInv, Core, Counters
  <2>. QED
    BY <1>1, <2>2, <2>3, <2>4 DEF ClientActor,
       StartConnect, BuildRequest, DialFails, DialSucceeds, MarkOpen, LockToRebind,
       ConnectDone, StartDisconnect, DisconnectDone, StartSetAccessToken, LockToReAuth,
       SetAccessTokenDone, LocksList, Dies
<1>. QED
  BY <1>1, LoopsElsewhere DEF Next

\* Every step keeps that only registered channels are subscribed and visited.
LEMMA EnteredStep ==
  ASSUME ClientInv, Confirming, Entered, [SessionNext]_sessionVars
  PROVE  Entered'
<1>. USE DEF ClientInv, Core
<1>1. CASE Apart
  <2>1. todo' = todo /\ mail' = mail
    BY <1>1, ApartChannels
  <2>2. todo \in Seq(Chan)
    BY DEF TypeOK
  <2>3. \A c \in Range(todo) : c \in Chan
    BY <2>2, RangeType
  <2>. QED
    BY <1>1, <2>1, <2>3, ApartChannels DEF Entered
<1>2. CASE Local
  <2>1. \A c \in Chan : Member(c) => Member(c)'
    BY <1>2, MemberStep DEF Next
  <2>2. ASSUME NEW c \in Chan, Begun(c)'
        PROVE  Member(c)'
    <3>1. Moved(c)
      BY <1>2, ChannelStep
    <3>2. CASE Stays(c)
      BY <2>1, <2>2, <3>2 DEF Stays, Begun, Entered
    <3>3. CASE PerformSubscribe(c)
      BY <2>1, <3>3 DEF PerformSubscribe, Entered
    <3>4. CASE LeavesNow(c)
      <4>1. Begun(c)
        BY <3>4, MovedShows DEF Begun, View!Live, View!LiveStates
      <4>. QED
        BY <2>1, <4>1 DEF Entered
    <3>5. CASE Hears(c)
      BY <2>1, <3>5, HearsBegun DEF Entered
    <3>6. CASE View!Built(c, build[c].tx, build[c].tok)
      BY <2>2, <3>6, MovedShows DEF Begun
    <3>7. CASE View!Rebinds(c, wsTx)
      BY <2>1, <2>2, <3>7, MovedShows DEF Begun, Entered
    <3>. QED
      BY <2>1, <3>1, <3>2, <3>3, <3>4, <3>5, <3>6, <3>7 DEF Moved
  <2>3. ASSUME NEW c \in Chan, mail'[c] # <<>>
        PROVE  Member(c)'
    <3>1. mail[c] # <<>> \/ Member(c) \/ (Rejoin /\ c = Head(todo))
      BY <1>2, <2>3, MailStep DEF Posted
    <3>2. Rejoin /\ c = Head(todo) => c \in Range(todo)
      <4>1. ASSUME Rejoin, c = Head(todo)
            PROVE  c \in Range(todo)
        BY <4>1, TailList DEF Rejoin, Counters, TypeOK
      <4>. QED
        BY <4>1
    <3>. QED
      BY <2>1, <3>1, <3>2 DEF Entered
  <2>4. ASSUME NEW c \in Range(todo')
        PROVE  Member(c)'
    <3>1. todo \in Seq(Chan) /\ channels \in Seq(Chan)
      BY DEF TypeOK
    <3>2. c \in Range(todo) \/ c \in Range(channels)
      BY <1>2, <2>4, <3>1, TodoStep, TailList, EmptyList
    <3>3. c \in Chan /\ Member(c)
      BY <3>1, <3>2, RangeType DEF Entered, Listing
    <3>. QED
      BY <2>1, <3>3
  <2>. QED
    BY <2>2, <2>3, <2>4 DEF Entered
<1>. QED
  BY <1>1, <1>2, StepKinds

-----------------------------------------------------------------------------
(* What the server holds and confirms.                                     *)

\* Every step keeps that only joins of channels that have begun are confirmed.
LEMMA ConfirmingStep ==
  ASSUME ClientInv, Behind, Confirming, Entered, [SessionNext]_sessionVars
  PROVE  Confirming'
<1>. USE DEF ClientInv, Core
<1>1. \A c \in Chan : Begun(c) => Begun(c)'
  BY BegunStays
<1>2. ASSUME UNCHANGED sent
      PROVE  Confirming'
  BY <1>1, <1>2 DEF Confirming
<1>3. ASSUME NEW g \in Gen, NEW t, NEW re, ServerSends(g, t, re),
             re \in Chan => Begun(re) /\ t = TopicOf[re]
      PROVE  Confirming'
  <2>1. PICK e : e = [conn |-> g, topic |-> t, re |-> re]
    OBVIOUS
  <2>2. sent \in Seq(Message) /\ sent' = Append(sent, e) /\ e.re = re /\ e.topic = t
    BY <1>3, <2>1 DEF ServerSends, TypeOK
  <2>3. DOMAIN sent' = DOMAIN sent \cup {Len(sent) + 1} /\ sent'[Len(sent) + 1] = e
        /\ \A i \in DOMAIN sent : sent'[i] = sent[i]
    BY <2>2, AppendFacts
  <2>. QED
    BY <1>1, <1>3, <2>2, <2>3 DEF Confirming
<1>4. NoOne \notin Chan
  BY ClientAssumption
<1>5. ASSUME NEW g \in Gen, NEW c \in Chan, ServerConfirms(g, c)
      PROVE  Confirming'
  <2>1. PICK i \in DOMAIN out[g] : out[g][i].event = "phx_join" /\ out[g][i].from = c
    BY <1>5 DEF ServerConfirms, Confirms
  <2>2. Begun(c)
    BY <2>1 DEF Behind, Says
  <2>. QED
    BY <1>3, <1>5, <2>2 DEF ServerConfirms, Confirms
<1>6. ASSUME NEW g \in Gen, \/ ServerAnswers(g) \/ ServerGarbles(g)
                            \/ \E c \in Chan : ServerTells(g, c)
      PROVE  Confirming'
  BY <1>3, <1>4, <1>6 DEF ServerAnswers, ServerGarbles, ServerTells
<1>7. ASSUME NEW g \in Gen, Write(g) \/ Heartbeat(g) \/ ServerForgets(g)
      PROVE  UNCHANGED sent
  BY <1>7 DEF Write, Heartbeat, ServerForgets, vars
<1>. QED
  BY <1>2, <1>5, <1>6, <1>7, Writers DEF SessionNext, sessionVars, vars

\* Every step keeps that the server holds those that were the last to join.
LEMMA HeldStep ==
  ASSUME ClientInv, SessionTypes, Held, Entered, [SessionNext]_sessionVars
  PROVE  Held'
<1>. USE DEF ClientInv, Core
<1>. SUFFICES ASSUME NEW g \in Gen, NEW c \in Chan, ~Hangs(g)'
              PROVE  c \in member'[g] <=> LastIn(out'[g], c, written'[g], "phx_join")
  BY DEF Held
<1>1. /\ out[g] \in Seq(Frame) /\ Len(out[g]) \in Nat
      /\ written[g] \in Nat /\ written[g] \in 0..Len(out[g])
      /\ member \in [Gen -> SUBSET Chan] /\ written \in [Gen -> Nat]
  BY DEF TypeOK, SessionTypes
<1>2. ~Hangs(g) => (c \in member[g] <=> LastIn(out[g], c, written[g], "phx_join"))
  BY DEF Held
<1>3. ASSUME Local, UNCHANGED <<written, member, owed>>
      PROVE  c \in member'[g] <=> LastIn(out'[g], c, written'[g], "phx_join")
  <2>1. ~Hangs(g)
    BY <1>3, LossesStay
  <2>2. out'[g] = out[g] \/ \E f \in Frame : out'[g] = Append(out[g], f)
    BY <1>3, QueueStep
  <2>3. LastIn(out'[g], c, written[g], "phx_join") <=> LastIn(out[g], c, written[g], "phx_join")
    <3>1. ASSUME NEW f \in Frame, out'[g] = Append(out[g], f)
          PROVE  LastIn(out'[g], c, written[g], "phx_join") <=> LastIn(out[g], c, written[g], "phx_join")
      <4>1. LastIn(Append(out[g], f), c, written[g], "phx_join")
              <=> LastIn(out[g], c, written[g], "phx_join")
        BY <1>1, LastGrows
      <4>. QED
        BY <3>1, <4>1
    <3>. QED
      BY <2>2, <3>1
  <2>. QED
    BY <1>2, <1>3, <2>1, <2>3
<1>4. ASSUME UNCHANGED <<out, sending, stream, recv>>, written'[g] = written[g], member'[g] = member[g]
      PROVE  c \in member'[g] <=> LastIn(out'[g], c, written'[g], "phx_join")
  <2>1. ~Hangs(g)
    BY <1>4 DEF Hangs
  <2>. QED
    BY <1>2, <1>4, <2>1
<1>5. ASSUME Apart
      PROVE  UNCHANGED <<out, sending, stream, recv>>
  BY <1>5, ApartChannels
<1>6. ASSUME NEW h \in Gen, Write(h)
      PROVE  c \in member'[g] <=> LastIn(out'[g], c, written'[g], "phx_join")
  <2>1. PICK f : f = out[h][written[h] + 1]
    OBVIOUS
  <2>2. /\ UNCHANGED <<out, sending, stream, recv>>
        /\ written' = [written EXCEPT ![h] = @ + 1] /\ written[h] < Len(out[h])
        /\ ServerTakes(h, f)
    BY <1>6, <2>1 DEF Write, Queued, vars, chanVars, connVars
  <2>3. CASE h # g
    <3>1. written'[g] = written[g] /\ member'[g] = member[g]
      BY <1>1, <2>2, <2>3 DEF ServerTakes, serverVars
    <3>. QED
      BY <1>4, <2>2, <3>1
  <2>4. CASE h = g
    <3>1. ~Hangs(g)
      BY <2>2 DEF Hangs
    <3>2. written'[g] = written[g] + 1 /\ out'[g] = out[g]
      BY <1>1, <2>2, <2>4
    <3>3. LastIn(out[g], c, written[g] + 1, "phx_join") <=>
            IF Says(c, f) THEN f.event = "phx_join" ELSE LastIn(out[g], c, written[g], "phx_join")
      BY <1>1, <2>1, <2>2, <2>4, LastNext DEF Membership
    <3>4. CASE f.event = "phx_join"
      <4>1. member'[g] = member[g] \cup {f.from}
        BY <1>1, <2>2, <2>4, <3>4 DEF ServerTakes
      <4>. QED
        BY <1>2, <3>1, <3>2, <3>3, <3>4, <4>1 DEF Says
    <3>5. CASE f.event = "phx_leave"
      <4>1. member'[g] = member[g] \ {f.from}
        BY <1>1, <2>2, <2>4, <3>5 DEF ServerTakes
      <4>. QED
        BY <1>2, <3>1, <3>2, <3>3, <3>5, <4>1 DEF Says
    <3>6. CASE f.event = "access_token"
      <4>1. member'[g] = member[g]
        BY <2>2, <3>6 DEF ServerTakes, serverVars
      <4>. QED
        BY <1>2, <3>1, <3>2, <3>3, <3>6, <4>1 DEF Says
    <3>. QED
      BY <2>2, <3>4, <3>5, <3>6 DEF ServerTakes
  <2>. QED
    BY <2>3, <2>4
<1>7. ASSUME NEW h \in Gen, ServerForgets(h)
      PROVE  c \in member'[g] <=> LastIn(out'[g], c, written'[g], "phx_join")
  <2>1. /\ UNCHANGED <<out, sending, stream, recv, written>> /\ Hangs(h)
        /\ member' = [member EXCEPT ![h] = {}]
    BY <1>7 DEF ServerForgets, vars, chanVars, connVars
  <2>2. h # g
    BY <2>1 DEF Hangs
  <2>3. member'[g] = member[g]
    BY <1>1, <2>1, <2>2
  <2>. QED
    BY <1>4, <2>1, <2>3
<1>8. ASSUME NEW h \in Gen, \/ Heartbeat(h) \/ ServerAnswers(h) \/ ServerGarbles(h)
                            \/ \E d \in Chan : ServerConfirms(h, d) \/ ServerTells(h, d)
      PROVE  UNCHANGED <<written, member>> /\ Apart
  BY <1>8 DEF Heartbeat, ServerAnswers, ServerGarbles, ServerConfirms, Confirms, ServerTells, ServerSends,
     serverVars, Apart
<1>9. UNCHANGED sessionVars => UNCHANGED <<out, sending, stream, recv, written, member>>
  BY DEF sessionVars, vars, chanVars, connVars, serverVars
<1>. QED
  BY <1>3, <1>4, <1>5, <1>6, <1>7, <1>8, <1>9 DEF SessionNext, serverVars

-----------------------------------------------------------------------------
(* Whoever has begun says so.                                              *)

\* The send task of a channel that has ended is not started again.
LEMMA SilenceStays ==
  ASSUME ClientInv, Older, Local, NEW c \in Chan, View!Live(c), chan[c].tx \notin sending
  PROVE  chan[c].tx \notin sending'
<1>. USE DEF ClientInv, Core
<1>1. chan[c].tx \in Nat /\ gen \in Nat /\ wsTx \in Nat /\ chan[c].tx <= wsTx /\ wsTx <= gen
  <2>1. chan[c].tx \in Gen
    BY LiveShown DEF View!Shown
  <2>2. gen \in 0..MaxGen /\ wsTx \in 0..MaxGen
    BY DEF TypeOK
  <2>3. chan[c].tx <= wsTx /\ (gen = wsTx \/ gen = wsTx + 1)
    BY DEF Older, Counters
  <2>4. gen \in Nat /\ wsTx \in Nat
    BY <2>2, Parties
  <2>5. chan[c].tx \in Nat
    BY <2>1, Parties
  <2>. QED
    BY <2>3, <2>4, <2>5
<1>2. DialSucceeds => sending' = sending \cup {gen + 1}
  BY DEF DialSucceeds
<1>3. ASSUME NEW g \in Gen, SendEnds(g)
      PROVE  sending' = sending \ {g}
  BY <1>3 DEF SendEnds
<1>. QED
  BY <1>1, <1>2, <1>3, Writers

\* A subscribe that is posted, or about to be, is performed, but for a channel that
\* breaks.
LEMMA ResubscribesStep ==
  ASSUME ClientInv, Local, NEW c \in Chan, View!Live(c), Resubscribes(c)
  PROVE  Resubscribes(c)' \/ PerformSubscribe(c) \/ View!Breaks(c)
<1>. USE DEF ClientInv, Core
<1>1. mail \in [Chan -> Seq({"Subscribe", "Unsubscribe"})] /\ mail[c] \in Seq({"Subscribe", "Unsubscribe"})
  BY DEF TypeOK
<1>2. "Subscribe" \in Range(Append(mail[c], "Subscribe"))
  BY <1>1, AppendList
<1>3. CASE "Subscribe" \in Range(mail[c])
  <2>1. \A op : "Subscribe" \in Range(Append(mail[c], op))
    BY <1>1, <1>3, AppendList
  <2>2. ASSUME mail[c] # <<>>, Head(mail[c]) = "Unsubscribe"
        PROVE  "Subscribe" \in Range(Tail(mail[c]))
    BY <1>1, <1>3, <2>2, TailList
  <2>3. "Subscribe" \in Range(mail'[c]) \/ PerformSubscribe(c) \/ View!Breaks(c)
    BY <1>3, <2>1, <2>2, MailStep DEF Posted
  <2>. QED
    BY <2>3 DEF Resubscribes
<1>4. CASE pc = "rejoin" /\ c = Head(todo)
  <2>1. CASE Rejoin
    <3>1. mail'[c] = Append(mail[c], "Subscribe")
      BY <1>1, <1>4, <2>1 DEF Rejoin, PostsSubscribe
    <3>. QED
      BY <1>2, <3>1 DEF Resubscribes
  <2>2. CASE ~Rejoin
    <3>1. ~ClientActor
      BY <1>4, <2>2 DEF ClientActor, HandleGetState, HandleGetAccessToken, HandleGetWsTx, HandleAddChannel,
       StartConnect, BuildRequest, DialFails, DialSucceeds, MarkOpen, LockToRebind, Rebind,
       ConnectDone, StartDisconnect, Leave, DisconnectDone, StartSetAccessToken, LockToReAuth, ReAuth,
       SetAccessTokenDone, Reply, Takes, Starts, Visits, Leaves
    <3>2. UNCHANGED <<pc, todo>>
      BY <3>1, LoopsElsewhere DEF Next
    <3>. QED
      BY <1>4, <3>2 DEF Resubscribes
  <2>. QED
    BY <2>1, <2>2
<1>. QED
  BY <1>3, <1>4 DEF Resubscribes

\* Every step keeps that whoever has begun has said so, or will.
LEMMA BegunIsSaidStep ==
  ASSUME ClientInv, Older, Behind, Confirming, Entered, BegunIsSaid, [SessionNext]_sessionVars
  PROVE  BegunIsSaid'
<1>. USE DEF ClientInv, Core
<1>1. CASE Apart
  <2>1. \A c \in Chan : Resubscribes(c)' <=> Resubscribes(c)
    BY <1>1, ApartChannels DEF Resubscribes
  <2>. QED
    BY <1>1, <2>1, ApartChannels DEF BegunIsSaid
<1>2. CASE Local
  <2>. SUFFICES ASSUME NEW c \in Chan, View!Live(c)', Begun(c)'
                PROVE  \/ chan'[c].tx \notin sending' \/ Spoke(c, "phx_join")' \/ Spoke(c, "phx_leave")'
                       \/ Resubscribes(c)'
    BY DEF BegunIsSaid
  <2>1. Moved(c)
    BY <1>2, ChannelStep
  <2>2. ~View!Breaks(c)
    BY MovedShows DEF View!Live, View!LiveStates
  <2>3. ASSUME View!Live(c), Begun(c), Mute(c), chan'[c].tx = chan[c].tx, ~PerformSubscribe(c)
        PROVE  \/ chan'[c].tx \notin sending' \/ Spoke(c, "phx_join")' \/ Spoke(c, "phx_leave")'
               \/ Resubscribes(c)'
    <3>1. \/ chan[c].tx \notin sending \/ Spoke(c, "phx_join") \/ Spoke(c, "phx_leave")
          \/ Resubscribes(c)
      BY <2>3 DEF BegunIsSaid
    <3>2. /\ Spoke(c, "phx_join")' <=> Spoke(c, "phx_join")
          /\ Spoke(c, "phx_leave")' <=> Spoke(c, "phx_leave")
      BY <2>3, MuteSpoke DEF Membership
    <3>3. chan[c].tx \notin sending => chan'[c].tx \notin sending'
      BY <1>2, <2>3, SilenceStays
    <3>4. Resubscribes(c) => Resubscribes(c)'
      BY <1>2, <2>2, <2>3, ResubscribesStep
    <3>. QED
      BY <3>1, <3>2, <3>3, <3>4
  <2>4. CASE PerformSubscribe(c)
    <3>1. View!Live(c) /\ chan'[c].tx = chan[c].tx
      BY <2>4, MovedShows
    <3>2. CASE chan[c].tx \in sending
      <4>1. Spoken(c, "phx_join")
        BY <2>4, <3>2, MovedShows
      <4>. QED
        BY <3>1, <4>1, SpokenSpoke DEF Membership
    <3>3. CASE chan[c].tx \notin sending
      BY <1>2, <3>1, <3>3, SilenceStays
    <3>. QED
      BY <3>2, <3>3
  <2>5. CASE Stays(c) /\ Mute(c) /\ ~PerformSubscribe(c)
    BY <2>3, <2>5 DEF Stays, Begun, View!Live
  <2>6. CASE LeavesNow(c)
    BY <2>6, MovedShows, SpokenSpoke DEF Membership
  <2>7. CASE Hears(c) /\ ~PerformSubscribe(c)
    <3>1. View!Live(c) /\ chan'[c].tx = chan[c].tx /\ Begun(c)
      BY <2>7, MovedShows, HearsBegun DEF Hears
    <3>2. Mute(c)
      BY <2>7 DEF Hears, Mute
    <3>. QED
      BY <2>3, <2>7, <3>1, <3>2
  <2>8. CASE View!Built(c, build[c].tx, build[c].tok)
    BY <2>8, MovedShows DEF Begun
  <2>9. CASE Rebind /\ c = Head(todo) /\ View!Rebinds(c, wsTx)
    <3>1. View!Live(c)
      BY <2>9, MovedShows
    <3>2. pc' = "rejoin" /\ todo' = todo
      BY <2>9, <3>1 DEF Rebind
    <3>. QED
      BY <2>9, <3>2 DEF Resubscribes
  <2>. QED
    BY <2>1, <2>2, <2>4, <2>5, <2>6, <2>7, <2>8, <2>9 DEF Moved
<1>. QED
  BY <1>1, <1>2, StepKinds

-----------------------------------------------------------------------------
(* A join goes on.                                                         *)

\* The channels a join of which is not confirmed, and could be.
Expects(c) ==
  /\ View!Live(c) /\ chan[c].st # "Joined" /\ Spoke(c, "phx_join")
  /\ c \in Range(channels) \ deaf

\* Whoever is deaf stays deaf.
LEMMA DeafStays ==
  ASSUME Local
  PROVE  deaf \subseteq deaf'
<1>1. ASSUME NEW c \in Chan, HandleMessage(c)
      PROVE  deaf \subseteq deaf'
  BY <1>1 DEF HandleMessage
<1>. QED
  BY <1>1, Writers

\* A channel that is added has said nothing yet.
LEMMA AddedIsSilent ==
  ASSUME ClientInv, Behind, Entered, HandleAddChannel, NEW c \in Chan, NEW g \in Gen,
         chan'[c].tx = g, Spoke(c, "phx_join")'
  PROVE  c \in Range(channels') => c \in Range(channels)
<1>. USE DEF ClientInv, Core
<1>1. /\ Takes("AddChannel") /\ channels' = Append(channels, Head(inbox).by) /\ UNCHANGED <<chan, out>>
  BY DEF HandleAddChannel, Reply
<1>2. Range(channels') = Range(channels) \cup {Head(inbox).by}
  BY <1>1, AppendList DEF TypeOK
<1>3. ASSUME c = Head(inbox).by
      PROVE  FALSE
  <2>1. ~Begun(c)
    BY <1>1, <1>3, AddedIsNew DEF Entered, Member
  <2>2. LastIn(out[g], c, Len(out[g]), "phx_join")
    BY <1>1 DEF Spoke
  <2>3. PICK i \in 1..Len(out[g]) : out[g][i].from = c /\ out[g][i].event = "phx_join"
    BY <2>2 DEF LastIn
  <2>4. i \in DOMAIN out[g] /\ Says(c, out[g][i])
    BY <2>3 DEF TypeOK, Says
  <2>. QED
    BY <2>1, <2>4 DEF Behind
<1>. QED
  BY <1>2, <1>3

\* A step after which a join waits for its confirmation begins with one that does, or
\* is that join.
LEMMA ExpectsStep ==
  ASSUME ClientInv, SessionTypes, Older, Behind, Entered, JoinShows', Local, UNCHANGED written,
         NEW c \in Chan, NEW g \in Gen, chan'[c].tx = g, Expects(c)'
  PROVE  (Expects(c) /\ chan[c].tx = g) \/ Lost(g)' \/ InQueue(c, g)'
<1>. USE DEF ClientInv, Core
<1>1. Moved(c)
  BY ChannelStep
<1>2. c \notin deaf
  BY DeafStays DEF Expects
<1>3. c \in Range(channels)
  <2>1. ASSUME NEW h \in Gen, FilterDone(h)
        PROVE  c \in Range(channels)
    <3>1. channels' = recv[h].kept /\ recv[h].at = "filter"
      BY <2>1 DEF FilterDone, NewList, At
    <3>. QED
      BY <3>1 DEF Expects, Listing, Scanning
  <2>. QED
    BY <2>1, Writers, AddedIsSilent DEF Expects
<1>4. chan'[c].st = "Joining"
  BY DEF JoinShows, Expects
<1>5. ASSUME View!Live(c), Mute(c), chan[c].tx = g, chan[c].st = chan'[c].st
      PROVE  Expects(c) /\ chan[c].tx = g
  BY <1>2, <1>3, <1>5, MuteSpoke DEF Expects, Membership
<1>6. CASE Stays(c) /\ Mute(c)
  BY <1>4, <1>5, <1>6 DEF Stays, View!Live, View!LiveStates
<1>7. CASE PerformSubscribe(c)
  <2>1. chan[c].tx = g /\ View!Live(c)
    BY <1>7, MovedShows
  <2>2. CASE g \notin sending
    <3>1. g \notin sending'
      BY <2>1, <2>2, SilenceStays
    <3>. QED
      BY <3>1 DEF Lost
  <2>3. CASE g \in sending
    <3>1. PICK f \in Frame : f.from = c /\ f.event = "phx_join" /\ out'[g] = Append(out[g], f)
      BY <1>7, <2>1, <2>3, MovedShows DEF Spoken
    <3>2. out[g] \in Seq(Frame) /\ Len(out[g]) \in Nat /\ written[g] \in Nat /\ written[g] <= Len(out[g])
      BY DEF TypeOK, SessionTypes
    <3>3. Len(out[g]) + 1 \in DOMAIN out'[g] /\ out'[g][Len(out[g]) + 1] = f
      BY <3>1, <3>2, AppendFacts
    <3>4. Len(out[g]) + 1 > written'[g]
      BY <3>2
    <3>. QED
      BY <3>1, <3>3, <3>4 DEF InQueue
  <2>. QED
    BY <2>2, <2>3
<1>8. CASE LeavesNow(c) \/ Hears(c) \/ View!Breaks(c) \/ View!Built(c, build[c].tx, build[c].tok)
  BY <1>4, <1>8, MovedShows DEF Hears
<1>9. CASE View!Rebinds(c, wsTx) /\ UNCHANGED out
  <2>1. View!Live(c) /\ chan'[c].st = chan[c].st
    BY <1>9, MovedShows
  <2>2. chan[c].tx = g
    BY <1>9, ReboundSpoke DEF Expects, Membership
  <2>3. Mute(c)
    BY <1>9 DEF Mute
  <2>. QED
    BY <1>5, <2>1, <2>2, <2>3
<1>. QED
  BY <1>1, <1>6, <1>7, <1>8, <1>9 DEF Moved


\* The evidence in the hands of a receive task stays there, or goes to the channel.
LEMMA InHandStep ==
  ASSUME ClientInv, SessionTypes, Confirming, JoinShows, Local, NEW c \in Chan, NEW g \in Gen,
         Expects(c), c \notin deaf', InHand(c, g)
  PROVE  Lost(g)' \/ InHand(c, g)' \/ Routed(c)'
<1>. USE DEF ClientInv, Core
<1>1. /\ recv \in [Gen -> Task] /\ recv[g].scan \in Seq(Chan) /\ recv[g].kept \in Seq(Chan)
      /\ recv[g].msg \in DOMAIN sent /\ UNCHANGED sent
  <2>1. recv \in [Gen -> Task]
    BY Typed
  <2>2. recv[g].msg \in DOMAIN sent
    BY DEF Ordered, Arriving, InHand
  <2>. QED
    BY <2>1, <2>2, Writers DEF Task
<1>2. sent[recv[g].msg].re = c
  BY DEF InHand
<1>3. CASE recv'[g] = recv[g]
  BY <1>1, <1>3 DEF InHand
<1>4. CASE LockToRoute(g)
  <2>1. /\ recv'[g].at = "filter" /\ recv'[g].scan = channels /\ recv'[g].msg = recv[g].msg
    BY <1>4, TaskMoves
  <2>2. c \in Range(channels)
    BY DEF Expects
  <2>. QED
    BY <1>1, <1>2, <2>1, <2>2 DEF InHand
<1>5. CASE Filter(g)
  <2>1. /\ recv[g].at = "filter" /\ recv[g].scan # <<>>
        /\ c \in Range(recv[g].scan) \cup Range(recv[g].kept)
    BY <1>5 DEF Filter, At, InHand
  <2>2. /\ recv'[g].at = "filter" /\ recv'[g].msg = recv[g].msg /\ recv'[g].scan = Tail(recv[g].scan)
        /\ recv'[g].kept = IF chan[Head(recv[g].scan)].st = "Closed" THEN recv[g].kept
                           ELSE Append(recv[g].kept, Head(recv[g].scan))
    <3>1. recv' = [recv EXCEPT ![g].scan = Tail(@),
                    ![g].kept = IF chan[Head(recv[g].scan)].st = "Closed" THEN @
                                ELSE Append(@, Head(recv[g].scan))]
      BY <1>5 DEF Filter
    <3>2. recv'[g].kept = IF chan[Head(recv[g].scan)].st = "Closed" THEN recv[g].kept
                          ELSE Append(recv[g].kept, Head(recv[g].scan))
      BY <1>1, <3>1 DEF Task
    <3>. QED
      BY <1>5, <3>2, TaskMoves
  <2>3. chan[c].st # "Closed"
    BY DEF Expects, JoinShows
  <2>4. /\ Range(recv[g].scan) = {Head(recv[g].scan)} \cup Range(Tail(recv[g].scan))
        /\ Range(Append(recv[g].kept, Head(recv[g].scan))) = Range(recv[g].kept) \cup {Head(recv[g].scan)}
    BY <1>1, <2>1, TailList, AppendList
  <2>5. c \in Range(recv'[g].scan) \cup Range(recv'[g].kept)
    BY <2>1, <2>2, <2>3, <2>4
  <2>. QED
    BY <1>1, <1>2, <2>2, <2>5 DEF InHand
<1>6. CASE FilterDone(g)
  <2>1. /\ recv[g].at = "filter" /\ recv[g].scan = <<>>
        /\ c \in Range(recv[g].scan) \cup Range(recv[g].kept)
    BY <1>6 DEF FilterDone, At, InHand
  <2>2. /\ recv'[g].at = "dispatch" /\ recv'[g].scan = recv[g].kept /\ recv'[g].msg = recv[g].msg
    BY <1>6, TaskMoves
  <2>. QED
    BY <1>1, <1>2, <2>1, <2>2, EmptyList DEF InHand
<1>7. CASE Dispatch(g)
  <2>1. recv[g].at = "dispatch" /\ recv[g].scan # <<>> /\ c \in Range(recv[g].scan)
    BY <1>7 DEF Dispatch, At, InHand
  <2>2. recv'[g].at = "dispatch" /\ recv'[g].scan = Tail(recv[g].scan) /\ recv'[g].msg = recv[g].msg
    BY <1>7, TaskMoves
  <2>3. CASE c = Head(recv[g].scan)
    <3>1. TopicOf[c] = sent[recv[g].msg].topic /\ c \notin deaf
      BY <1>1, <1>2 DEF Confirming, Expects
    <3>2. got' = [got EXCEPT ![c] = Append(@, recv[g].msg)]
      BY <1>7, <2>3, <3>1 DEF Dispatch
    <3>3. UNCHANGED heard
      BY <1>7 DEF Dispatch, taskRest, taskVars
    <3>4. /\ got[c] \in Seq(Nat) /\ Len(got[c]) \in Nat /\ heard[c] \in Nat /\ heard[c] <= Len(got[c])
          /\ got'[c] = Append(got[c], recv[g].msg)
      BY <3>2 DEF TypeOK, SessionTypes
    <3>5. Len(got[c]) + 1 \in DOMAIN got'[c] /\ got'[c][Len(got[c]) + 1] = recv[g].msg
      BY <3>4, AppendFacts
    <3>6. Len(got[c]) + 1 > heard'[c]
      BY <3>3, <3>4
    <3>. QED
      BY <1>1, <1>2, <3>5, <3>6 DEF Routed
  <2>4. CASE c # Head(recv[g].scan)
    <3>1. c \in Range(Tail(recv[g].scan))
      BY <1>1, <2>1, <2>4, TailList
    <3>. QED
      BY <1>1, <1>2, <2>2, <3>1 DEF InHand
  <2>. QED
    BY <2>3, <2>4
<1>8. CASE DispatchDone(g)
  <2>1. recv[g].at = "dispatch" /\ recv[g].scan = <<>> /\ c \in Range(recv[g].scan)
    BY <1>8 DEF DispatchDone, At, InHand
  <2>. QED
    BY <2>1, EmptyList
<1>9. CASE RecvPanics(g) \/ Cancelled(g)
  BY <1>9, TaskMoves DEF Lost
<1>10. ASSUME ReadMessage(g) \/ ReadPanics(g) \/ ReadError(g) \/ ReadEnd(g) \/ Reconnected(g)
       PROVE  FALSE
  BY <1>10, TaskMoves DEF InHand
<1>11. ASSUME NEW h \in Gen, h # g, ReceiveTask(h) \/ Cancelled(h)
       PROVE  recv'[g] = recv[g]
  BY <1>11, TaskMoves
<1>12. ASSUME DialSucceeds
       PROVE  recv'[g] = recv[g]
  <2>1. recv' = [recv EXCEPT ![gen + 1].at = "reading"]
    BY <1>12 DEF DialSucceeds
  <2>2. g # gen + 1
    <3>1. recv[g].at # "none"
      BY DEF InHand
    <3>2. gen \in Nat
      BY Parties DEF TypeOK
    <3>. QED
      BY <3>1, <3>2 DEF Asking
  <2>. QED
    BY <1>1, <2>1, <2>2
<1>. QED
  BY <1>3, <1>4, <1>5, <1>6, <1>7, <1>8, <1>9, <1>10, <1>11, <1>12, Writers DEF ReceiveTask

\* That on its way to the message task of the channel is what the task comes to.
LEMMA RoutedStep ==
  ASSUME ClientInv, Local, NEW c \in Chan, Expects(c), c \notin deaf', Routed(c)
  PROVE  Routed(c)' \/ chan'[c].st = "Joined"
<1>. USE DEF ClientInv, Core
<1>1. PICK i \in DOMAIN got[c] : i > heard[c] /\ sent[got[c][i]].re = c
  BY DEF Routed
<1>2. /\ got \in [Chan -> Seq(Nat)] /\ got[c] \in Seq(Nat) /\ heard \in [Chan -> Nat] /\ heard[c] \in Nat
      /\ i \in Nat /\ UNCHANGED sent
  <2>1. got \in [Chan -> Seq(Nat)] /\ heard \in [Chan -> Nat]
    BY DEF TypeOK
  <2>2. got[c] \in Seq(Nat)
    BY <2>1
  <2>3. i \in Nat
    BY <1>1, <2>2
  <2>. QED
    BY <2>1, <2>2, <2>3, Writers
<1>3. i \in DOMAIN got'[c] /\ got'[c][i] = got[c][i]
  <2>1. ASSUME NEW g \in Gen, Dispatch(g)
        PROVE  i \in DOMAIN got'[c] /\ got'[c][i] = got[c][i]
    <3>1. PICK d \in Chan : UNCHANGED got \/ got' = [got EXCEPT ![d] = Append(@, recv[g].msg)]
      BY <2>1, DispatchStep
    <3>2. got'[c] = got[c] \/ got'[c] = Append(got[c], recv[g].msg)
      BY <1>2, <3>1
    <3>3. /\ i \in DOMAIN Append(got[c], recv[g].msg)
          /\ Append(got[c], recv[g].msg)[i] = got[c][i]
      BY <1>1, <1>2, AppendFacts
    <3>. QED
      BY <3>2, <3>3
  <2>. QED
    BY <1>1, <2>1, Writers
<1>4. CASE heard'[c] = heard[c]
  BY <1>1, <1>2, <1>3, <1>4 DEF Routed
<1>5. ASSUME NEW d \in Chan, HandleMessage(d), heard'[c] # heard[c]
      PROVE  Routed(c)' \/ chan'[c].st = "Joined"
  <2>1. d = c
    BY <1>2, <1>5 DEF HandleMessage
  <2>2. heard' = [heard EXCEPT ![c] = @ + 1] /\ UNCHANGED got
    BY <1>5, <2>1 DEF HandleMessage
  <2>3. heard'[c] = heard[c] + 1
    BY <1>2, <2>2
  <2>4. CASE i = heard[c] + 1
    <3>1. c # NoOne
      BY ClientAssumption
    <3>2. Joins(c)
      BY <1>1, <1>5, <2>1, <2>4, <3>1 DEF HandleMessage, OwnReply
    <3>. QED
      BY <3>2, MovedShows DEF Joins, Expects
  <2>5. CASE i > heard[c] + 1
    BY <1>1, <1>2, <1>3, <2>3, <2>5 DEF Routed
  <2>. QED
    BY <1>1, <1>2, <2>4, <2>5
<1>. QED
  BY <1>4, <1>5, Writers


\* What is left of a join is never dropped by a step of the client, unless its
\* connection is lost.
LEMMA UnderwayStep ==
  ASSUME ClientInv, SessionTypes, Older, Confirming, JoinShows, Entered, Local,
         UNCHANGED <<written, owed>>, NEW c \in Chan, NEW g \in Gen,
         Expects(c), Expects(c)', chan[c].tx = g, Lost(g) \/ Underway(c, g)
  PROVE  Lost(g)' \/ Underway(c, g)'
<1>. USE DEF ClientInv, Core
<1>1. CASE Lost(g)
  <2>1. g <= wsTx /\ wsTx \in 0..MaxGen /\ gen \in 0..MaxGen /\ (gen = wsTx \/ gen = wsTx + 1)
    BY DEF Older, Expects, Counters, TypeOK
  <2>2. g \in Nat /\ wsTx \in Nat /\ gen \in Nat
    BY <2>1, Parties
  <2>3. g <= gen
    BY <2>1, <2>2
  <2>. QED
    BY <1>1, <2>3, LossesStay
<1>2. CASE InQueue(c, g)
  <2>1. out[g] \in Seq(Frame)
    BY DEF TypeOK
  <2>2. \A i \in DOMAIN out[g] : i \in DOMAIN out'[g] /\ out'[g][i] = out[g][i]
    <3>1. ASSUME NEW f \in Frame
          PROVE  \A i \in DOMAIN out[g] : i \in DOMAIN Append(out[g], f) /\ Append(out[g], f)[i] = out[g][i]
      BY <2>1, AppendFacts
    <3>. QED
      BY <3>1, QueueStep
  <2>3. InQueue(c, g)'
    BY <1>2, <2>2 DEF InQueue
  <2>. QED
    BY <2>3 DEF Underway
<1>3. CASE c \in owed[g]
  BY <1>3 DEF Underway
<1>4. CASE OnWire(c, g)
  <2>1. PICK i \in DOMAIN inq[g] : sent[inq[g][i]].re = c
    BY <1>4 DEF OnWire
  <2>2. inq \in [Gen -> Seq(Nat)] /\ inq[g] \in Seq(Nat) /\ UNCHANGED sent
    BY Writers DEF TypeOK
  <2>3. CASE inq'[g] = inq[g]
    BY <1>4, <2>2, <2>3 DEF OnWire, Underway
  <2>4. CASE ReadMessage(g)
    <3>1. inq[g] # <<>> /\ inq' = [inq EXCEPT ![g] = Tail(@)]
      BY <2>4 DEF ReadMessage
    <3>2. inq'[g] = Tail(inq[g])
      BY <2>2, <3>1
    <3>3. CASE i = 1
      <4>1. sent[Head(inq[g])].re = c
        BY <2>1, <2>2, <3>1, <3>3, TailFacts
      <4>2. recv'[g].at = "locking" /\ recv'[g].msg = Head(inq[g])
        BY <2>4, TaskMoves
      <4>. QED
        BY <2>2, <4>1, <4>2 DEF InHand, Underway
    <3>4. CASE i # 1
      <4>1. i - 1 \in DOMAIN Tail(inq[g]) /\ Tail(inq[g])[i - 1] = inq[g][i]
        BY <2>1, <2>2, <3>1, <3>4, TailFacts
      <4>. QED
        BY <2>1, <2>2, <3>2, <4>1 DEF OnWire, Underway
    <3>. QED
      BY <3>3, <3>4
  <2>5. ASSUME NEW h \in Gen, h # g, ReadMessage(h) \/ ReadPanics(h)
        PROVE  inq'[g] = inq[g]
    BY <2>2, <2>5 DEF ReadMessage, ReadPanics
  <2>6. CASE ReadPanics(g)
    BY <2>6, TaskMoves DEF Lost
  <2>. QED
    BY <2>3, <2>4, <2>5, <2>6, Writers
<1>5. CASE InHand(c, g)
  BY <1>5, InHandStep DEF Expects, Underway
<1>6. CASE Routed(c)
  BY <1>6, RoutedStep DEF Expects, Underway
<1>. QED
  BY <1>1, <1>2, <1>3, <1>4, <1>5, <1>6 DEF Underway

\* A message of the server takes nothing from a join either, and the one that
\* confirms it is on the wire.
LEMMA SentStep ==
  ASSUME ClientInv, NEW h \in Gen, NEW t, NEW re, ServerSends(h, t, re), NEW c \in Chan, NEW g \in Gen
  PROVE  /\ OnWire(c, g) \/ InHand(c, g) \/ Routed(c) => OnWire(c, g)' \/ InHand(c, g)' \/ Routed(c)'
         /\ h = g /\ re = c => OnWire(c, g)'
<1>. USE DEF ClientInv, Core
<1>1. PICK e : e = [conn |-> h, topic |-> t, re |-> re]
  OBVIOUS
<1>2. /\ sent \in Seq(Message) /\ sent' = Append(sent, e) /\ e.re = re
      /\ inq \in [Gen -> Seq(Nat)] /\ inq[g] \in Seq(Nat)
      /\ UNCHANGED <<recv, got, heard>>
  BY <1>1 DEF ServerSends, TypeOK, wireRest, chanVars, taskVars
<1>3. /\ \A i \in DOMAIN sent : sent'[i] = sent[i]
      /\ Len(sent') = Len(sent) + 1 /\ sent'[Len(sent) + 1] = e
  BY <1>2, AppendFacts
<1>4. inq'[g] = IF h = g THEN Append(inq[g], Len(sent) + 1) ELSE inq[g]
  BY <1>2, <1>3 DEF ServerSends
<1>5. ASSUME OnWire(c, g)
      PROVE  OnWire(c, g)'
  <2>1. PICK i \in DOMAIN inq[g] : sent[inq[g][i]].re = c
    BY <1>5 DEF OnWire
  <2>2. inq[g][i] \in DOMAIN sent
    BY DEF Ordered, Arriving
  <2>3. i \in DOMAIN inq'[g] /\ inq'[g][i] = inq[g][i]
    BY <1>2, <1>4, AppendFacts
  <2>. QED
    BY <1>3, <2>1, <2>2, <2>3 DEF OnWire
<1>6. ASSUME InHand(c, g)
      PROVE  InHand(c, g)'
  <2>1. recv[g].msg \in DOMAIN sent
    BY <1>6 DEF Ordered, Arriving, InHand
  <2>. QED
    BY <1>2, <1>3, <1>6, <2>1 DEF InHand
<1>7. ASSUME Routed(c)
      PROVE  Routed(c)'
  <2>1. PICK i \in DOMAIN got[c] : i > heard[c] /\ sent[got[c][i]].re = c
    BY <1>7 DEF Routed
  <2>2. got[c][i] \in DOMAIN sent
    BY DEF Ordered, Given
  <2>. QED
    BY <1>2, <1>3, <2>1, <2>2 DEF Routed
<1>8. ASSUME h = g, re = c
      PROVE  OnWire(c, g)'
  <2>1. Len(inq[g]) + 1 \in DOMAIN inq'[g] /\ inq'[g][Len(inq[g]) + 1] = Len(sent) + 1
    BY <1>2, <1>4, <1>8, AppendFacts
  <2>. QED
    BY <1>2, <1>3, <1>8, <2>1 DEF OnWire
<1>. QED
  BY <1>5, <1>6, <1>7, <1>8


\* What the send tasks and the server do of it carries a join further.
LEMMA ServedStep ==
  ASSUME ClientInv, SessionTypes, SessionNext, Apart, NEW c \in Chan, NEW g \in Gen,
         Lost(g) \/ Underway(c, g)
  PROVE  \/ Lost(g)' \/ Underway(c, g)'
         \/ Local /\ UNCHANGED <<written, member, owed>>
<1>. USE DEF ClientInv, Core
<1>1. UNCHANGED <<out, sending, stream, recv, got>>
  BY ApartChannels
<1>2. Lost(g) => Lost(g)'
  BY <1>1 DEF Lost
<1>3. UNCHANGED heard
  BY ApartChannels
<1>4. ASSUME UNCHANGED <<sent, inq>>
      PROVE  OnWire(c, g) \/ InHand(c, g) \/ Routed(c) => OnWire(c, g)' \/ InHand(c, g)' \/ Routed(c)'
  BY <1>1, <1>3, <1>4 DEF OnWire, InHand, Routed
<1>5. ASSUME NEW h \in Gen, Write(h)
      PROVE  Lost(g)' \/ Underway(c, g)'
  <2>1. UNCHANGED <<sent, inq>>
    BY <1>5 DEF Write, vars, connVars
  <2>2. PICK f : f = out[h][written[h] + 1]
    OBVIOUS
  <2>3. /\ written' = [written EXCEPT ![h] = @ + 1] /\ ServerTakes(h, f)
        /\ written \in [Gen -> Nat] /\ owed \in [Gen -> SUBSET Chan]
    BY <1>5, <2>2 DEF Write, SessionTypes
  <2>4. owed[g] \subseteq owed'[g] /\ (f.event = "phx_join" => f.from \in owed'[h])
    BY <2>3 DEF ServerTakes, serverVars
  <2>5. ASSUME InQueue(c, g)
        PROVE  InQueue(c, g)' \/ c \in owed'[g]
    <3>1. PICK i \in DOMAIN out[g] : i > written[g] /\ out[g][i].from = c /\ out[g][i].event = "phx_join"
      BY <2>5 DEF InQueue
    <3>2. i \in Nat /\ written[g] \in Nat
      <4>1. out[g] \in Seq(Frame)
        BY DEF TypeOK
      <4>. QED
        BY <2>3, <4>1
    <3>3. CASE i > written'[g]
      BY <1>1, <3>1, <3>3 DEF InQueue
    <3>4. CASE ~(i > written'[g])
      <4>1. h = g /\ i = written[g] + 1
        BY <2>3, <3>1, <3>2, <3>4
      <4>. QED
        BY <2>2, <2>4, <3>1, <4>1
    <3>. QED
      BY <3>3, <3>4
  <2>. QED
    BY <1>2, <1>4, <2>1, <2>4, <2>5 DEF Underway
<1>6. ASSUME NEW h \in Gen, ServerForgets(h)
      PROVE  Lost(g)' \/ Underway(c, g)'
  <2>1. UNCHANGED <<sent, inq, written>> /\ owed' = [owed EXCEPT ![h] = {}] /\ Hangs(h)
    BY <1>6 DEF ServerForgets, vars, connVars
  <2>2. CASE h = g
    BY <1>2, <2>1, <2>2 DEF Hangs, Lost
  <2>3. CASE h # g
    <3>1. owed'[g] = owed[g]
      BY <2>1, <2>3 DEF SessionTypes
    <3>2. InQueue(c, g) => InQueue(c, g)'
      BY <1>1, <2>1 DEF InQueue
    <3>. QED
      BY <1>2, <1>4, <2>1, <3>1, <3>2 DEF Underway
  <2>. QED
    BY <2>2, <2>3
<1>7. ASSUME NEW h \in Gen, NEW d \in Chan, ServerConfirms(h, d)
      PROVE  Lost(g)' \/ Underway(c, g)'
  <2>1. ServerSends(h, TopicOf[d], d) /\ owed' = [owed EXCEPT ![h] = @ \ {d}] /\ UNCHANGED written
    BY <1>7 DEF ServerConfirms, Confirms
  <2>2. c \in owed[g] => c \in owed'[g] \/ (h = g /\ d = c)
    BY <2>1 DEF SessionTypes
  <2>3. InQueue(c, g) => InQueue(c, g)'
    BY <1>1, <2>1 DEF InQueue
  <2>4. /\ OnWire(c, g) \/ InHand(c, g) \/ Routed(c) => OnWire(c, g)' \/ InHand(c, g)' \/ Routed(c)'
        /\ h = g /\ d = c => OnWire(c, g)'
    BY <2>1, SentStep
  <2>. QED
    BY <1>2, <2>2, <2>3, <2>4 DEF Underway
<1>8. ASSUME NEW h \in Gen, \/ Heartbeat(h) \/ ServerAnswers(h) \/ ServerGarbles(h)
                            \/ \E d \in Chan : ServerTells(h, d)
      PROVE  Lost(g)' \/ Underway(c, g)'
  <2>1. UNCHANGED <<written, owed>>
    BY <1>8 DEF Heartbeat, ServerAnswers, ServerGarbles, ServerTells, serverVars
  <2>2. UNCHANGED <<sent, inq>> \/ \E t, re : ServerSends(h, t, re)
    BY <1>8 DEF Heartbeat, ServerAnswers, ServerGarbles, ServerTells
  <2>3. OnWire(c, g) \/ InHand(c, g) \/ Routed(c) => OnWire(c, g)' \/ InHand(c, g)' \/ Routed(c)'
    BY <1>4, <2>2, SentStep
  <2>4. InQueue(c, g) => InQueue(c, g)'
    BY <1>1, <2>1 DEF InQueue
  <2>. QED
    BY <1>2, <2>1, <2>3, <2>4 DEF Underway
<1>9. UNCHANGED serverVars => UNCHANGED <<member, owed>>
  BY DEF serverVars
<1>. QED
  BY <1>5, <1>6, <1>7, <1>8, <1>9 DEF SessionNext

\* Every step keeps that a join that was not confirmed goes on.
LEMMA JoinGoesOnStep ==
  ASSUME SessionInv, JoinShows', ClientInv', [SessionNext]_sessionVars
  PROVE  JoinGoesOn'
<1>. USE DEF SessionInv, ClientInv, Core
<1>1. SUFFICES ASSUME NEW c \in Chan, Expects(c)', NEW g \in Gen, chan'[c].tx = g
               PROVE  Lost(g)' \/ Underway(c, g)'
  <2>1. ASSUME NEW c \in Chan, Expects(c)'
        PROVE  \E g \in Gen : chan'[c].tx = g
    <3>1. chan'[c] \in View!Shown \cup {View!Unbuilt, View!Broken}
      BY DEF TypeOK
    <3>2. chan'[c].st \in View!LiveStates
      BY <2>1 DEF Expects, View!Live
    <3>. QED
      BY <3>1, <3>2 DEF View!Shown, View!Unbuilt, View!Broken, View!LiveStates
  <2>2. ASSUME NEW c \in Chan, Expects(c)'
        PROVE  \E g \in Gen : chan'[c].tx = g /\ (Lost(g)' \/ Underway(c, g)')
    BY <1>1, <2>1, <2>2
  <2>. QED
    BY <2>2 DEF JoinGoesOn, Expects
<1>2. ASSUME Expects(c), chan[c].tx = g
      PROVE  Lost(g) \/ Underway(c, g)
  BY <1>2 DEF JoinGoesOn, Expects
<1>3. ASSUME Local, UNCHANGED <<written, member, owed>>
      PROVE  Lost(g)' \/ Underway(c, g)'
  <2>1. (Expects(c) /\ chan[c].tx = g) \/ Lost(g)' \/ InQueue(c, g)'
    BY <1>1, <1>3, ExpectsStep
  <2>2. Expects(c) /\ chan[c].tx = g => Lost(g)' \/ Underway(c, g)'
    BY <1>1, <1>2, <1>3, UnderwayStep
  <2>. QED
    BY <2>1, <2>2 DEF Underway
<1>4. ASSUME Apart
      PROVE  Expects(c) /\ chan[c].tx = g
  BY <1>1, <1>4, ApartChannels DEF Expects
<1>5. ASSUME Apart, UNCHANGED <<sent, inq, written, owed>>
      PROVE  Lost(g)' \/ Underway(c, g)'
  <2>1. UNCHANGED <<out, sending, stream, recv, got, heard>>
    BY <1>5, ApartChannels
  <2>. QED
    BY <1>2, <1>4, <1>5, <2>1 DEF Lost, Underway, InQueue, OnWire, InHand, Routed
<1>6. UNCHANGED sessionVars => Apart /\ UNCHANGED <<sent, inq, written, owed>>
  BY DEF sessionVars, serverVars, vars, Apart, wireRest, connVars
<1>. QED
  BY <1>1, <1>2, <1>3, <1>4, <1>5, <1>6, ServedStep, StepKinds

-----------------------------------------------------------------------------
(* The invariant holds.                                                    *)

\* Every step keeps all of it.
LEMMA SessionStep == SessionInv /\ [SessionNext]_sessionVars => SessionInv'
<1>. SUFFICES ASSUME SessionInv, [SessionNext]_sessionVars PROVE SessionInv'
  OBVIOUS
<1>1. /\ ClientInv /\ SessionTypes /\ Older /\ Behind /\ Confirming /\ Entered
      /\ Held /\ JoinShows /\ BegunIsSaid
  BY DEF SessionInv
<1>2. ClientInv' /\ SessionTypes' /\ Older'
  BY <1>1, SessionClient, TypesStep, OlderStep
<1>3. Behind' /\ Confirming' /\ Entered' /\ Held'
  BY <1>1, BehindStep, ConfirmingStep, EnteredStep, HeldStep
<1>4. JoinShows' /\ BegunIsSaid'
  BY <1>1, JoinShowsStep, BegunIsSaidStep
<1>5. JoinGoesOn'
  BY <1>2, <1>4, JoinGoesOnStep
<1>. QED
  BY <1>2, <1>3, <1>4, <1>5 DEF SessionInv

\* The client starts with what it is known to keep.
LEMMA InitClient == Init => ClientInv
<1>. SUFFICES ASSUME Init PROVE ClientInv
  OBVIOUS
<1>1. Core /\ ListOwned
  BY InitCore, InitOwned
<1>2. Listing
  BY EmptyList DEF Init, Listing, Scanning, NoTask
<1>3. Ordered
  BY DEF Init, Ordered, Arriving, Given, NoTask
<1>. QED
  BY <1>1, <1>2, <1>3 DEF ClientInv

\* Whatever requests, frames, replies, losses and reconnections cross on their way:
\* a channel with nothing left under way and its server agree on whether it is
\* joined (subscribe, unsubscribe and client_recv of the channel, connect_ws,
\* disconnect and the receive task of the client, the send task of the connection).
THEOREM SessionAgrees == SessionSpec => []Agrees
<1>1. SessionInit => SessionInv
  BY InitClient, InitInv DEF SessionInit
<1>2. SessionInv /\ [SessionNext]_sessionVars => SessionInv'
  BY SessionStep
<1>3. SessionInv => Agrees
  BY InvAgrees
<1>. QED
  BY <1>1, <1>2, <1>3, PTL DEF SessionSpec

==============================================================================
