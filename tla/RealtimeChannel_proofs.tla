----------------------- MODULE RealtimeChannel_proofs -----------------------
(***************************************************************************)
(* Proofs about RealtimeChannel, for every set of channels, callers and    *)
(* connections, every set of faults and every length of a run.             *)
(***************************************************************************)
EXTENDS RealtimeChannel, SequenceTheorems, TLAPS

-----------------------------------------------------------------------------
(* Lemmas about the pieces of the handlers.                                *)

\* A function on the domain of a sequence, with values in S, is a sequence
\* over S: what Abandon makes of a mailbox.
LEMMA SameDomainIsSeq ==
  ASSUME NEW S, NEW T, NEW s \in Seq(S), NEW f \in [DOMAIN s -> T]
  PROVE  f \in Seq(T) /\ Len(f) = Len(s)
<1>1. Len(s) \in Nat /\ DOMAIN s = 1..Len(s)
  BY LenProperties
<1>2. f \in [1..Len(s) -> T]
  BY <1>1
<1>3. f \in Seq(T)
  BY <1>1, <1>2, SeqDef
<1>4. DOMAIN f = 1..Len(f) /\ Len(f) \in Nat
  BY <1>3, LenProperties
<1>. QED
  BY <1>1, <1>2, <1>3, <1>4

\* A handler takes a request out of a typed mailbox and leaves a typed one.
LEMMA HandlesType ==
  ASSUME TypeOK, NEW c \in Channel, NEW op, Handles(c, op)
  PROVE  /\ mailbox[c] \in Seq(Request) /\ mailbox[c] # <<>>
         /\ Req(c) \in Request
         /\ Req(c).op = op
         /\ Req(c).res \in Caller \cup {NoOne}
         /\ op = "ClientTx" => Req(c).tx \in Conn
         /\ Tail(mailbox[c]) \in Seq(Request)
<1>1. mailbox[c] \in Seq(Request) /\ mailbox[c] # <<>> /\ Req(c).op = op
  BY DEF TypeOK, Handles
<1>2. Req(c) \in Request /\ Tail(mailbox[c]) \in Seq(Request)
  BY <1>1, HeadTailProperties DEF Req
<1>. QED
  BY <1>1, <1>2 DEF Request, FireOps, AwaitOps

\* The parts of TypeOK that answers, panics and popped requests touch.
CallsTyped ==
  /\ actor \in [Channel -> {"unbuilt", "running", "panicked"}]
  /\ mailbox \in [Channel -> Seq(Request)]
  /\ call \in [Caller -> Call]

\* A panic empties a mailbox and refuses the calls in it, nothing else.
LEMMA PanicType ==
  ASSUME TypeOK, NEW c \in Channel, Panic(c)
  PROVE  CallsTyped'
<1>1. <<>> \in Seq(Request)
  BY EmptySeq
<1>2. \A k \in Caller : [call[k] EXCEPT !.st = "refused"] \in Call
  BY DEF TypeOK, Call
<1>. QED
  BY <1>1, <1>2 DEF TypeOK, Panic, CallsTyped

\* Taking the request just handled leaves a typed mailbox.
LEMMA PopType ==
  ASSUME TypeOK, NEW c \in Channel, NEW op, Handles(c, op), Pop(c)
  PROVE  mailbox' \in [Channel -> Seq(Request)]
BY HandlesType DEF TypeOK, Pop

\* Answering, or panicking because nobody awaits the answer, keeps the types.
LEMMA RespondType ==
  ASSUME TypeOK, NEW c \in Channel, NEW op, Handles(c, op),
         NEW v \in Answer, Respond(c, v)
  PROVE  CallsTyped'
<1>1. CASE Panic(c)
  BY <1>1, PanicType
<1>2. CASE /\ Req(c).res # NoOne
           /\ Pop(c)
           /\ call' = [call EXCEPT ![Req(c).res].st = "done", ![Req(c).res].val = v]
           /\ UNCHANGED actor
  <2>1. Req(c).res \in Caller
    BY <1>2, HandlesType
  <2>2. call' \in [Caller -> Call]
    BY <1>2, <2>1 DEF TypeOK, Call
  <2>3. mailbox' \in [Channel -> Seq(Request)]
    BY <1>2, PopType
  <2>. QED
    BY <1>2, <2>2, <2>3 DEF TypeOK, CallsTyped
<1>. QED
  BY <1>1, <1>2 DEF Respond

\* A frame more on one connection keeps the queues typed.
LEMMA AppendType ==
  ASSUME NEW I, NEW S, NEW f \in [I -> Seq(S)], NEW i \in I, NEW e \in S
  PROVE  [f EXCEPT ![i] = Append(@, e)] \in [I -> Seq(S)]
BY AppendProperties

\* So does send(), for a typed frame.
LEMMA SendFrameType ==
  ASSUME TypeOK, NEW c \in Channel, NEW f \in Frame, SendFrame(c, f)
  PROVE  out' \in [Conn -> Seq(Frame)]
BY AppendType DEF TypeOK, SendFrame

\* Frames without a token are typed.
LEMMA PlainFrameType ==
  ASSUME NEW c \in Channel, NEW e \in PlainEvents
  PROVE  PlainFrame(c, e) \in Frame
BY DEF PlainFrame, Frame

\* subscribe() keeps the state and the queues typed.
LEMMA StartJoinType ==
  ASSUME TypeOK, NEW c \in Channel, StartJoin(c)
  PROVE  /\ chState' \in [Channel -> ChannelStates]
         /\ out' \in [Conn -> Seq(Frame)]
<1>1. JoinFrame(c) \in Frame
  BY DEF TypeOK, JoinFrame, Frame, TokenEvents
<1>2. chState' \in [Channel -> ChannelStates]
  BY DEF TypeOK, StartJoin, ChannelStates
<1>3. Append(out[clientTx[c]], JoinFrame(c)) \in Seq(Frame)
  BY <1>1, AppendProperties DEF TypeOK
<1>4. out' \in [Conn -> Seq(Frame)]
  BY <1>3 DEF TypeOK, StartJoin
<1>. QED
  BY <1>2, <1>4

\* What the task of client_recv leaves in its queue.
LEMMA NextMsgType ==
  ASSUME TypeOK, NEW c \in Channel, NextMsg(c)
  PROVE  /\ Head(rx[c]) \in Inbound
         /\ PopRx(c) => rx' \in [Channel -> Seq(Inbound)]
<1>1. rx[c] \in Seq(Inbound) /\ rx[c] # <<>>
  BY DEF TypeOK, NextMsg
<1>2. Head(rx[c]) \in Inbound /\ Tail(rx[c]) \in Seq(Inbound)
  BY <1>1, HeadTailProperties
<1>. QED
  BY <1>2 DEF TypeOK, PopRx

-----------------------------------------------------------------------------
(* Type correctness.                                                       *)

\* Posting a request records at most one fault, a use after the leave.
LEMMA FaultType ==
  ASSUME TypeOK, NEW c \in Channel, NEW op, MayPost(c, op)
  PROVE  fault' \subseteq {"cancel", "conn_loss", "use_after_leave"}
BY DEF TypeOK, MayPost

\* Every step keeps the types: one case per action.
LEMMA TypeStep == TypeOK /\ [Next]_vars => TypeOK'
<1>. SUFFICES ASSUME TypeOK, [Next]_vars PROVE TypeOK'
  OBVIOUS
<1>. USE ChannelAssumption
<1>1. ASSUME NEW c \in Channel, Actor(c) PROVE TypeOK'
  <2>1. CASE HandleSubscribe(c)
    BY <2>1, PopType, StartJoinType DEF HandleSubscribe, TypeOK
  <2>2. CASE HandleSubscribeBlocking(c)
    <3>1. spinners' \in [Channel -> SUBSET (Caller \cup {NoOne})]
      BY <2>2, HandlesType DEF HandleSubscribeBlocking, SpawnSpinner, TypeOK
    <3>. QED
      BY <2>2, <3>1, PopType, StartJoinType DEF HandleSubscribeBlocking, TypeOK
  <2>3. CASE HandleUnsubscribe(c)
    <3>1. chState[c] \in Answer /\ "Leaving" \in Answer /\ "SendError" \in Answer
      BY DEF TypeOK, Answer, ChannelStates
    <3>2. CallsTyped'
      BY <2>3, <3>1, RespondType DEF HandleUnsubscribe
    <3>3. PlainFrame(c, "phx_leave") \in Frame
      BY PlainFrameType DEF PlainEvents
    <3>4. out' \in [Conn -> Seq(Frame)]
      BY <2>3, <3>3, SendFrameType DEF HandleUnsubscribe, SendFails, TypeOK
    <3>5. chState' \in [Channel -> ChannelStates]
      BY <2>3 DEF HandleUnsubscribe, TypeOK, ChannelStates
    <3>. QED
      BY <2>3, <3>2, <3>4, <3>5 DEF HandleUnsubscribe, TypeOK, CallsTyped
  <2>4. CASE HandleBroadcast(c)
    <3>1. PlainFrame(c, "broadcast") \in Frame
      BY PlainFrameType DEF PlainEvents
    <3>2. out' \in [Conn -> Seq(Frame)]
      BY <2>4, <3>1, SendFrameType DEF HandleBroadcast, SendFails, TypeOK
    <3>3. CallsTyped'
      BY <2>4, PopType, PanicType DEF HandleBroadcast, TypeOK, CallsTyped
    <3>. QED
      BY <2>4, <3>2, <3>3 DEF HandleBroadcast, TypeOK, CallsTyped
  <2>5. ASSUME NEW op, NEW event \in PlainEvents, HandlePresence(c, op, event)
        PROVE  TypeOK'
    <3>1. PlainFrame(c, event) \in Frame
      BY PlainFrameType
    <3>2. out' \in [Conn -> Seq(Frame)]
      BY <2>5, <3>1, SendFrameType DEF HandlePresence, SendFails, TypeOK
    <3>3. "unit" \in Answer
      BY DEF Answer
    <3>4. CallsTyped'
      BY <2>5, <3>3, RespondType, PanicType DEF HandlePresence
    <3>. QED
      BY <2>5, <3>2, <3>4 DEF HandlePresence, TypeOK, CallsTyped
  <2>6. CASE HandlePresenceTrack(c)
    BY <2>5, <2>6 DEF HandlePresenceTrack, PlainEvents
  <2>7. CASE HandlePresenceUntrack(c)
    BY <2>5, <2>7 DEF HandlePresenceUntrack, PlainEvents
  <2>8. CASE HandleReAuth(c)
    <3>1. [event |-> "access_token", from |-> c, tok |-> token] \in Frame
      BY DEF TypeOK, Frame, TokenEvents
    <3>2. out' \in [Conn -> Seq(Frame)]
      BY <2>8, <3>1, SendFrameType DEF HandleReAuth, SendFails, TypeOK
    <3>3. "unit" \in Answer
      BY DEF Answer
    <3>4. CallsTyped'
      BY <2>8, <3>3, RespondType, PanicType DEF HandleReAuth
    <3>5. joinToken' \in [Channel -> Nat]
      BY <2>8 DEF HandleReAuth, TakeToken, TypeOK
    <3>. QED
      BY <2>8, <3>2, <3>4, <3>5 DEF HandleReAuth, TypeOK, CallsTyped
  <2>9. CASE HandleClientTx(c)
    <3>1. "unit" \in Answer
      BY DEF Answer
    <3>2. CallsTyped'
      BY <2>9, <3>1, RespondType DEF HandleClientTx
    <3>3. clientTx' \in [Channel -> Conn]
      BY <2>9, HandlesType DEF HandleClientTx, TypeOK
    <3>. QED
      BY <2>9, <3>2, <3>3 DEF HandleClientTx, TypeOK, CallsTyped, wireVars
  <2>10. CASE HandleQuery(c)
    <3>1. chState[c] \in Answer
      BY DEF TypeOK, Answer
    <3>2. CallsTyped'
      BY <2>10, <3>1, RespondType DEF HandleQuery
    <3>. QED
      BY <2>10, <3>2 DEF HandleQuery, TypeOK, CallsTyped, wireVars
  <2>. QED
    BY <1>1, <2>1, <2>2, <2>3, <2>4, <2>6, <2>7, <2>8, <2>9, <2>10 DEF Actor
<1>2. ASSUME NEW c \in Channel, MsgTask(c) PROVE TypeOK'
  <2>1. CASE HandleForeignReply(c)
    BY <2>1, EmptySeq DEF HandleForeignReply, TaskReturns, TypeOK, wireVars
  <2>2. CASE HandleJoinReply(c)
    BY <2>2, NextMsgType
    DEF HandleJoinReply, AfterReply, TypeOK, wireVars, ChannelStates
  <2>3. CASE HandleEvent(c)
    BY <2>3, NextMsgType DEF HandleEvent, TypeOK, wireVars
  <2>4. CASE MsgTaskEnds(c)
    BY <2>4 DEF MsgTaskEnds, TypeOK, wireVars
  <2>5. CASE CallbackPanics(c)
    BY <2>5, EmptySeq DEF CallbackPanics, TaskReturns, TypeOK, wireVars
  <2>. QED
    BY <1>2, <2>1, <2>2, <2>3, <2>4, <2>5 DEF MsgTask
<1>3. ASSUME NEW c \in Channel, NEW k \in Caller \cup {NoOne}, SpinSeesJoined(c, k)
      PROVE  TypeOK'
  <2>1. call' \in [Caller -> Call]
    <3>1. CASE k = NoOne
      BY <1>3, <3>1 DEF SpinSeesJoined, TypeOK
    <3>2. CASE k # NoOne
      <4>1. k \in Caller /\ "unit" \in Answer
        BY <3>2 DEF Answer
      <4>2. call' = [call EXCEPT ![k].st = "done", ![k].val = "unit"]
        BY <1>3, <3>2 DEF SpinSeesJoined
      <4>. QED
        BY <4>1, <4>2 DEF TypeOK, Call
    <3>. QED
      BY <3>1, <3>2
  <2>. QED
    BY <1>3, <2>1 DEF SpinSeesJoined, TypeOK, wireVars
<1>4. CASE Environment
  <2>1. ASSUME NEW c \in Channel, Build(c) PROVE TypeOK'
    BY <2>1 DEF Build, TypeOK, wireVars
  <2>2. ASSUME NEW c \in Channel, NEW op \in FireOps, Post(c, op) PROVE TypeOK'
    <3>1. [op |-> op, res |-> NoOne] \in Request
      BY DEF Request, FireOps
    <3>2. Append(mailbox[c], [op |-> op, res |-> NoOne]) \in Seq(Request)
      BY <3>1, AppendProperties DEF TypeOK
    <3>3. mailbox' \in [Channel -> Seq(Request)]
      BY <2>2, <3>2 DEF Post, TypeOK
    <3>4. fault' \subseteq {"cancel", "conn_loss", "use_after_leave"}
      BY <2>2, FaultType DEF Post
    <3>. QED
      BY <2>2, <3>3, <3>4 DEF Post, Spend, TypeOK, wireVars
  <2>3. ASSUME NEW k \in Caller, NEW c \in Channel, NEW op \in AwaitOps,
               Ask(k, c, op)
        PROVE  TypeOK'
    <3>1. ASSUME NEW r \in Request, r.res \in Caller, r.op \in AwaitOps,
                 PutRequest(c, r)
          PROVE  mailbox' \in [Channel -> Seq(Request)] /\ call' \in [Caller -> Call]
      <4>1. Append(mailbox[c], r) \in Seq(Request)
        BY AppendProperties DEF TypeOK
      <4>2. mailbox' \in [Channel -> Seq(Request)]
        BY <3>1, <4>1 DEF PutRequest, TypeOK
      <4>3. \A s \in {"waiting", "refused"} :
              [st |-> s, op |-> r.op, val |-> "none"] \in Call
        BY <3>1 DEF Call, Answer
      <4>4. call' \in [Caller -> Call]
        BY <3>1, <4>3 DEF PutRequest, TypeOK
      <4>. QED
        BY <4>2, <4>4
    <3>2. op # "ClientTx" => [op |-> op, res |-> k] \in Request
      BY DEF Request
    <3>3. \A g \in Conn : op = "ClientTx" => [op |-> op, res |-> k, tx |-> g] \in Request
      BY DEF Request
    <3>4. mailbox' \in [Channel -> Seq(Request)] /\ call' \in [Caller -> Call]
      <4>1. CASE op = "ClientTx"
        <5>1. PICK g \in Conn : PutRequest(c, [op |-> op, res |-> k, tx |-> g])
          BY <2>3, <4>1 DEF Ask
        <5>. QED
          BY <4>1, <5>1, <3>1, <3>3
      <4>2. CASE op # "ClientTx"
        <5>1. PutRequest(c, [op |-> op, res |-> k])
          BY <2>3, <4>2 DEF Ask
        <5>. QED
          BY <4>2, <5>1, <3>1, <3>2
      <4>. QED
        BY <4>1, <4>2
    <3>5. retired' \in [Channel -> BOOLEAN]
      BY <2>3, Zenon DEF Ask, TypeOK
    <3>6. fault' \subseteq {"cancel", "conn_loss", "use_after_leave"}
      BY <2>3, FaultType DEF Ask
    <3>. QED
      BY <2>3, <3>4, <3>5, <3>6 DEF Ask, Spend, TypeOK, wireVars
  <2>4. ASSUME NEW k \in Caller, Resume(k) PROVE TypeOK'
    BY <2>4 DEF Resume, TypeOK, chanVars, wireVars, Idle, Call, AwaitOps, Answer
  <2>5. ASSUME NEW k \in Caller, Abandon(k) PROVE TypeOK'
    <3>1. \A r \in Request : [r EXCEPT !.res = NoOne] \in Request
      BY DEF Request
    <3>2. \A c \in Channel : mailbox'[c] \in Seq(Request)
      <4>1. SUFFICES ASSUME NEW c \in Channel PROVE mailbox'[c] \in Seq(Request)
        OBVIOUS
      <4>2. mailbox[c] \in Seq(Request)
        BY DEF TypeOK
      <4>3. \A i \in DOMAIN mailbox[c] : mailbox[c][i] \in Request
        BY <4>2, LenProperties, ElementOfSeq
      <4>4. mailbox'[c] \in [DOMAIN mailbox[c] -> Request]
        BY <2>5, <3>1, <4>3 DEF Abandon
      <4>. QED
        BY <4>2, <4>4, SameDomainIsSeq
    <3>3. mailbox' \in [Channel -> Seq(Request)]
      BY <2>5, <3>2 DEF Abandon
    <3>4. spinners' \in [Channel -> SUBSET (Caller \cup {NoOne})]
      BY <2>5 DEF Abandon, TypeOK
    <3>5. call' \in [Caller -> Call]
      BY <2>5 DEF Abandon, TypeOK, Idle, Call, AwaitOps, Answer
    <3>6. /\ budget > 0 /\ budget' = budget - 1
          /\ UNCHANGED <<actor, chState, clientTx, joinToken, rx, msgTask,
                         out, txOpen, token, retired>>
          /\ fault' = fault \cup {"cancel"}
      BY <2>5 DEF Abandon, Spend, wireVars
    <3>. QED
      BY <3>3, <3>4, <3>5, <3>6 DEF TypeOK
  <2>6. ASSUME NEW c \in Channel, NEW m \in Inbound, Route(c, m) PROVE TypeOK'
    <3>1. Append(rx[c], m) \in Seq(Inbound)
      BY AppendProperties DEF TypeOK
    <3>2. rx' \in [Channel -> Seq(Inbound)]
      BY <2>6, <3>1 DEF Route, TypeOK
    <3>. QED
      BY <2>6, <3>2 DEF Route, Spend, TypeOK, wireVars
  <2>7. ASSUME NEW g \in Conn, DropConn(g) PROVE TypeOK'
    BY <2>7 DEF DropConn, Spend, TypeOK, chanVars
  <2>8. CASE SetToken
    BY <2>8 DEF SetToken, Spend, TypeOK, chanVars, wireVars
  <2>. QED
    BY <1>4, <2>1, <2>2, <2>3, <2>4, <2>5, <2>6, <2>7, <2>8 DEF Environment
<1>5. CASE UNCHANGED vars
  BY <1>5 DEF vars, chanVars, wireVars, TypeOK
<1>. QED
  BY <1>1, <1>2, <1>3, <1>4, <1>5 DEF Next

\* Every state of the channel side is well typed: the mailboxes hold requests,
\* the queues frames, and the budget of the environment stays a natural number.
THEOREM TypeCorrect == Spec => []TypeOK
<1>1. Init => TypeOK
  <2>1. \A S : <<>> \in Seq(S)
    BY EmptySeq
  <2>. QED
    BY <2>1, ChannelAssumption
    DEF Init, TypeOK, ChannelStates, Idle, Call, AwaitOps, Answer
<1>. QED
  BY <1>1, TypeStep, PTL DEF Spec

-----------------------------------------------------------------------------
(* What a step may do to the frames already written.                       *)

\* The running actor of channel c has added frame f to its connection. A frame
\* with a token carries that of the join payload, and when the channel is in
\* Leaving afterwards the frame is its phx_leave.
Appended(c, f) ==
  /\ actor[c] = "running"
  /\ f.from = c
  /\ out' = [out EXCEPT ![clientTx[c]] = Append(@, f)]
  /\ f.event \in TokenEvents => f.tok = joinToken'[c]
  /\ \A d \in Channel : d # c => chState'[d] = chState[d]
  /\ chState'[c] = "Leaving" => f = PlainFrame(c, "phx_leave")

\* Nothing is written, and no channel enters Leaving.
Silent ==
  /\ out' = out
  /\ \A c \in Channel : chState'[c] = "Leaving" => chState[c] = "Leaving"

\* subscribe() queues nothing, or one phx_join of the channel with its token.
LEMMA JoinAppends ==
  ASSUME TypeOK, NEW c \in Channel, actor[c] = "running", StartJoin(c),
         joinToken' = joinToken
  PROVE  Silent \/ \E f \in Frame : Appended(c, f)
<1>1. chState'[c] = "Joining" /\ \A d \in Channel : d # c => chState'[d] = chState[d]
  BY DEF StartJoin, TypeOK
<1>2. JoinFrame(c) \in Frame /\ JoinFrame(c).from = c /\ JoinFrame(c).tok = joinToken[c]
  BY DEF TypeOK, JoinFrame, Frame, TokenEvents
<1>3. CASE out' = [out EXCEPT ![clientTx[c]] = Append(@, JoinFrame(c))]
  BY <1>1, <1>2, <1>3 DEF Appended
<1>4. CASE UNCHANGED out
  BY <1>1, <1>4 DEF Silent
<1>. QED
  BY <1>3, <1>4 DEF StartJoin

\* A frame without a token that goes out is queued at the end of one connection.
LEMMA PlainAppends ==
  ASSUME TypeOK, NEW c \in Channel, actor[c] = "running", NEW e \in PlainEvents,
         SendFrame(c, PlainFrame(c, e)), chState' = chState
  PROVE  \E f \in Frame : Appended(c, f)
<1>1. PlainFrame(c, e) \in Frame /\ PlainFrame(c, e).from = c /\ PlainFrame(c, e).event = e
  BY PlainFrameType DEF PlainFrame
<1>2. e \notin TokenEvents
  BY DEF PlainEvents, TokenEvents
<1>. QED
  BY <1>1, <1>2 DEF SendFrame, MaySend, Appended

\* Every step writes nothing, or one frame of one channel.
LEMMA WireStep ==
  ASSUME TypeOK, [Next]_vars
  PROVE  Silent \/ \E c \in Channel, f \in Frame : Appended(c, f)
<1>1. ASSUME NEW c \in Channel, Actor(c)
      PROVE  Silent \/ \E f \in Frame : Appended(c, f)
  <2>1. CASE HandleSubscribe(c)
    BY <2>1, JoinAppends DEF HandleSubscribe, Handles
  <2>2. CASE HandleSubscribeBlocking(c)
    BY <2>2, JoinAppends DEF HandleSubscribeBlocking, Handles
  <2>3. CASE HandleUnsubscribe(c)
    <3>1. CASE UNCHANGED <<chState, out>>
      BY <3>1 DEF Silent
    <3>2. CASE /\ SendFrame(c, PlainFrame(c, "phx_leave"))
               /\ chState' = [chState EXCEPT ![c] = "Leaving"]
      <4>1. PlainFrame(c, "phx_leave") \in Frame
        BY PlainFrameType DEF PlainEvents
      <4>2. /\ PlainFrame(c, "phx_leave").from = c
            /\ PlainFrame(c, "phx_leave").event \notin TokenEvents
        BY DEF PlainFrame, TokenEvents
      <4>3. \A d \in Channel : d # c => chState'[d] = chState[d]
        BY <3>2 DEF TypeOK
      <4>4. actor[c] = "running"
        BY <2>3 DEF HandleUnsubscribe, Handles
      <4>5. Appended(c, PlainFrame(c, "phx_leave"))
        BY <3>2, <4>2, <4>3, <4>4 DEF SendFrame, Appended
      <4>. QED
        BY <4>1, <4>5
    <3>3. CASE SendFails(c) /\ UNCHANGED chState
      BY <3>3 DEF SendFails, Silent
    <3>. QED
      BY <2>3, <3>1, <3>2, <3>3 DEF HandleUnsubscribe
  <2>4. CASE HandleBroadcast(c)
    BY <2>4, PlainAppends DEF HandleBroadcast, Handles, SendFails, Silent, PlainEvents
  <2>5. ASSUME NEW op, NEW event \in PlainEvents, HandlePresence(c, op, event)
        PROVE  Silent \/ \E f \in Frame : Appended(c, f)
    BY <2>5, PlainAppends DEF HandlePresence, Handles, SendFails, Silent
  <2>6. CASE HandlePresenceTrack(c)
    BY <2>5, <2>6 DEF HandlePresenceTrack, PlainEvents
  <2>7. CASE HandlePresenceUntrack(c)
    BY <2>5, <2>7 DEF HandlePresenceUntrack, PlainEvents
  <2>8. CASE HandleReAuth(c)
    <3>. DEFINE f == [event |-> "access_token", from |-> c, tok |-> token]
    <3>1. f \in Frame
      BY DEF TypeOK, Frame, TokenEvents
    <3>2. CASE SendFrame(c, f)
      BY <2>8, <3>1, <3>2
      DEF HandleReAuth, Handles, SendFrame, MaySend, TakeToken, Appended, TypeOK
    <3>3. CASE UNCHANGED out
      BY <2>8, <3>3 DEF HandleReAuth, Silent
    <3>. QED
      BY <2>8, <3>2, <3>3 DEF HandleReAuth, SendFails
  <2>9. CASE HandleClientTx(c)
    BY <2>9 DEF HandleClientTx, wireVars, Silent
  <2>10. CASE HandleQuery(c)
    BY <2>10 DEF HandleQuery, wireVars, Silent
  <2>. QED
    BY <1>1, <2>1, <2>2, <2>3, <2>4, <2>6, <2>7, <2>8, <2>9, <2>10 DEF Actor
<1>2. ASSUME NEW c \in Channel, MsgTask(c) PROVE Silent
  BY <1>2 DEF MsgTask, HandleForeignReply, HandleJoinReply, HandleEvent, CallbackPanics,
              MsgTaskEnds, AfterReply, wireVars, Silent, TypeOK
<1>3. ASSUME NEW c \in Channel, NEW k \in Caller \cup {NoOne}, SpinSeesJoined(c, k)
      PROVE  Silent
  BY <1>3 DEF SpinSeesJoined, wireVars, Silent
<1>4. CASE Environment
  BY <1>4 DEF Environment, Build, Post, Ask, Resume, Abandon, Route, DropConn, SetToken,
              chanVars, wireVars, Silent
<1>5. CASE UNCHANGED vars
  BY <1>5 DEF vars, chanVars, wireVars, Silent
<1>. QED
  BY <1>1, <1>2, <1>3, <1>4, <1>5 DEF Next

\* An append leaves the frames before it where they are.
LEMMA AppendedFrames ==
  ASSUME TypeOK, NEW c \in Channel, NEW f \in Frame, Appended(c, f), NEW g \in Conn
  PROVE  /\ Len(out[g]) \in Nat /\ DOMAIN out[g] = 1..Len(out[g])
         /\ \A i \in DOMAIN out[g] : out'[g][i] = out[g][i]
         /\ g # clientTx[c] => out'[g] = out[g]
         /\ g = clientTx[c] => DOMAIN out'[g] = 1..(Len(out[g]) + 1)
         /\ g = clientTx[c] => out'[g][Len(out[g]) + 1] = f
<1>1. out \in [Conn -> Seq(Frame)] /\ clientTx[c] \in Conn
  BY DEF TypeOK
<1>2. Len(out[g]) \in Nat /\ DOMAIN out[g] = 1..Len(out[g])
  BY <1>1, LenProperties
<1>3. CASE g # clientTx[c]
  BY <1>1, <1>2, <1>3 DEF Appended
<1>4. CASE g = clientTx[c]
  <2>1. out'[g] = Append(out[g], f)
    BY <1>1, <1>4 DEF Appended
  <2>2. /\ Append(out[g], f) \in Seq(Frame)
        /\ Len(Append(out[g], f)) = Len(out[g]) + 1
        /\ \A i \in 1..Len(out[g]) : Append(out[g], f)[i] = out[g][i]
        /\ Append(out[g], f)[Len(out[g]) + 1] = f
    BY <1>1, AppendProperties
  <2>3. DOMAIN out'[g] = 1..(Len(out[g]) + 1)
    BY <2>1, <2>2, LenProperties
  <2>. QED
    BY <1>2, <1>4, <2>1, <2>2, <2>3
<1>. QED
  BY <1>3, <1>4

-----------------------------------------------------------------------------
(* A left channel has said so.                                             *)

\* However requests, replies and broken connections interleave, a channel in
\* Leaving has queued a phx_leave and nothing after it on that connection.
THEOREM LeaveIsSent == Spec => []LeavingMeansLeft
<1>1. Init => LeavingMeansLeft
  BY DEF Init, LeavingMeansLeft
<1>2. TypeOK /\ LeavingMeansLeft /\ [Next]_vars => LeavingMeansLeft'
  <2>. SUFFICES ASSUME TypeOK, LeavingMeansLeft, [Next]_vars,
                       NEW c \in Channel, chState'[c] = "Leaving"
                PROVE  LeaveSent(c)'
    BY DEF LeavingMeansLeft
  <2>1. CASE Silent
    BY <2>1 DEF Silent, LeavingMeansLeft, LeaveSent, PlainFrame
  <2>2. ASSUME NEW d \in Channel, NEW f \in Frame, Appended(d, f) PROVE LeaveSent(c)'
    <3>1. CASE d = c
      <4>. DEFINE g == clientTx[c]
                  n == Len(out[g]) + 1
      <4>1. f = PlainFrame(c, "phx_leave") /\ g \in Conn
        BY <2>2, <3>1 DEF Appended, TypeOK
      <4>2. n \in Nat /\ DOMAIN out'[g] = 1..n /\ out'[g][n] = f
        BY <2>2, <3>1, <4>1, AppendedFrames
      <4>3. n \in DOMAIN out'[g] /\ \A j \in DOMAIN out'[g] : ~(j > n)
        BY <4>2, AppendedFrames, <2>2, <3>1, <4>1
      <4>. QED
        BY <4>1, <4>2, <4>3 DEF LeaveSent, PlainFrame
    <3>2. CASE d # c
      <4>1. chState[c] = "Leaving"
        BY <2>2, <3>2 DEF Appended
      <4>9. PICK g \in Conn : \E i \in DOMAIN out[g] :
              /\ out[g][i] = PlainFrame(c, "phx_leave")
              /\ \A j \in DOMAIN out[g] : j > i => out[g][j].from # c
        BY <4>1 DEF LeavingMeansLeft, LeaveSent
      <4>2. PICK i \in DOMAIN out[g] :
              /\ out[g][i] = PlainFrame(c, "phx_leave")
              /\ \A j \in DOMAIN out[g] : j > i => out[g][j].from # c
        BY <4>9
      <4>3. i \in DOMAIN out'[g] /\ out'[g][i] = PlainFrame(c, "phx_leave")
        BY <2>2, <4>2, AppendedFrames
      <4>4. \A j \in DOMAIN out'[g] : j > i => out'[g][j].from # c
        BY <2>2, <3>2, <4>2, AppendedFrames DEF Appended
      <4>. QED
        BY <4>3, <4>4 DEF LeaveSent, PlainFrame
    <3>. QED
      BY <3>1, <3>2
  <2>. QED
    BY <2>1, <2>2, WireStep
<1>. QED
  BY <1>1, <1>2, TypeCorrect, PTL DEF Spec

-----------------------------------------------------------------------------
(* The server never gets an older token.                                   *)

\* The invariant behind TokenNeverRegresses: the join payload is as new as every
\* frame of the channel, the client's token as new as every payload, and a
\* channel that does not exist yet has written nothing.
TokenInv ==
  /\ TokenNeverRegresses
  /\ \A c \in Channel : joinToken[c] <= token
  /\ \A c \in Channel, g \in Conn : \A i \in DOMAIN out[g] :
       /\ TokenFrame(c, g, i) => out[g][i].tok <= joinToken[c]
       /\ actor[c] = "unbuilt" => out[g][i].from # c

\* How a step moves the tokens.
LEMMA TokenStep ==
  ASSUME TypeOK, \A c \in Channel : joinToken[c] <= token, [Next]_vars
  PROVE  \A c \in Channel :
           /\ joinToken'[c] <= token'
           /\ actor[c] # "unbuilt" => joinToken[c] <= joinToken'[c]
           /\ actor'[c] = "unbuilt" => actor[c] = "unbuilt"
<1>1. ASSUME NEW d \in Channel, Actor(d)
      PROVE  /\ token' = token
             /\ actor' = actor \/ actor' = [actor EXCEPT ![d] = "panicked"]
             /\ joinToken' = joinToken \/ joinToken' = [joinToken EXCEPT ![d] = token]
  BY <1>1 DEF Actor, HandleSubscribe, HandleSubscribeBlocking, HandleUnsubscribe,
              HandleBroadcast, HandlePresenceTrack, HandlePresenceUntrack,
              HandlePresence, HandleReAuth, HandleClientTx, HandleQuery, Respond, Panic,
              TakeToken
<1>2. ASSUME NEW d \in Channel, Actor(d) PROVE actor[d] = "running"
  BY <1>2 DEF Actor, HandleSubscribe, HandleSubscribeBlocking, HandleUnsubscribe,
              HandleBroadcast, HandlePresenceTrack, HandlePresenceUntrack,
              HandlePresence, HandleReAuth, HandleClientTx, HandleQuery, Handles
<1>3. ASSUME NEW d \in Channel, MsgTask(d) PROVE UNCHANGED <<token, actor, joinToken>>
  BY <1>3 DEF MsgTask, HandleForeignReply, HandleJoinReply, HandleEvent, CallbackPanics,
              MsgTaskEnds
<1>4. ASSUME NEW d \in Channel, NEW k \in Caller \cup {NoOne}, SpinSeesJoined(d, k)
      PROVE  UNCHANGED <<token, actor, joinToken>>
  BY <1>4 DEF SpinSeesJoined
<1>5. CASE Environment
  <2>1. ASSUME NEW d \in Channel, Build(d)
        PROVE  /\ token' = token /\ actor[d] = "unbuilt"
               /\ actor' = [actor EXCEPT ![d] = "running"]
               /\ \E t \in 0..token : joinToken' = [joinToken EXCEPT ![d] = t]
    BY <2>1 DEF Build
  <2>2. CASE SetToken
    BY <2>2 DEF SetToken, chanVars, TypeOK
  <2>3. \/ \E d \in Channel : Build(d)
        \/ SetToken
        \/ UNCHANGED <<token, actor, joinToken>>
    BY <1>5 DEF Environment, Post, Ask, Resume, Abandon, Route, DropConn, chanVars
  <2>. QED
    BY <2>1, <2>2, <2>3 DEF TypeOK
<1>7. \A c \in Channel : joinToken[c] \in Nat /\ joinToken'[c] \in Nat /\ token \in Nat
  BY TypeStep DEF TypeOK
<1>8. CASE UNCHANGED <<token, actor, joinToken>>
  BY <1>7, <1>8
<1>9. ASSUME NEW d \in Channel, Actor(d)
      PROVE  \A c \in Channel :
               /\ joinToken'[c] <= token'
               /\ joinToken[c] <= joinToken'[c]
               /\ actor'[c] = "unbuilt" => actor[c] = "unbuilt"
  <2>1. TypeOK /\ token' = token /\ actor[d] = "running"
    BY <1>1, <1>2, <1>9
  <2>2. \A c \in Channel : joinToken'[c] = joinToken[c] \/ joinToken'[c] = token
    BY <1>1, <1>9, <2>1 DEF TypeOK
  <2>3. \A c \in Channel : actor'[c] = "unbuilt" => actor[c] = "unbuilt"
    BY <1>1, <1>9, <2>1 DEF TypeOK
  <2>. QED
    BY <1>7, <2>1, <2>2, <2>3
<1>10. \/ \E d \in Channel : Actor(d)
       \/ Environment
       \/ UNCHANGED <<token, actor, joinToken>>
  <2>1. CASE UNCHANGED vars
    BY <2>1 DEF vars, chanVars
  <2>2. CASE Next
    BY <2>2, <1>3, <1>4 DEF Next
  <2>. QED
    BY <2>1, <2>2
<1>. QED
  BY <1>5, <1>8, <1>9, <1>10

\* On one connection the tokens of a channel's frames never go down, whenever
\* the token is set, reauth handled and the channel rejoined.
THEOREM TokensNeverRegress == Spec => []TokenNeverRegresses
<1>1. Init => TokenInv
  BY DEF Init, TokenInv, TokenNeverRegresses
<1>2. TypeOK /\ TokenInv /\ [Next]_vars => TokenInv'
  <2>. SUFFICES ASSUME TypeOK, TypeOK', TokenInv, [Next]_vars PROVE TokenInv'
    BY TypeStep
  <2>1. /\ \A c \in Channel : joinToken'[c] <= token'
        /\ \A c \in Channel : actor[c] # "unbuilt" => joinToken[c] <= joinToken'[c]
        /\ \A c \in Channel : actor'[c] = "unbuilt" => actor[c] = "unbuilt"
    BY TokenStep DEF TokenInv
  <2>2. \A c \in Channel, g \in Conn : \A i \in DOMAIN out[g] :
          TokenFrame(c, g, i) => out[g][i].tok \in Nat /\ actor[c] # "unbuilt"
    <3>1. \A g \in Conn : \A i \in DOMAIN out[g] : out[g][i] \in Frame
      BY LenProperties, ElementOfSeq DEF TypeOK
    <3>. QED
      BY <3>1 DEF TokenInv, TokenFrame, Frame, PlainEvents, TokenEvents
  <2>3. CASE Silent
    <3>1. out' = out
      BY <2>3 DEF Silent
    <3>. QED
      BY <2>1, <2>2, <3>1 DEF TokenInv, TokenNeverRegresses, TokenFrame, TypeOK
  <2>4. ASSUME NEW d \in Channel, NEW f \in Frame, Appended(d, f) PROVE TokenInv'
    <3>1. ASSUME NEW c \in Channel, NEW g \in Conn, NEW i \in DOMAIN out'[g]
          PROVE  /\ TokenFrame(c, g, i)' => out'[g][i].tok <= joinToken'[c]
                 /\ actor'[c] = "unbuilt" => out'[g][i].from # c
      <4>1. CASE i \in DOMAIN out[g]
        <5>1. out'[g][i] = out[g][i]
          BY <2>4, <4>1, AppendedFrames
        <5>2. actor'[c] = "unbuilt" => out'[g][i].from # c
          BY <2>1, <4>1, <5>1 DEF TokenInv
        <5>3. ASSUME TokenFrame(c, g, i)' PROVE out'[g][i].tok <= joinToken'[c]
          <6>1. TokenFrame(c, g, i)
            BY <4>1, <5>1, <5>3 DEF TokenFrame
          <6>2. out[g][i].tok <= joinToken[c] /\ out[g][i].tok \in Nat
            BY <2>2, <4>1, <6>1 DEF TokenInv
          <6>3. joinToken[c] <= joinToken'[c]
            BY <2>1, <2>2, <4>1, <6>1
          <6>4. joinToken[c] \in Nat /\ joinToken'[c] \in Nat
            BY DEF TypeOK
          <6>. QED
            BY <5>1, <6>2, <6>3, <6>4
        <5>. QED
          BY <5>2, <5>3
      <4>2. CASE i \notin DOMAIN out[g]
        <5>1. out'[g][i] = f
          BY <2>4, <4>2, AppendedFrames
        <5>2. f.from = d /\ actor'[d] # "unbuilt"
          BY <2>1, <2>4 DEF Appended
        <5>3. f.event \in TokenEvents => f.tok = joinToken'[d]
          BY <2>4 DEF Appended
        <5>4. joinToken'[c] \in Nat
          BY DEF TypeOK
        <5>. QED
          BY <5>1, <5>2, <5>3, <5>4 DEF TokenFrame
      <4>. QED
        BY <4>1, <4>2
    <3>2. ASSUME NEW c \in Channel, NEW g \in Conn,
                 NEW i \in DOMAIN out'[g], NEW j \in DOMAIN out'[g],
                 TokenFrame(c, g, i)', TokenFrame(c, g, j)', i <= j
          PROVE  out'[g][i].tok <= out'[g][j].tok
      <4>1. CASE j \in DOMAIN out[g]
        <5>1. i \in DOMAIN out[g] /\ out'[g][i] = out[g][i] /\ out'[g][j] = out[g][j]
          BY <2>4, <3>2, <4>1, AppendedFrames
        <5>. QED
          BY <3>2, <4>1, <5>1 DEF TokenInv, TokenNeverRegresses, TokenFrame
      <4>2. CASE j \notin DOMAIN out[g]
        <5>1. out'[g][j] = f
          BY <2>4, <4>2, AppendedFrames
        <5>2. f.from = c /\ f.tok = joinToken'[c]
          BY <2>4, <3>2, <5>1 DEF TokenFrame, Appended
        <5>. QED
          BY <3>1, <3>2, <5>1, <5>2
      <4>. QED
        BY <4>1, <4>2
    <3>. QED
      BY <2>1, <3>1, <3>2 DEF TokenInv, TokenNeverRegresses, TokenFrame
  <2>. QED
    BY <2>3, <2>4, WireStep
<1>. QED
  BY <1>1, <1>2, TypeCorrect, PTL DEF Spec, TokenInv

-----------------------------------------------------------------------------
(* Before the first fault no unwrap() of the actor fails.                  *)

\* Of a mailbox q: every request that will be answered has somebody to answer,
\* and nothing that sends was queued behind an unsubscribe.
Answerable(q) == \A i \in DOMAIN q : q[i].op \in AwaitOps => q[i].res \in Caller
HasLeave(q)   == \E i \in DOMAIN q : q[i].op = "Unsubscribe"
HasSend(q)    == \E i \in DOMAIN q : q[i].op \in SendOps
LeaveLast(q)  == \A i, j \in DOMAIN q :
                   i < j /\ q[i].op = "Unsubscribe" => q[j].op \notin SendOps

\* The invariant behind NoPanic, while there is no fault: no actor has panicked,
\* connections are up, the mailboxes are as above, and neither an unsubscribe in
\* the mailbox nor the state Leaving leaves room for a request that sends.
Calm ==
  /\ \A c \in Channel : actor[c] # "panicked"
  /\ \A g \in Conn : txOpen[g]
  /\ \A c \in Channel :
       /\ Answerable(mailbox[c])
       /\ LeaveLast(mailbox[c])
       /\ HasLeave(mailbox[c]) => retired[c]
       /\ chState[c] = "Leaving" => retired[c] /\ ~HasSend(mailbox[c])
CalmInv == fault = {} => Calm

\* What taking the first request leaves of a mailbox.
LEMMA TailQueue ==
  ASSUME NEW q \in Seq(Request), q # <<>>
  PROVE  /\ Answerable(q) => Answerable(Tail(q))
         /\ Answerable(q) /\ Head(q).op \in AwaitOps => Head(q).res \in Caller
         /\ LeaveLast(q) => LeaveLast(Tail(q))
         /\ LeaveLast(q) /\ Head(q).op = "Unsubscribe" => ~HasSend(Tail(q))
         /\ HasLeave(Tail(q)) => HasLeave(q)
         /\ HasSend(Tail(q)) => HasSend(q)
         /\ Head(q).op = "Unsubscribe" => HasLeave(q)
         /\ Head(q).op \in SendOps => HasSend(q)
<1>1. /\ Tail(q) \in Seq(Request) /\ Len(Tail(q)) = Len(q) - 1
      /\ \A i \in 1..Len(Tail(q)) : Tail(q)[i] = q[i + 1]
  BY HeadTailProperties
<1>2. /\ Len(q) \in Nat \ {0} /\ DOMAIN q = 1..Len(q)
      /\ DOMAIN Tail(q) = 1..Len(Tail(q))
  BY <1>1, EmptySeq, LenProperties
<1>3. Head(q) = q[1] /\ 1 \in DOMAIN q
  BY <1>2
<1>4. \A i \in DOMAIN Tail(q) : i + 1 \in DOMAIN q /\ Tail(q)[i] = q[i + 1] /\ 1 < i + 1
  BY <1>1, <1>2
<1>5. \A i, j \in DOMAIN Tail(q) : i < j => i + 1 < j + 1
  BY <1>2
<1>6. /\ Answerable(q) => Answerable(Tail(q))
      /\ Answerable(q) /\ Head(q).op \in AwaitOps => Head(q).res \in Caller
  BY <1>3, <1>4 DEF Answerable
<1>7. /\ LeaveLast(q) => LeaveLast(Tail(q))
      /\ LeaveLast(q) /\ Head(q).op = "Unsubscribe" => ~HasSend(Tail(q))
  BY <1>3, <1>4, <1>5 DEF LeaveLast, HasSend
<1>. QED
  BY <1>3, <1>4, <1>6, <1>7 DEF HasLeave, HasSend

\* What one more request makes of a mailbox.
LEMMA AppendQueue ==
  ASSUME NEW q \in Seq(Request), NEW r \in Request
  PROVE  /\ Answerable(q) /\ (r.op \in AwaitOps => r.res \in Caller)
              => Answerable(Append(q, r))
         /\ LeaveLast(q) /\ (r.op \in SendOps => ~HasLeave(q))
              => LeaveLast(Append(q, r))
         /\ HasLeave(Append(q, r)) => HasLeave(q) \/ r.op = "Unsubscribe"
         /\ HasSend(Append(q, r)) => HasSend(q) \/ r.op \in SendOps
<1>1. /\ Append(q, r) \in Seq(Request) /\ Len(Append(q, r)) = Len(q) + 1
      /\ \A i \in 1..Len(q) : Append(q, r)[i] = q[i]
      /\ Append(q, r)[Len(q) + 1] = r
  BY AppendProperties
<1>2. /\ Len(q) \in Nat /\ DOMAIN q = 1..Len(q)
      /\ DOMAIN Append(q, r) = 1..(Len(q) + 1)
  BY <1>1, LenProperties
<1>3. \A i \in DOMAIN Append(q, r) :
        \/ i \in DOMAIN q /\ Append(q, r)[i] = q[i]
        \/ i = Len(q) + 1 /\ Append(q, r)[i] = r
  BY <1>1, <1>2
<1>4. \A i, j \in DOMAIN Append(q, r) : i < j => i \in DOMAIN q
  BY <1>2
<1>. QED
  BY <1>3, <1>4 DEF Answerable, LeaveLast, HasLeave, HasSend

\* A fault that has happened has happened.
LEMMA FaultsStay == [Next]_vars => fault \subseteq fault'
BY DEF Next, vars, chanVars, Actor, HandleSubscribe, HandleSubscribeBlocking,
       HandleUnsubscribe, HandleBroadcast, HandlePresenceTrack, HandlePresenceUntrack,
       HandlePresence, HandleReAuth, HandleClientTx, HandleQuery, MsgTask,
       HandleForeignReply, HandleJoinReply, HandleEvent, CallbackPanics, MsgTaskEnds,
       SpinSeesJoined, Environment, Build, Post, Ask, MayPost, Resume, Abandon, Route,
       DropConn, SetToken

\* Under Calm a handler never panics: it takes its request, and it brings
\* the channel to Leaving only by an unsubscribe.
LEMMA CalmActor ==
  ASSUME TypeOK, Calm, NEW c \in Channel, Actor(c)
  PROVE  /\ mailbox[c] \in Seq(Request) /\ mailbox[c] # <<>> /\ Pop(c)
         /\ UNCHANGED <<actor, txOpen, retired>>
         /\ \/ chState' = chState
            \/ chState' = [chState EXCEPT ![c] = "Joining"]
            \/ /\ Req(c).op = "Unsubscribe"
               /\ chState' = [chState EXCEPT ![c] = "Leaving"]
<1>1. PICK op : Handles(c, op)
  BY DEF Actor, HandleSubscribe, HandleSubscribeBlocking, HandleUnsubscribe,
         HandleBroadcast, HandlePresenceTrack, HandlePresenceUntrack,
         HandlePresence, HandleReAuth, HandleClientTx, HandleQuery
<1>2. mailbox[c] \in Seq(Request) /\ mailbox[c] # <<>>
  BY <1>1, HandlesType
<1>3. Req(c).op \in AwaitOps => Req(c).res \in Caller
  BY <1>2, TailQueue DEF Calm, Req
<1>4. Req(c).op \in SendOps => MaySend(c)
  BY <1>2, TailQueue DEF Calm, Req, MaySend
<1>5. Connected(c)
  BY DEF Calm, Connected, TypeOK
<1>6. ASSUME NEW v, Respond(c, v), Req(c).op \in AwaitOps
      PROVE  Pop(c) /\ UNCHANGED actor
  BY <1>3, <1>6, ChannelAssumption DEF Respond
<1>7. CASE HandleSubscribe(c) \/ HandleSubscribeBlocking(c)
  BY <1>2, <1>7 DEF HandleSubscribe, HandleSubscribeBlocking, StartJoin
<1>8. CASE HandleUnsubscribe(c)
  <2>1. Req(c).op = "Unsubscribe" /\ Req(c).op \in AwaitOps
    BY <1>8 DEF HandleUnsubscribe, Handles, AwaitOps
  <2>2. Pop(c) /\ UNCHANGED actor
    BY <1>6, <1>8, <2>1 DEF HandleUnsubscribe
  <2>. QED
    BY <1>2, <1>8, <2>1, <2>2 DEF HandleUnsubscribe
<1>9. CASE HandleBroadcast(c)
  <2>1. Req(c).op \in SendOps
    BY <1>9 DEF HandleBroadcast, Handles, SendOps
  <2>. QED
    BY <1>2, <1>4, <1>5, <1>9, <2>1 DEF HandleBroadcast, SendFails
<1>10. CASE HandlePresenceTrack(c) \/ HandlePresenceUntrack(c)
  <2>1. Req(c).op \in SendOps /\ Req(c).op \in AwaitOps
    BY <1>10 DEF HandlePresenceTrack, HandlePresenceUntrack, HandlePresence, Handles,
                 SendOps, AwaitOps
  <2>2. Respond(c, "unit") /\ UNCHANGED <<txOpen, retired, chState>>
    BY <1>4, <1>5, <1>10, <2>1
    DEF HandlePresenceTrack, HandlePresenceUntrack, HandlePresence, SendFails
  <2>. QED
    BY <1>2, <1>6, <2>1, <2>2
<1>11. CASE HandleReAuth(c)
  <2>1. Req(c).op \in AwaitOps
    BY <1>11 DEF HandleReAuth, Handles, AwaitOps
  <2>2. Respond(c, "unit") /\ UNCHANGED <<txOpen, retired, chState>>
    BY <1>5, <1>11 DEF HandleReAuth, SendFails, TellsServer, MaySend
  <2>. QED
    BY <1>2, <1>6, <2>1, <2>2
<1>12. CASE HandleClientTx(c) \/ HandleQuery(c)
  <2>1. Req(c).op \in AwaitOps
    BY <1>12 DEF HandleClientTx, HandleQuery, Handles, AwaitOps
  <2>2. (\E v : Respond(c, v)) /\ UNCHANGED <<txOpen, retired, chState>>
    BY <1>12 DEF HandleClientTx, HandleQuery, wireVars
  <2>. QED
    BY <1>2, <1>6, <2>1, <2>2
<1>. QED
  BY <1>7, <1>8, <1>9, <1>10, <1>11, <1>12 DEF Actor

\* One more request, posted under MayPost, when that is no fault.
LEMMA CalmAppend ==
  ASSUME TypeOK, Calm, fault' = {}, NEW c \in Channel, NEW r \in Request,
         MayPost(c, r.op), r.op \in AwaitOps => r.res \in Caller,
         mailbox' = [mailbox EXCEPT ![c] = Append(@, r)],
         retired' = [retired EXCEPT ![c] = @ \/ r.op = "Unsubscribe"],
         UNCHANGED <<actor, txOpen, chState>>
  PROVE  Calm'
<1>1. mailbox[c] \in Seq(Request) /\ mailbox'[c] = Append(mailbox[c], r)
  BY DEF TypeOK
<1>2. r.op \in SendOps => ~retired[c]
  BY DEF MayPost, Misuse
<1>3. retired'[c] = (retired[c] \/ r.op = "Unsubscribe")
  BY Zenon DEF TypeOK
<1>4. \A d \in Channel : d # c => mailbox'[d] = mailbox[d] /\ retired'[d] = retired[d]
  BY DEF TypeOK
<1>5. /\ Answerable(mailbox'[c]) /\ LeaveLast(mailbox'[c])
      /\ HasLeave(mailbox'[c]) => retired'[c]
      /\ chState[c] = "Leaving" => retired'[c] /\ ~HasSend(mailbox'[c])
  <2>1. /\ Answerable(mailbox[c]) /\ LeaveLast(mailbox[c])
        /\ HasLeave(mailbox[c]) => retired[c]
        /\ chState[c] = "Leaving" => retired[c] /\ ~HasSend(mailbox[c])
    BY DEF Calm
  <2>. QED
    BY <1>1, <1>2, <1>3, <2>1, AppendQueue
<1>. QED
  BY <1>4, <1>5 DEF Calm

\* Until a connection breaks, a call is abandoned or a manager is used to send
\* after its unsubscribe, no unwrap() of manager_recv fails.
THEOREM CalmNeverPanics == Spec => []NoPanic
<1>1. Init => CalmInv
  BY DEF Init, CalmInv, Calm, Answerable, LeaveLast, HasLeave, HasSend
<1>2. TypeOK /\ CalmInv /\ [Next]_vars => CalmInv'
  <2>. SUFFICES ASSUME TypeOK, CalmInv, [Next]_vars, fault' = {} PROVE Calm'
    BY DEF CalmInv
  <2>0. Calm
    BY FaultsStay DEF CalmInv
  <2>. USE <2>0
  <2>1. ASSUME NEW c \in Channel, Actor(c) PROVE Calm'
    <3>1. /\ mailbox[c] \in Seq(Request) /\ mailbox[c] # <<>>
          /\ mailbox' = [mailbox EXCEPT ![c] = Tail(@)]
          /\ UNCHANGED <<actor, txOpen, retired>>
          /\ \/ chState' = chState
             \/ chState' = [chState EXCEPT ![c] = "Joining"]
             \/ /\ Head(mailbox[c]).op = "Unsubscribe"
                /\ chState' = [chState EXCEPT ![c] = "Leaving"]
      BY <2>1, CalmActor DEF Pop, Req
    <3>2. mailbox'[c] = Tail(mailbox[c])
      BY <3>1 DEF TypeOK
    <3>3. \A d \in Channel : d # c => mailbox'[d] = mailbox[d] /\ chState'[d] = chState[d]
      BY <3>1 DEF TypeOK
    <3>4. chState'[c] = "Leaving" => chState[c] = "Leaving" \/ Head(mailbox[c]).op = "Unsubscribe"
      BY <3>1 DEF TypeOK
    <3>5. /\ Answerable(mailbox'[c]) /\ LeaveLast(mailbox'[c])
          /\ HasLeave(mailbox'[c]) => retired[c]
          /\ chState'[c] = "Leaving" => retired[c] /\ ~HasSend(mailbox'[c])
      BY <3>1, <3>2, <3>4, TailQueue DEF Calm
    <3>. QED
      BY <3>1, <3>3, <3>5 DEF Calm
  <2>2. ASSUME NEW c \in Channel, MsgTask(c) PROVE Calm'
    <3>1. /\ UNCHANGED <<actor, mailbox, txOpen, retired>>
          /\ \A d \in Channel : chState'[d] = "Leaving" => chState[d] = "Leaving"
      BY <2>2 DEF MsgTask, HandleForeignReply, HandleJoinReply, HandleEvent,
                  CallbackPanics, MsgTaskEnds, AfterReply, wireVars, TypeOK
    <3>. QED
      BY <3>1 DEF Calm
  <2>3. ASSUME UNCHANGED <<actor, mailbox, txOpen, retired, chState>> PROVE Calm'
    BY <2>3 DEF Calm
  <2>4. ASSUME NEW c \in Channel, NEW k \in Caller \cup {NoOne}, SpinSeesJoined(c, k)
        PROVE  Calm'
    BY <2>3, <2>4 DEF SpinSeesJoined, wireVars
  <2>5. CASE Environment
    <3>1. ASSUME NEW c \in Channel, Build(c) PROVE Calm'
      <4>1. \A d \in Channel : actor'[d] # "panicked"
        BY <3>1 DEF Build, Calm, TypeOK
      <4>. QED
        BY <3>1, <4>1 DEF Build, Calm, wireVars
    <3>2. ASSUME NEW c \in Channel, NEW op \in FireOps, Post(c, op) PROVE Calm'
      <4>. DEFINE r == [op |-> op, res |-> NoOne]
      <4>1. r \in Request /\ r.op = op /\ op \notin AwaitOps /\ op # "Unsubscribe"
        BY DEF Request, FireOps, AwaitOps
      <4>2. mailbox' = [mailbox EXCEPT ![c] = Append(@, r)]
        BY <3>2 DEF Post, MayPost, Calm, TypeOK
      <4>3. retired' = [retired EXCEPT ![c] = @ \/ r.op = "Unsubscribe"]
        <5>1. retired' = retired /\ retired \in [Channel -> BOOLEAN]
          BY <3>2 DEF Post, TypeOK
        <5>2. (retired[c] \/ r.op = "Unsubscribe") = retired[c]
          BY <4>1, <5>1
        <5>. QED
          BY <5>1, <5>2
      <4>4. MayPost(c, op) /\ UNCHANGED <<actor, txOpen, chState>>
        BY <3>2 DEF Post, wireVars
      <4>. QED
        BY <4>1, <4>2, <4>3, <4>4, CalmAppend
    <3>3. ASSUME NEW k \in Caller, NEW c \in Channel, NEW op \in AwaitOps,
                 Ask(k, c, op)
          PROVE  Calm'
      <4>1. PICK r : /\ PutRequest(c, r) /\ r.op = op /\ r.res = k /\ r \in Request
        <5>1. CASE op = "ClientTx"
          <6>1. PICK g \in Conn : PutRequest(c, [op |-> op, res |-> k, tx |-> g])
            BY <3>3, <5>1 DEF Ask
          <6>2. [op |-> op, res |-> k, tx |-> g] \in Request
            BY <5>1 DEF Request
          <6>. QED
            BY <6>1, <6>2
        <5>2. CASE op # "ClientTx"
          BY <3>3, <5>2 DEF Ask, Request
        <5>. QED
          BY <5>1, <5>2
      <4>2. mailbox' = [mailbox EXCEPT ![c] = Append(@, r)]
        BY <4>1 DEF PutRequest, Calm
      <4>3. /\ MayPost(c, op) /\ UNCHANGED <<actor, txOpen, chState>>
            /\ retired' = [retired EXCEPT ![c] = @ \/ op = "Unsubscribe"]
        BY <3>3 DEF Ask, wireVars
      <4>. QED
        BY <4>1, <4>2, <4>3, CalmAppend
    <3>4. ASSUME NEW g \in Conn, DropConn(g) PROVE FALSE
      BY <3>4 DEF DropConn
    <3>5. ASSUME NEW k \in Caller, Abandon(k) PROVE FALSE
      BY <3>5 DEF Abandon
    <3>6. ASSUME \/ \E k \in Caller : Resume(k)
                 \/ \E c \in Channel, m \in Inbound : Route(c, m)
                 \/ SetToken
          PROVE  Calm'
      BY <2>3, <3>6 DEF Resume, Route, SetToken, chanVars, wireVars
    <3>. QED
      BY <2>5, <3>1, <3>2, <3>3, <3>4, <3>5, <3>6 DEF Environment
  <2>6. CASE UNCHANGED vars
    BY <2>3, <2>6 DEF vars, chanVars, wireVars
  <2>. QED
    BY <2>1, <2>2, <2>4, <2>5, <2>6 DEF Next
<1>3. CalmInv => NoPanic
  BY DEF CalmInv, Calm, NoPanic
<1>. QED
  BY <1>1, <1>2, <1>3, TypeCorrect, PTL DEF Spec

-----------------------------------------------------------------------------
(* The channel in full implements ChannelView.                             *)

Seen == [c \in Channel |-> Shows(c)]

\* A channel that has not been built is closed and has no task.
UnbuiltFresh ==
  \A c \in Channel : actor[c] = "unbuilt" => chState[c] = "Closed" /\ msgTask[c] = "none"

\* What the channels other than c show does not change.
OthersStay(c) ==
  \A d \in Channel : d # c =>
    /\ actor'[d] = actor[d] /\ chState'[d] = chState[d]
    /\ clientTx'[d] = clientTx[d] /\ joinToken'[d] = joinToken[d]

\* Channel c moves on its own, and Seen changes at c alone.
LEMMA SeenMoves ==
  ASSUME NEW c \in Channel, OthersStay(c)
  PROVE  Seen' = [Seen EXCEPT ![c] = Shows(c)']
<1>1. \A d \in Channel : d # c => Shows(d)' = Shows(d)
  BY DEF OthersStay, Shows
<1>. QED
  BY <1>1 DEF Seen

\* What a running channel shows.
LEMMA RunningShows ==
  ASSUME TypeOK, NEW c \in Channel, actor[c] = "running"
  PROVE  /\ Seen[c] = [st |-> chState[c], tx |-> clientTx[c], tok |-> joinToken[c]]
         /\ Seen[c].st = chState[c] /\ Seen[c].tx = clientTx[c]
         /\ Seen[c].st \in View!LiveStates
BY DEF Seen, Shows, TypeOK, ChannelStates, View!LiveStates

\* Only a running actor moves, and in one of the ways a channel shows: it stays,
\* joins, leaves, changes connection, takes the token, or panics.
LEMMA ActorShows ==
  ASSUME TypeOK, NEW c \in Channel, Actor(c)
  PROVE  /\ actor[c] = "running" /\ OthersStay(c) /\ UNCHANGED <<txOpen, token>>
         /\ \/ actor'[c] = "panicked"
            \/ /\ actor'[c] = "running"
               /\ \/ UNCHANGED <<chState, clientTx, joinToken>>
                  \/ chState'[c] = "Joining" /\ UNCHANGED <<clientTx, joinToken>>
                  \/ /\ chState[c] \notin {"Closed", "Leaving"} /\ Connected(c)
                     /\ chState'[c] = "Leaving" /\ UNCHANGED <<clientTx, joinToken>>
                  \/ clientTx'[c] \in Conn /\ UNCHANGED <<chState, joinToken>>
                  \/ /\ chState[c] = "Joined" => Connected(c)
                     /\ joinToken'[c] = token /\ UNCHANGED <<chState, clientTx>>
<1>1. actor[c] = "running"
  BY DEF Actor, HandleSubscribe, HandleSubscribeBlocking, HandleUnsubscribe,
         HandleBroadcast, HandlePresenceTrack, HandlePresenceUntrack,
         HandlePresence, HandleReAuth, HandleClientTx, HandleQuery, Handles
<1>2. ASSUME NEW v, Respond(c, v)
      PROVE  (actor' = actor \/ actor' = [actor EXCEPT ![c] = "panicked"])
  BY <1>2 DEF Respond, Panic
<1>3. ASSUME actor' = actor \/ actor' = [actor EXCEPT ![c] = "panicked"]
      PROVE  /\ actor'[c] \in {"running", "panicked"}
             /\ \A d \in Channel : d # c => actor'[d] = actor[d]
  BY <1>1, <1>3 DEF TypeOK
<1>4. CASE HandleSubscribe(c) \/ HandleSubscribeBlocking(c)
  BY <1>1, <1>3, <1>4 DEF HandleSubscribe, HandleSubscribeBlocking, StartJoin, OthersStay, TypeOK
<1>5. CASE HandleUnsubscribe(c)
  <2>1. actor' = actor \/ actor' = [actor EXCEPT ![c] = "panicked"]
    BY <1>2, <1>5 DEF HandleUnsubscribe
  <2>2. /\ UNCHANGED <<txOpen, token, clientTx, joinToken>>
        /\ \/ chState' = chState
           \/ /\ chState[c] \notin {"Closed", "Leaving"} /\ Connected(c)
              /\ chState' = [chState EXCEPT ![c] = "Leaving"]
    BY <1>5 DEF HandleUnsubscribe, SendFrame
  <2>. QED
    BY <1>1, <1>3, <2>1, <2>2 DEF OthersStay, TypeOK
<1>6. CASE HandleBroadcast(c)
  BY <1>1, <1>3, <1>6 DEF HandleBroadcast, Panic, OthersStay
<1>7. CASE HandlePresenceTrack(c) \/ HandlePresenceUntrack(c)
  <2>1. actor' = actor \/ actor' = [actor EXCEPT ![c] = "panicked"]
    BY <1>2, <1>7 DEF HandlePresenceTrack, HandlePresenceUntrack, HandlePresence, Panic
  <2>. QED
    BY <1>1, <1>3, <1>7, <2>1
    DEF HandlePresenceTrack, HandlePresenceUntrack, HandlePresence, OthersStay
<1>8. CASE HandleReAuth(c)
  <2>1. actor' = actor \/ actor' = [actor EXCEPT ![c] = "panicked"]
    BY <1>2, <1>8 DEF HandleReAuth, Panic
  <2>2. /\ UNCHANGED <<txOpen, token, clientTx, chState>>
        /\ joinToken' = [joinToken EXCEPT ![c] = token]
        /\ (chState[c] = "Joined" => Connected(c)) \/ Panic(c)
    BY <1>8 DEF HandleReAuth, TakeToken, TellsServer, SendFrame
  <2>3. Panic(c) => actor'[c] = "panicked"
    BY DEF Panic, TypeOK
  <2>. QED
    BY <1>1, <1>3, <2>1, <2>2, <2>3 DEF OthersStay, TypeOK
<1>9. CASE HandleClientTx(c)
  <2>1. actor' = actor \/ actor' = [actor EXCEPT ![c] = "panicked"]
    BY <1>2, <1>9 DEF HandleClientTx
  <2>2. Req(c).tx \in Conn
    BY <1>9, HandlesType DEF HandleClientTx
  <2>. QED
    BY <1>1, <1>3, <1>9, <2>1, <2>2 DEF HandleClientTx, OthersStay, TypeOK, wireVars
<1>10. CASE HandleQuery(c)
  <2>1. actor' = actor \/ actor' = [actor EXCEPT ![c] = "panicked"]
    BY <1>2, <1>10 DEF HandleQuery
  <2>. QED
    BY <1>1, <1>3, <1>10, <2>1 DEF HandleQuery, OthersStay, wireVars
<1>. QED
  BY <1>4, <1>5, <1>6, <1>7, <1>8, <1>9, <1>10 DEF Actor

\* Every state and every step of a channel is one that ChannelView allows, so the
\* client may be modelled over ChannelView and the holder may rely on it.
THEOREM ImplementsView == Spec => ShowsView
<1>1. Init => View!Init
  BY DEF Init, View!Init, View!Unbuilt, Shows
<1>2. Init => UnbuiltFresh
  BY DEF Init, UnbuiltFresh
<1>3. TypeOK /\ UnbuiltFresh /\ [Next]_vars => UnbuiltFresh'
  <2>. SUFFICES ASSUME TypeOK, UnbuiltFresh, [Next]_vars PROVE UnbuiltFresh'
    OBVIOUS
  <2>1. ASSUME NEW c \in Channel, Actor(c) PROVE UnbuiltFresh'
    <3>1. UNCHANGED msgTask
      BY <2>1 DEF Actor, HandleSubscribe, HandleSubscribeBlocking, HandleUnsubscribe,
         HandleBroadcast, HandlePresenceTrack, HandlePresenceUntrack,
         HandlePresence, HandleReAuth, HandleClientTx, HandleQuery
    <3>. QED
      BY <2>1, <3>1, ActorShows DEF UnbuiltFresh, OthersStay
  <2>2. ASSUME NEW c \in Channel, MsgTask(c) PROVE UnbuiltFresh'
    BY <2>2 DEF MsgTask, HandleForeignReply, HandleJoinReply, HandleEvent, CallbackPanics,
                MsgTaskEnds, NextMsg, TaskReturns, UnbuiltFresh, TypeOK
  <2>3. ASSUME NEW c \in Channel, Build(c) PROVE UnbuiltFresh'
    BY <2>3 DEF Build, UnbuiltFresh, TypeOK
  <2>4. \/ \E c \in Channel : Actor(c) \/ MsgTask(c) \/ Build(c)
        \/ UNCHANGED <<actor, chState, msgTask>>
    BY DEF Next, vars, chanVars, Environment, Post, Ask, Resume, Abandon, Route, DropConn,
           SetToken, SpinSeesJoined
  <2>. QED
    BY <2>1, <2>2, <2>3, <2>4 DEF UnbuiltFresh
<1>4. TypeOK /\ TypeOK' /\ UnbuiltFresh /\ [Next]_vars => [View!Next]_(View!vars)
  <2>. SUFFICES ASSUME TypeOK, TypeOK', UnbuiltFresh, [Next]_vars
                PROVE  View!Next \/ UNCHANGED View!vars
    OBVIOUS
  <2>1. Seen = [c \in Channel |-> Shows(c)]
    BY DEF Seen
  <2>2. ASSUME NEW c \in Channel, Actor(c) PROVE View!Next
    <3>1. /\ Seen' = [Seen EXCEPT ![c] = Shows(c)']
          /\ Seen[c] = [st |-> chState[c], tx |-> clientTx[c], tok |-> joinToken[c]]
          /\ View!Live(c)
          /\ Seen[c].st = chState[c] /\ Seen[c].tx = clientTx[c]
      BY <2>2, ActorShows, SeenMoves, RunningShows DEF View!Live, Seen
    <3>2. CASE actor'[c] = "panicked"
      <4>1. Shows(c)' = [st |-> "panicked"]
        BY <3>2 DEF Shows
      <4>2. View!Breaks(c)
        BY <3>1, <4>1 DEF View!Breaks, View!Broken, Seen
      <4>. QED
        BY <4>2 DEF View!Next
    <3>3. CASE actor'[c] = "running"
      <4>1. Shows(c)' = [st |-> chState'[c], tx |-> clientTx'[c], tok |-> joinToken'[c]]
        BY <3>3 DEF Shows
      <4>2. CASE UNCHANGED <<chState, clientTx, joinToken>>
        <5>1. Shows(c)' = Seen[c]
          BY <3>1, <4>1, <4>2
        <5>2. Seen' = Seen
          BY <3>1, <5>1 DEF Seen
        <5>3. UNCHANGED <<txOpen, token>> /\ token \in Nat
          BY <2>2, ActorShows DEF TypeOK
        <5>4. View!Around
          BY <5>2, <5>3 DEF View!Around, Seen
        <5>. QED
          BY <5>4 DEF View!Next
      <4>3. CASE chState'[c] = "Joining" /\ UNCHANGED <<clientTx, joinToken>>
        <5>1. Shows(c)' = [Seen[c] EXCEPT !.st = "Joining"]
          BY <3>1, <4>1, <4>3
        <5>2. View!Subscribes(c)
          BY <3>1, <5>1 DEF View!Subscribes, View!Moves, Seen
        <5>. QED
          BY <5>2 DEF View!Next
      <4>4. CASE /\ chState[c] \notin {"Closed", "Leaving"} /\ Connected(c)
                 /\ chState'[c] = "Leaving" /\ UNCHANGED <<clientTx, joinToken>>
        <5>1. Shows(c)' = [Seen[c] EXCEPT !.st = "Leaving"]
          BY <3>1, <4>1, <4>4
        <5>2. clientTx[c] \in {g \in Conn : txOpen[g]}
          BY <4>4 DEF Connected, TypeOK
        <5>3. View!Leaves(c)
          BY <3>1, <4>4, <5>1, <5>2 DEF View!Leaves, View!Moves, Seen
        <5>. QED
          BY <5>3 DEF View!Next
      <4>5. CASE clientTx'[c] \in Conn /\ UNCHANGED <<chState, joinToken>>
        <5>1. Shows(c)' = [Seen[c] EXCEPT !.tx = clientTx'[c]]
          BY <3>1, <4>1, <4>5
        <5>2. View!Rebinds(c, clientTx'[c])
          BY <3>1, <5>1 DEF View!Rebinds, Seen
        <5>. QED
          BY <4>5, <5>2 DEF View!Next
      <4>6. CASE /\ chState[c] = "Joined" => Connected(c)
                 /\ joinToken'[c] = token /\ UNCHANGED <<chState, clientTx>>
        <5>1. Shows(c)' = [Seen[c] EXCEPT !.tok = token]
          BY <3>1, <4>1, <4>6
        <5>2. chState[c] = "Joined" => clientTx[c] \in {g \in Conn : txOpen[g]}
          BY <4>6 DEF Connected, TypeOK
        <5>3. View!TakesToken(c)
          BY <3>1, <5>1, <5>2 DEF View!TakesToken, Seen
        <5>. QED
          BY <5>3 DEF View!Next
      <4>. QED
        BY <2>2, <3>3, <4>2, <4>3, <4>4, <4>5, <4>6, ActorShows
    <3>. QED
      BY <2>2, <3>2, <3>3, ActorShows
  <2>3. ASSUME UNCHANGED <<actor, chState, clientTx, joinToken>>,
               token' \in Nat, token' >= token
        PROVE  View!Next
    <3>1. Seen' = Seen
      BY <2>3 DEF Seen, Shows
    <3>2. View!Around
      BY <2>3, <3>1 DEF View!Around, Seen
    <3>. QED
      BY <3>2 DEF View!Next
  <2>4. ASSUME NEW c \in Channel, MsgTask(c) PROVE View!Next
    <3>1. /\ UNCHANGED <<actor, clientTx, joinToken, token>>
          /\ token' \in Nat /\ token' >= token
          /\ chState' = chState \/ chState' = [chState EXCEPT ![c] = "Joined"]
      BY <2>4 DEF MsgTask, HandleForeignReply, HandleJoinReply, HandleEvent, CallbackPanics,
                  MsgTaskEnds, AfterReply, TypeOK
    <3>2. CASE actor[c] = "running" /\ chState' = [chState EXCEPT ![c] = "Joined"]
      <4>1. OthersStay(c) /\ chState'[c] = "Joined"
        BY <3>1, <3>2 DEF OthersStay, TypeOK
      <4>2. Shows(c)' = [Seen[c] EXCEPT !.st = "Joined"] /\ View!Live(c)
        <5>1. Shows(c)' = [st |-> "Joined", tx |-> clientTx[c], tok |-> joinToken[c]]
          BY <3>1, <3>2, <4>1 DEF Shows
        <5>. QED
          BY <3>2, <5>1, RunningShows DEF View!Live, Seen
      <4>3. View!Confirmed(c)
        BY <4>1, <4>2, SeenMoves DEF View!Confirmed, View!Moves, Seen
      <4>. QED
        BY <4>3 DEF View!Next
    <3>3. CASE actor[c] # "running" /\ chState' = [chState EXCEPT ![c] = "Joined"]
      <4>1. OthersStay(c)
        BY <3>1, <3>3 DEF OthersStay, TypeOK
      <4>2. Shows(c)' = Shows(c)
        BY <3>1, <3>3 DEF Shows, TypeOK
      <4>3. Seen' = Seen
        BY <4>1, <4>2, SeenMoves DEF Seen
      <4>4. View!Around
        BY <3>1, <4>3 DEF View!Around, Seen
      <4>. QED
        BY <4>4 DEF View!Next
    <3>. QED
      BY <2>3, <3>1, <3>2, <3>3
  <2>5. ASSUME NEW c \in Channel, Build(c) PROVE View!Next
    <3>1. /\ actor[c] = "unbuilt" /\ chState' = chState /\ chState[c] = "Closed"
          /\ actor'[c] = "running" /\ OthersStay(c)
      BY <2>5 DEF Build, UnbuiltFresh, OthersStay, TypeOK
    <3>2. clientTx'[c] \in Conn /\ joinToken'[c] \in 0..token
      BY <2>5 DEF Build, TypeOK
    <3>3. /\ Shows(c)' = [st |-> "Closed", tx |-> clientTx'[c], tok |-> joinToken'[c]]
          /\ Shows(c) = [st |-> "unbuilt"]
      BY <3>1 DEF Shows
    <3>4. View!Built(c, clientTx'[c], joinToken'[c])
      BY <3>1, <3>3, SeenMoves DEF View!Built, View!Unbuilt, Seen
    <3>. QED
      BY <3>2, <3>4 DEF View!Next
  <2>6. \/ \E c \in Channel : Actor(c) \/ MsgTask(c) \/ Build(c)
        \/ /\ UNCHANGED <<actor, chState, clientTx, joinToken>>
           /\ token' = token \/ token' = token + 1
    BY DEF Next, vars, chanVars, Environment, Post, Ask, Resume, Abandon, Route, DropConn,
           SetToken, SpinSeesJoined
  <2>7. token' = token \/ token' = token + 1 => token' \in Nat /\ token' >= token
    BY DEF TypeOK
  <2>. QED
    BY <2>2, <2>3, <2>4, <2>5, <2>6, <2>7
<1>. QED
  BY <1>1, <1>2, <1>3, <1>4, TypeCorrect, PTL DEF Spec, ShowsView, View!Spec

=============================================================================
