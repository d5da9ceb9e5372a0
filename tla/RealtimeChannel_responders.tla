--------------------- MODULE RealtimeChannel_responders ---------------------
(***************************************************************************)
(* The proof that a waiting caller of RealtimeChannel has exactly one live *)
(* responder, for every set of channels and callers, every set of faults   *)
(* and every length of a run.                                              *)
(***************************************************************************)
EXTENDS RealtimeChannel_proofs

-----------------------------------------------------------------------------
\* The places of the responders of caller k: place 0 of channel c is with a task
\* of subscribe_blocking, place i > 0 is in the i-th request of the mailbox.
Place(k, c, i) ==
  \/ i = 0 /\ k \in spinners[c]
  \/ i \in DOMAIN mailbox[c] /\ mailbox[c][i].res = k

\* Caller k is owed an answer exactly when it waits, and from one place only.
Owed(k) ==
  /\ call[k].st = "waiting" <=> \E c \in Channel, i \in Nat : Place(k, c, i)
  /\ \A c, d \in Channel, i, j \in Nat : Place(k, c, i) /\ Place(k, d, j) => c = d /\ i = j
AllOwed == \A k \in Caller : Owed(k)

\* No responder hides where nobody would answer it: only a running actor has
\* requests, and a request that is never answered carries none.
Quiet ==
  /\ \A c \in Channel : actor[c] # "running" => mailbox[c] = <<>>
  /\ \A c \in Channel : \A i \in DOMAIN mailbox[c] :
       mailbox[c][i].op \in FireOps => mailbox[c][i].res = NoOne

OwedInv == Quiet /\ AllOwed

\* What OwedInv is for.
LEMMA OwedIsOneResponder == TypeOK /\ OwedInv => OneResponder
<1>. SUFFICES ASSUME TypeOK, OwedInv, NEW k \in Caller
              PROVE  /\ call[k].st = "waiting" <=> \E c \in Channel :
                          \/ k \in spinners[c]
                          \/ actor[c] = "running" /\ \E i \in DOMAIN mailbox[c] : mailbox[c][i].res = k
                     /\ \A c, d \in Channel :
                          /\ k \in spinners[c] =>
                               /\ \A i \in DOMAIN mailbox[d] : mailbox[d][i].res # k
                               /\ k \in spinners[d] => c = d
                          /\ \A i \in DOMAIN mailbox[c], j \in DOMAIN mailbox[d] :
                               mailbox[c][i].res = k /\ mailbox[d][j].res = k => c = d /\ i = j
  BY DEF OneResponder
<1>1. \A c \in Channel : \A i \in DOMAIN mailbox[c] : i \in Nat /\ i # 0 /\ actor[c] = "running"
  <2>. SUFFICES ASSUME NEW c \in Channel, NEW i \in DOMAIN mailbox[c]
                PROVE  i \in Nat /\ i # 0 /\ actor[c] = "running"
    OBVIOUS
  <2>1. mailbox[c] \in Seq(Request)
    BY DEF TypeOK
  <2>2. mailbox[c] # <<>>
    BY <2>1, EmptySeq, LenProperties
  <2>. QED
    BY <2>1, <2>2, LenProperties DEF OwedInv, Quiet
<1>2. Owed(k)
  BY DEF OwedInv, AllOwed
<1>3. call[k].st = "waiting" <=> \E c \in Channel :
           \/ k \in spinners[c]
           \/ actor[c] = "running" /\ \E i \in DOMAIN mailbox[c] : mailbox[c][i].res = k
  BY <1>1, <1>2 DEF Owed, Place
<1>4. ASSUME NEW c \in Channel, NEW d \in Channel, k \in spinners[c]
      PROVE  /\ \A i \in DOMAIN mailbox[d] : mailbox[d][i].res # k
             /\ k \in spinners[d] => c = d
  <2>1. Place(k, c, 0) /\ 0 \in Nat
    BY <1>4 DEF Place
  <2>. QED
    BY <1>1, <1>2, <2>1 DEF Owed, Place
<1>5. ASSUME NEW c \in Channel, NEW d \in Channel,
             NEW i \in DOMAIN mailbox[c], NEW j \in DOMAIN mailbox[d],
             mailbox[c][i].res = k, mailbox[d][j].res = k
      PROVE  c = d /\ i = j
  BY <1>1, <1>2, <1>5 DEF Owed, Place
<1>. QED
  BY <1>3, <1>4, <1>5

\* Taking the first request moves the others one place forward.
LEMMA PopPlaces ==
  ASSUME TypeOK, NEW c \in Channel, mailbox[c] # <<>>, Pop(c)
  PROVE  /\ \A k : Place(k, c, 1) <=> Req(c).res = k
         /\ \A k : \A d \in Channel, i \in Nat \ {0} :
              Place(k, d, i)' <=> IF d = c THEN Place(k, d, i + 1) ELSE Place(k, d, i)
         /\ \A d \in Channel : \A i \in DOMAIN mailbox'[d] : \E j \in DOMAIN mailbox[d] :
              mailbox'[d][i] = mailbox[d][j]
         /\ \A d \in Channel : d # c => mailbox'[d] = mailbox[d]
<1>1. mailbox[c] \in Seq(Request) /\ mailbox \in [Channel -> Seq(Request)]
  BY DEF TypeOK
<1>2. /\ Len(mailbox[c]) \in Nat \ {0} /\ DOMAIN mailbox[c] = 1..Len(mailbox[c])
      /\ DOMAIN Tail(mailbox[c]) = 1..(Len(mailbox[c]) - 1)
      /\ \A i \in 1..(Len(mailbox[c]) - 1) : Tail(mailbox[c])[i] = mailbox[c][i + 1]
      /\ Req(c) = mailbox[c][1]
  BY <1>1, HeadTailProperties, EmptySeq, LenProperties DEF Req
<1>3. mailbox'[c] = Tail(mailbox[c]) /\ \A d \in Channel : d # c => mailbox'[d] = mailbox[d]
  BY <1>1 DEF Pop
<1>4. \A k : Place(k, c, 1) <=> Req(c).res = k
  BY <1>2 DEF Place
<1>5. ASSUME NEW i \in Nat \ {0}, NEW k PROVE Place(k, c, i)' <=> Place(k, c, i + 1)
  BY <1>2, <1>3 DEF Place
<1>6. ASSUME NEW d \in Channel, d # c, NEW i \in Nat \ {0}, NEW k
      PROVE  Place(k, d, i)' <=> Place(k, d, i)
  BY <1>3, <1>6 DEF Place
<1>7. \A d \in Channel : \A i \in DOMAIN mailbox'[d] : \E j \in DOMAIN mailbox[d] :
        mailbox'[d][i] = mailbox[d][j]
  <2>1. \A i \in DOMAIN mailbox'[c] : i + 1 \in DOMAIN mailbox[c] /\ mailbox'[c][i] = mailbox[c][i + 1]
    BY <1>2, <1>3
  <2>. QED
    BY <1>3, <2>1
<1>. QED
  BY <1>3, <1>4, <1>5, <1>6, <1>7

\* One more request adds the place of its responder, behind the others.
LEMMA AppendPlaces ==
  ASSUME TypeOK, NEW c \in Channel, NEW r,
         mailbox' = [mailbox EXCEPT ![c] = Append(@, r)], UNCHANGED spinners
  PROVE  \E n \in Nat :
           /\ \A k : ~Place(k, c, n)
           /\ \A k : \A d \in Channel, i \in Nat :
                Place(k, d, i)' <=> Place(k, d, i) \/ (d = c /\ i = n /\ r.res = k)
           /\ \A d \in Channel : \A i \in DOMAIN mailbox'[d] :
                \/ i \in DOMAIN mailbox[d] /\ mailbox'[d][i] = mailbox[d][i]
                \/ mailbox'[d][i] = r
           /\ \A d \in Channel : d # c => mailbox'[d] = mailbox[d]
<1>1. mailbox[c] \in Seq(Request) /\ mailbox \in [Channel -> Seq(Request)]
  BY DEF TypeOK
<1>2. /\ Len(mailbox[c]) \in Nat /\ DOMAIN mailbox[c] = 1..Len(mailbox[c])
      /\ DOMAIN Append(mailbox[c], r) = 1..(Len(mailbox[c]) + 1)
      /\ \A i \in 1..Len(mailbox[c]) : Append(mailbox[c], r)[i] = mailbox[c][i]
      /\ Append(mailbox[c], r)[Len(mailbox[c]) + 1] = r
  BY <1>1, LenProperties
<1>3. mailbox'[c] = Append(mailbox[c], r) /\ \A d \in Channel : d # c => mailbox'[d] = mailbox[d]
  BY <1>1
<1>. DEFINE n == Len(mailbox[c]) + 1
<1>4. n \in Nat /\ n # 0 /\ \A k : ~Place(k, c, n)
  BY <1>2 DEF Place
<1>5. ASSUME NEW i \in Nat, NEW k
      PROVE  Place(k, c, i)' <=> Place(k, c, i) \/ (i = n /\ r.res = k)
  BY <1>2, <1>3 DEF Place
<1>6. ASSUME NEW d \in Channel, d # c, NEW i \in Nat, NEW k
      PROVE  Place(k, d, i)' <=> Place(k, d, i)
  BY <1>3, <1>6 DEF Place
<1>7. \A d \in Channel : \A i \in DOMAIN mailbox'[d] :
        \/ i \in DOMAIN mailbox[d] /\ mailbox'[d][i] = mailbox[d][i]
        \/ mailbox'[d][i] = r
  BY <1>2, <1>3
<1>. HIDE DEF n
<1>. QED
  BY <1>3, <1>4, <1>5, <1>6, <1>7

\* A step that leaves requests, spinning tasks and who waits alone.
LEMMA OwedSame ==
  ASSUME OwedInv, UNCHANGED <<mailbox, spinners>>,
         \A c \in Channel : actor'[c] # "running" => actor[c] # "running",
         \A k \in Caller : call'[k].st = "waiting" <=> call[k].st = "waiting"
  PROVE  OwedInv'
<1>1. Quiet'
  BY DEF OwedInv, Quiet
<1>2. \A k, c, i : Place(k, c, i)' <=> Place(k, c, i)
  BY DEF Place
<1>. QED
  BY <1>1, <1>2 DEF OwedInv, AllOwed, Owed

\* A panic takes the places in the mailbox away, and lets go who waited for them.
LEMMA OwedPanic ==
  ASSUME TypeOK, OwedInv, NEW c \in Channel, Panic(c), UNCHANGED spinners
  PROVE  OwedInv'
<1>. USE ChannelAssumption
<1>1. mailbox \in [Channel -> Seq(Request)] /\ mailbox[c] \in Seq(Request)
      /\ actor \in [Channel -> {"unbuilt", "running", "panicked"}]
      /\ call \in [Caller -> Call]
  BY DEF TypeOK
<1>2. /\ mailbox'[c] = <<>> /\ \A d \in Channel : d # c => mailbox'[d] = mailbox[d]
      /\ \A d \in Channel : d # c => actor'[d] = actor[d]
  BY <1>1 DEF Panic
<1>3. DOMAIN mailbox'[c] = {}
  BY <1>2, EmptySeq, LenProperties
<1>4. Quiet'
  BY <1>2, <1>3 DEF OwedInv, Quiet
<1>5. DOMAIN mailbox[c] \subseteq Nat \ {0}
  BY <1>1, LenProperties
<1>6. \A k, i : Place(k, c, i)' <=> i = 0 /\ Place(k, c, i)
  BY <1>3, <1>5 DEF Place
<1>7. \A k, i : \A d \in Channel : d # c => (Place(k, d, i)' <=> Place(k, d, i))
  BY <1>2 DEF Place
<1>8. ASSUME NEW k \in Caller PROVE Owed(k)'
  <2>1. k \in Awaiting(c) <=> \E i \in Nat \ {0} : Place(k, c, i)
    BY <1>5 DEF Awaiting, Range, Place
  <2>2. Owed(k)
    BY DEF OwedInv, AllOwed
  <2>3. CASE k \in Awaiting(c)
    <3>1. call'[k].st = "refused"
      BY <1>1, <2>3 DEF Panic, Call
    <3>2. \A d \in Channel, i \in Nat : ~Place(k, d, i)'
      BY <1>6, <1>7, <2>1, <2>2, <2>3 DEF Owed
    <3>. QED
      BY <3>1, <3>2 DEF Owed
  <2>4. CASE k \notin Awaiting(c)
    <3>1. call'[k] = call[k]
      BY <2>4 DEF Panic
    <3>2. \A d \in Channel, i \in Nat : Place(k, d, i)' <=> Place(k, d, i)
      BY <1>6, <1>7, <2>1, <2>4
    <3>. QED
      BY <2>2, <3>1, <3>2 DEF Owed
  <2>. QED
    BY <2>3, <2>4
<1>. QED
  BY <1>4, <1>8 DEF OwedInv, AllOwed

\* The first request is taken and whoever awaits its answer gets it.
LEMMA OwedPop ==
  ASSUME TypeOK, OwedInv, NEW c \in Channel, mailbox[c] # <<>>, actor[c] = "running",
         Pop(c), UNCHANGED <<actor, spinners>>,
         \A k \in Caller : call'[k].st = "waiting" <=> call[k].st = "waiting" /\ Req(c).res # k
  PROVE  OwedInv'
<1>1. Quiet'
  BY PopPlaces DEF OwedInv, Quiet
<1>2. ASSUME NEW k \in Caller PROVE Owed(k)'
  <2>1. Owed(k)
    BY DEF OwedInv, AllOwed
  <2>2. \A d \in Channel : Place(k, d, 0)' <=> Place(k, d, 0)
    <3>1. \A d \in Channel : 0 \notin DOMAIN mailbox[d] /\ 0 \notin DOMAIN mailbox'[d]
      <4>1. \A d \in Channel : mailbox[d] \in Seq(Request)
        BY DEF TypeOK
      <4>2. \A d \in Channel : mailbox'[d] \in Seq(Request)
        BY PopType, <4>1 DEF Pop
      <4>. QED
        BY <4>1, <4>2, LenProperties
    <3>. QED
      BY <3>1 DEF Place
  <2>3. Place(k, c, 1) <=> Req(c).res = k
    BY PopPlaces
  <2>4. \A d \in Channel, i \in Nat \ {0} :
          Place(k, d, i)' <=> IF d = c THEN Place(k, d, i + 1) ELSE Place(k, d, i)
    BY PopPlaces
  <2>5. CASE Req(c).res = k
    <3>1. \A d \in Channel, i \in Nat : Place(k, d, i) => d = c /\ i = 1
      BY <2>1, <2>3, <2>5 DEF Owed
    <3>2. \A d \in Channel, i \in Nat : ~Place(k, d, i)'
      BY <2>2, <2>4, <3>1
    <3>. QED
      BY <2>5, <3>2 DEF Owed
  <2>6. CASE Req(c).res # k
    <3>1. \A d \in Channel, i \in Nat : Place(k, d, i) =>
            \E j \in Nat : Place(k, d, j)'
      <4>. SUFFICES ASSUME NEW d \in Channel, NEW i \in Nat, Place(k, d, i)
                    PROVE  \E j \in Nat : Place(k, d, j)'
        OBVIOUS
      <4>1. CASE i = 0 \/ d # c
        BY <2>2, <2>4, <4>1
      <4>2. CASE i # 0 /\ d = c
        <5>1. i - 1 \in Nat \ {0} /\ (i - 1) + 1 = i
          BY <2>3, <2>6, <4>2
        <5>. QED
          BY <2>4, <4>2, <5>1
      <4>. QED
        BY <4>1, <4>2
    <3>2. \A d \in Channel, i \in Nat : Place(k, d, i)' =>
            Place(k, d, IF d = c /\ i # 0 THEN i + 1 ELSE i)
      BY <2>2, <2>4
    <3>3. (\E d \in Channel, i \in Nat : Place(k, d, i)) <=>
            \E d \in Channel, i \in Nat : Place(k, d, i)'
      BY <3>1, <3>2
    <3>4. ASSUME NEW d \in Channel, NEW e \in Channel, NEW i \in Nat, NEW j \in Nat,
                 Place(k, d, i)', Place(k, e, j)'
          PROVE  d = e /\ i = j
      BY <2>1, <3>2, <3>4 DEF Owed
    <3>. QED
      BY <2>1, <2>6, <3>3, <3>4 DEF Owed
  <2>. QED
    BY <2>5, <2>6
<1>. QED
  BY <1>1, <1>2 DEF OwedInv, AllOwed

\* subscribe_blocking: the responder of the first request goes to a task.
LEMMA OwedSpawn ==
  ASSUME TypeOK, OwedInv, NEW c \in Channel, mailbox[c] # <<>>, actor[c] = "running",
         Pop(c), SpawnSpinner(c, Req(c).res), UNCHANGED <<actor, call>>
  PROVE  OwedInv'
<1>1. Quiet'
  BY PopPlaces DEF OwedInv, Quiet
<1>2. spinners \in [Channel -> SUBSET (Caller \cup {NoOne})]
  BY DEF TypeOK
<1>3. /\ spinners'[c] = spinners[c] \cup {Req(c).res}
      /\ \A d \in Channel : d # c => spinners'[d] = spinners[d]
  BY <1>2 DEF SpawnSpinner
<1>4. ASSUME NEW k \in Caller PROVE Owed(k)'
  <2>1. Owed(k)
    BY DEF OwedInv, AllOwed
  <2>2. \A d \in Channel : 0 \notin DOMAIN mailbox[d] /\ 0 \notin DOMAIN mailbox'[d]
    <3>1. \A d \in Channel : mailbox[d] \in Seq(Request)
      BY DEF TypeOK
    <3>2. \A d \in Channel : mailbox'[d] \in Seq(Request)
      <4>1. Tail(mailbox[c]) \in Seq(Request)
        BY <3>1, HeadTailProperties
      <4>. QED
        BY <3>1, <4>1 DEF Pop, TypeOK
    <3>. QED
      BY <3>1, <3>2, LenProperties
  <2>3. \A d \in Channel : Place(k, d, 0)' <=> Place(k, d, 0) \/ (d = c /\ Req(c).res = k)
    BY <1>3, <2>2 DEF Place
  <2>4. Place(k, c, 1) <=> Req(c).res = k
    BY PopPlaces
  <2>5. \A d \in Channel, i \in Nat \ {0} :
          Place(k, d, i)' <=> IF d = c THEN Place(k, d, i + 1) ELSE Place(k, d, i)
    BY PopPlaces
  <2>6. CASE Req(c).res = k
    <3>1. \A d \in Channel, i \in Nat : Place(k, d, i) => d = c /\ i = 1
      BY <2>1, <2>4, <2>6 DEF Owed
    <3>2. \A d \in Channel, i \in Nat : Place(k, d, i)' <=> d = c /\ i = 0
      BY <2>3, <2>5, <2>6, <3>1
    <3>3. call[k].st = "waiting"
      BY <2>1, <2>4, <2>6 DEF Owed
    <3>. QED
      BY <3>2, <3>3 DEF Owed
  <2>7. CASE Req(c).res # k
    <3>1. \A d \in Channel, i \in Nat : Place(k, d, i) =>
            \E j \in Nat : Place(k, d, j)'
      <4>. SUFFICES ASSUME NEW d \in Channel, NEW i \in Nat, Place(k, d, i)
                    PROVE  \E j \in Nat : Place(k, d, j)'
        OBVIOUS
      <4>1. CASE i = 0 \/ d # c
        BY <2>3, <2>5, <4>1
      <4>2. CASE i # 0 /\ d = c
        <5>1. i - 1 \in Nat \ {0} /\ (i - 1) + 1 = i
          BY <2>4, <2>7, <4>2
        <5>. QED
          BY <2>5, <4>2, <5>1
      <4>. QED
        BY <4>1, <4>2
    <3>2. \A d \in Channel, i \in Nat : Place(k, d, i)' =>
            Place(k, d, IF d = c /\ i # 0 THEN i + 1 ELSE i)
      BY <2>3, <2>5, <2>7
    <3>3. (\E d \in Channel, i \in Nat : Place(k, d, i)) <=>
            \E d \in Channel, i \in Nat : Place(k, d, i)'
      BY <3>1, <3>2
    <3>4. ASSUME NEW d \in Channel, NEW e \in Channel, NEW i \in Nat, NEW j \in Nat,
                 Place(k, d, i)', Place(k, e, j)'
          PROVE  d = e /\ i = j
      BY <2>1, <3>2, <3>4 DEF Owed
    <3>. QED
      BY <2>1, <3>3, <3>4 DEF Owed
  <2>. QED
    BY <2>6, <2>7
<1>. QED
  BY <1>1, <1>4 DEF OwedInv, AllOwed

\* One more request, from a caller that had no call outstanding or from nobody.
LEMMA OwedAppend ==
  ASSUME TypeOK, OwedInv, NEW c \in Channel, NEW r \in Request, actor[c] = "running",
         mailbox' = [mailbox EXCEPT ![c] = Append(@, r)], UNCHANGED <<actor, spinners>>,
         r.op \in FireOps => r.res = NoOne,
         \A k \in Caller : call'[k].st = "waiting" <=> call[k].st = "waiting" \/ k = r.res,
         \A k \in Caller : k = r.res => call[k].st # "waiting"
  PROVE  OwedInv'
<1>1. PICK n \in Nat :
        /\ \A k : ~Place(k, c, n)
        /\ \A k : \A d \in Channel, i \in Nat :
             Place(k, d, i)' <=> Place(k, d, i) \/ (d = c /\ i = n /\ r.res = k)
        /\ \A d \in Channel : \A i \in DOMAIN mailbox'[d] :
             \/ i \in DOMAIN mailbox[d] /\ mailbox'[d][i] = mailbox[d][i]
             \/ mailbox'[d][i] = r
        /\ \A d \in Channel : d # c => mailbox'[d] = mailbox[d]
  BY AppendPlaces
<1>2. Quiet'
  <2>1. \A d \in Channel : actor'[d] # "running" => mailbox'[d] = <<>>
    BY <1>1 DEF OwedInv, Quiet
  <2>2. \A d \in Channel : \A i \in DOMAIN mailbox'[d] :
          mailbox'[d][i].op \in FireOps => mailbox'[d][i].res = NoOne
    <3>. SUFFICES ASSUME NEW d \in Channel, NEW i \in DOMAIN mailbox'[d]
                  PROVE  mailbox'[d][i].op \in FireOps => mailbox'[d][i].res = NoOne
      OBVIOUS
    <3>1. CASE i \in DOMAIN mailbox[d] /\ mailbox'[d][i] = mailbox[d][i]
      BY <3>1 DEF OwedInv, Quiet
    <3>2. CASE mailbox'[d][i] = r
      BY <3>2
    <3>. QED
      BY <1>1, <3>1, <3>2
  <2>. QED
    BY <2>1, <2>2 DEF Quiet
<1>3. ASSUME NEW k \in Caller PROVE Owed(k)'
  <2>1. Owed(k)
    BY DEF OwedInv, AllOwed
  <2>2. \A d \in Channel, i \in Nat :
          Place(k, d, i)' <=> Place(k, d, i) \/ (d = c /\ i = n /\ r.res = k)
    BY <1>1
  <2>3. CASE r.res = k
    <3>1. \A d \in Channel, i \in Nat : ~Place(k, d, i)
      BY <2>1, <2>3 DEF Owed
    <3>2. \A d \in Channel, i \in Nat : Place(k, d, i)' <=> d = c /\ i = n
      BY <2>2, <2>3, <3>1
    <3>. QED
      BY <2>3, <3>2 DEF Owed
  <2>4. CASE r.res # k
    <3>1. \A d \in Channel, i \in Nat : Place(k, d, i)' <=> Place(k, d, i)
      BY <2>2, <2>4
    <3>. QED
      BY <2>1, <2>4, <3>1 DEF Owed
  <2>. QED
    BY <2>3, <2>4
<1>. QED
  BY <1>2, <1>3 DEF OwedInv, AllOwed

\* A spinning task answers, and the place of its responder is gone.
LEMMA OwedSpin ==
  ASSUME TypeOK, OwedInv, NEW c \in Channel, NEW s \in Caller \cup {NoOne},
         SpinSeesJoined(c, s)
  PROVE  OwedInv'
<1>. USE ChannelAssumption
<1>1. /\ mailbox' = mailbox /\ actor' = actor /\ s \in spinners[c]
      /\ spinners' = [spinners EXCEPT ![c] = @ \ {s}]
      /\ spinners \in [Channel -> SUBSET (Caller \cup {NoOne})] /\ call \in [Caller -> Call]
  BY DEF SpinSeesJoined, TypeOK
<1>2. Quiet'
  BY <1>1 DEF OwedInv, Quiet
<1>3. \A d \in Channel : 0 \notin DOMAIN mailbox[d]
  <2>1. \A d \in Channel : mailbox[d] \in Seq(Request)
    BY DEF TypeOK
  <2>. QED
    BY <2>1, LenProperties
<1>4. ASSUME NEW k \in Caller PROVE Owed(k)'
  <2>1. Owed(k)
    BY DEF OwedInv, AllOwed
  <2>2. \A d \in Channel, i \in Nat :
          Place(k, d, i)' <=> Place(k, d, i) /\ ~(d = c /\ i = 0 /\ k = s)
    BY <1>1, <1>3 DEF Place
  <2>3. CASE k = s
    <3>1. Place(k, c, 0)
      BY <1>1, <2>3 DEF Place
    <3>2. \A d \in Channel, i \in Nat : ~Place(k, d, i)'
      BY <2>1, <2>2, <2>3, <3>1 DEF Owed
    <3>3. call'[k].st = "done"
      BY <1>1, <2>3 DEF SpinSeesJoined, Call
    <3>. QED
      BY <3>2, <3>3 DEF Owed
  <2>4. CASE k # s
    <3>1. \A d \in Channel, i \in Nat : Place(k, d, i)' <=> Place(k, d, i)
      BY <2>2, <2>4
    <3>2. call'[k] = call[k]
      BY <1>1, <2>4 DEF SpinSeesJoined
    <3>. QED
      BY <2>1, <3>1, <3>2 DEF Owed
  <2>. QED
    BY <2>3, <2>4
<1>. QED
  BY <1>2, <1>4 DEF OwedInv, AllOwed

\* A caller that goes leaves its responder behind, for nobody.
LEMMA OwedAbandon ==
  ASSUME TypeOK, OwedInv, NEW a \in Caller, Abandon(a)
  PROVE  OwedInv'
<1>. USE ChannelAssumption
<1>1. /\ mailbox' = [c \in Channel |-> [i \in DOMAIN mailbox[c] |->
                   IF mailbox[c][i].res = a THEN [mailbox[c][i] EXCEPT !.res = NoOne]
                                            ELSE mailbox[c][i]]]
      /\ spinners' = [c \in Channel |-> {IF x = a THEN NoOne ELSE x : x \in spinners[c]}]
      /\ call' = [call EXCEPT ![a] = Idle]
      /\ actor' = actor
  BY DEF Abandon
<1>2. call \in [Caller -> Call]
  BY DEF TypeOK
<1>3. ASSUME NEW c \in Channel
      PROVE  /\ DOMAIN mailbox'[c] = DOMAIN mailbox[c]
             /\ \A i \in DOMAIN mailbox[c] :
                  /\ mailbox[c][i].res = a => mailbox'[c][i] = [mailbox[c][i] EXCEPT !.res = NoOne]
                  /\ mailbox[c][i].res # a => mailbox'[c][i] = mailbox[c][i]
  BY <1>1
<1>4. ASSUME NEW c \in Channel, NEW i \in DOMAIN mailbox[c]
      PROVE  /\ mailbox[c][i].res = a => mailbox'[c][i].res = NoOne
             /\ mailbox'[c][i].op = mailbox[c][i].op
  <2>1. mailbox[c] \in Seq(Request)
    BY DEF TypeOK
  <2>2. mailbox[c][i] \in Request
    BY <2>1, ElementOfSeq, LenProperties
  <2>3. \A r \in Request :
          [r EXCEPT !.res = NoOne].res = NoOne /\ [r EXCEPT !.res = NoOne].op = r.op
    BY DEF Request
  <2>. QED
    BY <1>3, <2>2, <2>3
<1>5. Quiet'
  <2>1. ASSUME NEW c \in Channel, actor'[c] # "running" PROVE mailbox'[c] = <<>>
    <3>1. mailbox[c] = <<>> /\ mailbox[c] \in Seq(Request)
      BY <1>1, <2>1 DEF OwedInv, Quiet, TypeOK
    <3>2. DOMAIN mailbox[c] = {}
      BY <3>1, EmptySeq, LenProperties
    <3>3. mailbox'[c] \in [DOMAIN mailbox[c] -> Request]
      BY <1>1, <3>2
    <3>4. mailbox'[c] \in Seq(Request) /\ Len(mailbox'[c]) = Len(mailbox[c])
      BY <3>1, <3>3, SameDomainIsSeq
    <3>5. Len(mailbox'[c]) = 0
      BY <3>1, <3>4
    <3>6. \A q \in Seq(Request) : q # <<>> => Len(q) # 0
      BY EmptySeq
    <3>. QED
      BY <3>4, <3>5, <3>6
  <2>2. ASSUME NEW c \in Channel, NEW i \in DOMAIN mailbox'[c],
               mailbox'[c][i].op \in FireOps
        PROVE  mailbox'[c][i].res = NoOne
    <3>1. i \in DOMAIN mailbox[c] /\ mailbox[c][i].op \in FireOps
      BY <1>3, <1>4, <2>2
    <3>2. mailbox[c][i].res = NoOne
      BY <3>1 DEF OwedInv, Quiet
    <3>. QED
      BY <1>3, <1>4, <3>1, <3>2
  <2>. QED
    BY <2>1, <2>2 DEF Quiet
<1>6. ASSUME NEW k \in Caller, NEW c \in Channel, NEW i \in Nat
      PROVE  Place(k, c, i)' <=> k # a /\ Place(k, c, i)
  <2>1. spinners'[c] = {IF x = a THEN NoOne ELSE x : x \in spinners[c]}
    BY <1>1
  <2>2. k \in spinners'[c] <=> k # a /\ k \in spinners[c]
    BY <2>1
  <2>3. \A n \in DOMAIN mailbox[c] : mailbox'[c][n].res = k <=> k # a /\ mailbox[c][n].res = k
    BY <1>3, <1>4
  <2>. QED
    BY <1>3, <2>2, <2>3 DEF Place
<1>7. ASSUME NEW k \in Caller PROVE Owed(k)'
  <2>1. Owed(k)
    BY DEF OwedInv, AllOwed
  <2>2. CASE k = a
    <3>1. call'[k].st = "idle"
      BY <1>1, <1>2, <2>2 DEF Idle
    <3>. QED
      BY <1>6, <2>2, <3>1 DEF Owed
  <2>3. CASE k # a
    BY <1>1, <1>2, <1>6, <2>1, <2>3 DEF Owed
  <2>. QED
    BY <2>2, <2>3
<1>. QED
  BY <1>5, <1>7 DEF OwedInv, AllOwed

\* res.send(v).unwrap(), with or without somebody who awaits v.
LEMMA OwedRespond ==
  ASSUME TypeOK, OwedInv, NEW c \in Channel, NEW op, Handles(c, op), NEW v,
         Respond(c, v), UNCHANGED spinners
  PROVE  OwedInv'
<1>. USE ChannelAssumption
<1>1. CASE Panic(c)
  BY <1>1, OwedPanic
<1>2. CASE /\ Req(c).res # NoOne
           /\ Pop(c)
           /\ call' = [call EXCEPT ![Req(c).res].st = "done", ![Req(c).res].val = v]
           /\ UNCHANGED actor
  <2>1. Req(c).res \in Caller /\ mailbox[c] # <<>> /\ actor[c] = "running"
    BY <1>2, HandlesType DEF Handles
  <2>2. call \in [Caller -> Call]
    BY DEF TypeOK
  <2>3. \A k \in Caller : k # Req(c).res => call'[k] = call[k]
    BY <1>2, <2>1, <2>2
  <2>4. call'[Req(c).res].st = "done"
    BY <1>2, <2>1, <2>2 DEF Call
  <2>5. \A k \in Caller : call'[k].st = "waiting" <=> call[k].st = "waiting" /\ Req(c).res # k
    BY <2>3, <2>4
  <2>. QED
    BY <1>2, <2>1, <2>5, OwedPop
<1>. QED
  BY <1>1, <1>2 DEF Respond

\* A request that is never answered is taken.
LEMMA OwedFire ==
  ASSUME TypeOK, OwedInv, NEW c \in Channel, NEW op \in FireOps, Handles(c, op),
         Pop(c), UNCHANGED <<actor, spinners, call>>
  PROVE  OwedInv'
<1>. USE ChannelAssumption
<1>1. mailbox[c] # <<>> /\ actor[c] = "running" /\ Req(c).op = op
  BY DEF Handles
<1>2. mailbox[c] \in Seq(Request)
  BY DEF TypeOK
<1>3. 1 \in DOMAIN mailbox[c] /\ Req(c) = mailbox[c][1]
  BY <1>1, <1>2, EmptySeq, LenProperties DEF Req
<1>4. Req(c).res = NoOne
  BY <1>1, <1>3 DEF OwedInv, Quiet
<1>5. \A k \in Caller : call'[k].st = "waiting" <=> call[k].st = "waiting" /\ Req(c).res # k
  BY <1>4
<1>. QED
  BY <1>1, <1>5, OwedPop

\* Every step of the channel side: one case per action.
LEMMA OwedStep == TypeOK /\ OwedInv /\ [Next]_vars => OwedInv'
<1>. SUFFICES ASSUME TypeOK, OwedInv, [Next]_vars PROVE OwedInv'
  OBVIOUS
<1>. USE ChannelAssumption
<1>1. ASSUME NEW c \in Channel, Actor(c) PROVE OwedInv'
  <2>1. CASE HandleSubscribe(c)
    <3>1. "Subscribe" \in FireOps
      BY DEF FireOps, AwaitOps
    <3>. QED
      BY <2>1, <3>1, OwedFire DEF HandleSubscribe
  <2>2. CASE HandleSubscribeBlocking(c)
    BY <2>2, OwedSpawn DEF HandleSubscribeBlocking, Handles
  <2>3. CASE HandleUnsubscribe(c)
    <3>1. Handles(c, "Unsubscribe") /\ UNCHANGED spinners /\ \E v : Respond(c, v)
      BY <2>3 DEF HandleUnsubscribe
    <3>. QED
      BY <3>1, OwedRespond
  <2>4. CASE HandleBroadcast(c)
    <3>1. "Broadcast" \in FireOps
      BY DEF FireOps, AwaitOps
    <3>. QED
      BY <2>4, <3>1, OwedFire, OwedPanic DEF HandleBroadcast
  <2>5. ASSUME NEW op, NEW event, HandlePresence(c, op, event) PROVE OwedInv'
    BY <2>5, OwedRespond, OwedPanic DEF HandlePresence
  <2>6. CASE HandlePresenceTrack(c) \/ HandlePresenceUntrack(c)
    BY <2>5, <2>6 DEF HandlePresenceTrack, HandlePresenceUntrack
  <2>7. CASE HandleReAuth(c)
    BY <2>7, OwedRespond, OwedPanic DEF HandleReAuth
  <2>8. CASE HandleClientTx(c)
    BY <2>8, OwedRespond DEF HandleClientTx
  <2>9. CASE HandleQuery(c)
    BY <2>9, OwedRespond DEF HandleQuery
  <2>. QED
    BY <1>1, <2>1, <2>2, <2>3, <2>4, <2>6, <2>7, <2>8, <2>9 DEF Actor
<1>2. ASSUME NEW c \in Channel, MsgTask(c) PROVE OwedInv'
  <2>1. UNCHANGED <<actor, mailbox, spinners, call>>
    BY <1>2 DEF MsgTask, HandleForeignReply, HandleJoinReply, HandleEvent, CallbackPanics,
                MsgTaskEnds
  <2>. QED
    BY <2>1, OwedSame
<1>3. ASSUME NEW c \in Channel, NEW k \in Caller \cup {NoOne}, SpinSeesJoined(c, k)
      PROVE  OwedInv'
  BY <1>3, OwedSpin
<1>4. ASSUME NEW c \in Channel, Build(c) PROVE OwedInv'
  <2>1. actor' = [actor EXCEPT ![c] = "running"] /\ UNCHANGED <<mailbox, spinners, call>>
    BY <1>4 DEF Build
  <2>2. \A d \in Channel : actor'[d] # "running" => actor[d] # "running"
    BY <2>1 DEF TypeOK
  <2>. QED
    BY <2>1, <2>2, OwedSame
<1>5. ASSUME NEW c \in Channel, NEW op \in FireOps, Post(c, op) PROVE OwedInv'
  <2>1. UNCHANGED <<actor, spinners, call>>
    BY <1>5 DEF Post
  <2>2. CASE UNCHANGED mailbox
    BY <2>1, <2>2, OwedSame
  <2>3. CASE /\ actor[c] = "running"
             /\ mailbox' = [mailbox EXCEPT ![c] = Append(@, [op |-> op, res |-> NoOne])]
    <3>1. [op |-> op, res |-> NoOne] \in Request
      BY DEF Request, FireOps
    <3>. QED
      BY <2>1, <2>3, <3>1, OwedAppend
  <2>. QED
    BY <1>5, <2>2, <2>3 DEF Post
<1>6. ASSUME NEW k \in Caller, NEW c \in Channel, NEW op \in AwaitOps, Ask(k, c, op)
      PROVE  OwedInv'
  <2>1. call \in [Caller -> Call] /\ call[k].st = "idle" /\ UNCHANGED <<actor, spinners>>
    BY <1>6 DEF Ask, TypeOK
  <2>2. PICK r \in Request : r.op = op /\ r.res = k /\ PutRequest(c, r)
    <3>1. CASE op = "ClientTx"
      <4>1. PICK g \in Conn : PutRequest(c, [op |-> op, res |-> k, tx |-> g])
        BY <1>6, <3>1 DEF Ask
      <4>2. [op |-> op, res |-> k, tx |-> g] \in Request
        BY <3>1 DEF Request
      <4>. QED
        BY <4>1, <4>2
    <3>2. CASE op # "ClientTx"
      <4>1. PutRequest(c, [op |-> op, res |-> k])
        BY <1>6, <3>2 DEF Ask
      <4>2. [op |-> op, res |-> k] \in Request
        BY <3>2 DEF Request
      <4>. QED
        BY <4>1, <4>2
    <3>. QED
      BY <3>1, <3>2
  <2>3. CASE /\ actor[c] = "running"
             /\ mailbox' = [mailbox EXCEPT ![c] = Append(@, r)]
             /\ call' = [call EXCEPT ![r.res] = [st |-> "waiting", op |-> r.op, val |-> "none"]]
    <3>1. \A x \in Caller : call'[x].st = "waiting" <=> call[x].st = "waiting" \/ x = r.res
      BY <2>1, <2>2, <2>3
    <3>2. r.op \notin FireOps
      BY <2>2 DEF FireOps, AwaitOps
    <3>3. \A x \in Caller : x = r.res => call[x].st # "waiting"
      BY <2>1, <2>2
    <3>. QED
      BY <2>1, <2>3, <3>1, <3>2, <3>3, OwedAppend
  <2>4. CASE /\ call' = [call EXCEPT ![r.res] = [st |-> "refused", op |-> r.op, val |-> "none"]]
             /\ UNCHANGED mailbox
    <3>1. \A x \in Caller : call'[x].st = "waiting" <=> call[x].st = "waiting"
      BY <2>1, <2>2, <2>4
    <3>. QED
      BY <2>1, <2>4, <3>1, OwedSame
  <2>. QED
    BY <2>2, <2>3, <2>4 DEF PutRequest
<1>7. ASSUME NEW k \in Caller, Resume(k) PROVE OwedInv'
  <2>1. /\ call \in [Caller -> Call] /\ call[k].st # "waiting"
        /\ call' = [call EXCEPT ![k] = Idle] /\ UNCHANGED <<actor, mailbox, spinners>>
    BY <1>7 DEF Resume, TypeOK, chanVars
  <2>2. \A x \in Caller : call'[x].st = "waiting" <=> call[x].st = "waiting"
    BY <2>1 DEF Idle
  <2>. QED
    BY <2>1, <2>2, OwedSame
<1>8. ASSUME NEW k \in Caller, Abandon(k) PROVE OwedInv'
  BY <1>8, OwedAbandon
<1>9. CASE \/ \E c \in Channel, m \in Inbound : Route(c, m)
           \/ \E g \in Conn : DropConn(g)
           \/ SetToken
           \/ UNCHANGED vars
  <2>1. UNCHANGED <<actor, mailbox, spinners, call>>
    BY <1>9 DEF Route, DropConn, SetToken, vars, chanVars
  <2>. QED
    BY <2>1, OwedSame
<1>. QED
  BY <1>1, <1>2, <1>3, <1>4, <1>5, <1>6, <1>7, <1>8, <1>9 DEF Next, Environment

\* OneResponder: whatever panics, is abandoned, or spins, a caller of the channel
\* manager that waits has exactly one responder that can still answer it.
THEOREM WaitersHaveOneResponder == Spec => []OneResponder
<1>1. Init => OwedInv
  <2>. SUFFICES ASSUME Init PROVE OwedInv
    OBVIOUS
  <2>1. \A c \in Channel : mailbox[c] = <<>> /\ spinners[c] = {}
    BY DEF Init
  <2>2. \A c \in Channel : DOMAIN mailbox[c] = {}
    BY <2>1, EmptySeq, LenProperties
  <2>3. \A k \in Caller : call[k].st = "idle"
    BY DEF Init, Idle
  <2>4. \A k, c, i : c \in Channel => ~Place(k, c, i)
    BY <2>1, <2>2 DEF Place
  <2>. QED
    BY <2>1, <2>2, <2>3, <2>4 DEF OwedInv, Quiet, AllOwed, Owed
<1>2. TypeOK /\ OwedInv /\ [Next]_vars => OwedInv'
  BY OwedStep
<1>. QED
  BY <1>1, <1>2, TypeCorrect, OwedIsOneResponder, PTL DEF Spec
=============================================================================
