----------------------- MODULE RealtimeDispatch_proofs -----------------------
(***************************************************************************)
(* Proofs about RealtimeDispatch, for every set of devices, listeners,     *)
(* changes and broadcasts, and every bound: first what the task of         *)
(* client_recv reads and makes of the presence (TaskInv), then what the    *)
(* builder hands to the channel and which callbacks run (RunInv).          *)
(***************************************************************************)
EXTENDS RealtimeDispatch, RealtimePresence_proofs

-----------------------------------------------------------------------------
(* What a payload is read as.                                              *)

\* What the variants that matter here need, or do not find, in a payload.
LEMMA ReadsNeeds ==
  ASSUME NEW p
  PROVE  /\ Json!Reads("Join", p) => "config" \in DOMAIN p /\ p["config"] = "config"
         /\ Json!Reads("Response", p) <=>
              /\ "response" \in DOMAIN p /\ "status" \in DOMAIN p
              /\ p["response"] = "changes" /\ p["status"] \in {"ok", "error"}
         /\ Json!Reads("System", p) =>
              "channel" \in DOMAIN p /\ p["channel"] \in Json!Text
         /\ Json!Reads("AccessToken", p) =>
              "access_token" \in DOMAIN p /\ p["access_token"] \in Json!Text
         /\ Json!Reads("PostgresChanges", p) <=>
              "data" \in DOMAIN p /\ "ids" \in DOMAIN p /\ p["data"] = "data" /\ p["ids"] = "ids"
         /\ Json!Reads("Broadcast", p) <=>
              /\ {"event", "payload", "type"} \subseteq DOMAIN p
              /\ p["event"] \in Json!Text /\ p["type"] \in Json!Text
              /\ p["payload"] \in Json!Object
         /\ Json!Reads("PresenceState", p) <=> \A f \in DOMAIN p : p[f] = "metas"
         /\ Json!Reads("PresenceDiff", p) <=>
              /\ "joins" \in DOMAIN p /\ "leaves" \in DOMAIN p
              /\ p["joins"] = "presence" /\ p["leaves"] = "presence"
         /\ Json!Reads("Reply", p) <=>
              /\ "response" \in DOMAIN p /\ "status" \in DOMAIN p
              /\ p["response"] \in Json!Object \cup Json!Text \cup {"ids"}
              /\ p["status"] \in Json!Text
         /\ Json!Reads("PresenceTrack", p) => "event" \in DOMAIN p /\ p["event"] \in Json!Named
         /\ Json!Reads("Empty", p)
<1>. USE DEF Json!Reads, Json!Fields, Json!Status
<1>1. Json!Reads("Join", p) => "config" \in DOMAIN p /\ p["config"] = "config"
  OBVIOUS
<1>2. Json!Reads("Response", p) <=>
        /\ "response" \in DOMAIN p /\ "status" \in DOMAIN p
        /\ p["response"] = "changes" /\ p["status"] \in {"ok", "error"}
  OBVIOUS
<1>3. /\ Json!Reads("System", p) =>
           "channel" \in DOMAIN p /\ p["channel"] \in Json!Text
      /\ Json!Reads("AccessToken", p) =>
           "access_token" \in DOMAIN p /\ p["access_token"] \in Json!Text
  OBVIOUS
<1>4. Json!Reads("PostgresChanges", p) <=>
        "data" \in DOMAIN p /\ "ids" \in DOMAIN p /\ p["data"] = "data" /\ p["ids"] = "ids"
  OBVIOUS
<1>5. Json!Reads("Broadcast", p) <=>
        /\ {"event", "payload", "type"} \subseteq DOMAIN p
        /\ p["event"] \in Json!Text /\ p["type"] \in Json!Text
        /\ p["payload"] \in Json!Object
  OBVIOUS
<1>6. Json!Reads("PresenceState", p) <=> \A f \in DOMAIN p : p[f] = "metas"
  BY DEF Json!Range
<1>7. Json!Reads("PresenceDiff", p) <=>
        /\ "joins" \in DOMAIN p /\ "leaves" \in DOMAIN p
        /\ p["joins"] = "presence" /\ p["leaves"] = "presence"
  OBVIOUS
<1>8. Json!Reads("Reply", p) <=>
        /\ "response" \in DOMAIN p /\ "status" \in DOMAIN p
        /\ p["response"] \in Json!Object \cup Json!Text \cup {"ids"}
        /\ p["status"] \in Json!Text
  OBVIOUS
<1>9. Json!Reads("PresenceTrack", p) => "event" \in DOMAIN p /\ p["event"] \in Json!Named
  OBVIOUS
<1>10. Json!Reads("Empty", p)
  <2>1. DOMAIN Json!Fields["Empty"] = {}
    BY EmptyMap
  <2>. QED
    BY <2>1
<1>. HIDE DEF Json!Reads, Json!Fields, Json!Status
<1>. QED
  BY <1>1, <1>2, <1>3, <1>4, <1>5, <1>6, <1>7, <1>8, <1>9, <1>10

\* The first variant that can be read is the one.
LEMMA FirstRead ==
  ASSUME NEW p, NEW n \in 1..11, Json!Reads(Json!Variants[n], p),
         \A j \in 1..(n - 1) : ~Json!Reads(Json!Variants[j], p)
  PROVE  Json!VariantOf(p) = Json!Variants[n]
<1>. DEFINE Good(i) == /\ i \in DOMAIN Json!Variants
                       /\ Json!Reads(Json!Variants[i], p)
                       /\ \A j \in 1..(i - 1) : ~Json!Reads(Json!Variants[j], p)
<1>1. DOMAIN Json!Variants = 1..11
  BY DEF Json!Variants
<1>2. Good(n)
  BY <1>1
<1>3. \A i : Good(i) => i = n
  BY <1>1
<1>4. (CHOOSE i : Good(i)) = n
  BY <1>2, <1>3
<1>5. Json!VariantOf(p) = Json!Variants[CHOOSE i \in DOMAIN Json!Variants :
          Json!Reads(Json!Variants[i], p) /\ \A j \in 1..(i - 1) : ~Json!Reads(Json!Variants[j], p)]
  BY DEF Json!VariantOf, Json!FirstOf
<1>. QED
  BY <1>2, <1>3, <1>5

\* The messages there are.
Known(m) ==
  /\ m.kind \in {"state", "diff", "change", "cast", "joined", "reply", "ended"}
  /\ m.kind = "joined" => m.ref \in {"own", "other"}

\* What the messages there are are read as: only the presence messages, and that of
\* an ended channel, as a presence, only a confirmed join as a response, and only a
\* change with a key as a change.
LEMMA KnownRead ==
  ASSUME NEW m, Known(m)
  PROVE  LET v == Json!VariantOf(JsonOf(m)) IN
         /\ v = "PresenceState" <=> m.kind \in {"state", "ended"}
         /\ v = "PresenceDiff" <=> m.kind = "diff"
         /\ v = "Response" <=> m.kind = "joined"
         /\ v = "Broadcast" <=> m.kind = "cast"
         /\ v = "PostgresChanges" => m.kind = "change"
         /\ m.kind = "change" => v = IF m.change.keyed THEN "PostgresChanges" ELSE "Empty"
<1>. DEFINE p == JsonOf(m)
            v == Json!VariantOf(p)
<1>1. /\ Json!Variants[1] = "Join" /\ Json!Variants[2] = "Response"
      /\ Json!Variants[3] = "System" /\ Json!Variants[4] = "AccessToken"
      /\ Json!Variants[5] = "PostgresChanges" /\ Json!Variants[6] = "Broadcast"
      /\ Json!Variants[7] = "PresenceState" /\ Json!Variants[8] = "PresenceDiff"
      /\ Json!Variants[9] = "Reply" /\ Json!Variants[10] = "PresenceTrack"
      /\ Json!Variants[11] = "Empty"
  BY DEF Json!Variants
<1>2. CASE m.kind \in {"state", "ended"}
  <2>1. \A f \in DOMAIN p : p[f] = "metas"
    <3>1. CASE m.kind = "state"
      BY <3>1 DEF JsonOf
    <3>2. CASE m.kind = "ended"
      <4>1. p = <<>>
        BY <3>2 DEF JsonOf
      <4>. QED
        BY <4>1, EmptyMap
    <3>. QED
      BY <1>2, <3>1, <3>2
  <2>. HIDE DEF p
  <2>2. /\ Json!Reads("PresenceState", p)
        /\ ~Json!Reads("Join", p) /\ ~Json!Reads("Response", p) /\ ~Json!Reads("System", p)
        /\ ~Json!Reads("AccessToken", p) /\ ~Json!Reads("PostgresChanges", p)
        /\ ~Json!Reads("Broadcast", p)
    BY <2>1, ReadsNeeds DEF Json!Text, Json!Status, Json!Named, Json!Object
  <2>3. \A j \in 1..(7 - 1) : ~Json!Reads(Json!Variants[j], p)
    BY <1>1, <2>2
  <2>4. v = "PresenceState"
    BY <1>1, <2>2, <2>3, FirstRead
  <2>. QED
    BY <1>2, <2>4 DEF p
<1>3. CASE m.kind = "diff"
  <2>1. p = [joins |-> "presence", leaves |-> "presence"]
    BY <1>3 DEF JsonOf
  <2>. HIDE DEF p
  <2>2. /\ DOMAIN p = {"joins", "leaves"} /\ p["joins"] = "presence" /\ p["leaves"] = "presence"
    BY <2>1
  <2>3. /\ Json!Reads("PresenceDiff", p)
        /\ ~Json!Reads("Join", p) /\ ~Json!Reads("Response", p) /\ ~Json!Reads("System", p)
        /\ ~Json!Reads("AccessToken", p) /\ ~Json!Reads("PostgresChanges", p)
        /\ ~Json!Reads("Broadcast", p) /\ ~Json!Reads("PresenceState", p)
    BY <2>2, ReadsNeeds
  <2>4. \A j \in 1..(8 - 1) : ~Json!Reads(Json!Variants[j], p)
    BY <1>1, <2>3
  <2>5. v = "PresenceDiff"
    BY <1>1, <2>3, <2>4, FirstRead
  <2>. QED
    BY <1>3, <2>5 DEF p
<1>4. CASE m.kind = "joined"
  <2>1. p = [response |-> "changes", status |-> "ok"]
    BY <1>4 DEF JsonOf
  <2>. HIDE DEF p
  <2>2. DOMAIN p = {"response", "status"} /\ p["response"] = "changes" /\ p["status"] = "ok"
    BY <2>1
  <2>3. Json!Reads("Response", p) /\ ~Json!Reads("Join", p)
    BY <2>2, ReadsNeeds
  <2>4. \A j \in 1..(2 - 1) : ~Json!Reads(Json!Variants[j], p)
    BY <1>1, <2>3
  <2>5. v = "Response"
    BY <1>1, <2>3, <2>4, FirstRead
  <2>. QED
    BY <1>4, <2>5 DEF p
<1>5. CASE m.kind = "cast"
  <2>1. p = [event |-> "text", payload |-> "map", type |-> "text"]
    BY <1>5 DEF JsonOf
  <2>. HIDE DEF p
  <2>2. /\ DOMAIN p = {"event", "payload", "type"}
        /\ p["event"] = "text" /\ p["payload"] = "map" /\ p["type"] = "text"
    BY <2>1
  <2>3. /\ Json!Reads("Broadcast", p)
        /\ ~Json!Reads("Join", p) /\ ~Json!Reads("Response", p) /\ ~Json!Reads("System", p)
        /\ ~Json!Reads("AccessToken", p) /\ ~Json!Reads("PostgresChanges", p)
    BY <2>2, ReadsNeeds DEF Json!Text, Json!Status, Json!Named, Json!Object
  <2>4. \A j \in 1..(6 - 1) : ~Json!Reads(Json!Variants[j], p)
    BY <1>1, <2>3
  <2>5. v = "Broadcast"
    BY <1>1, <2>3, <2>4, FirstRead
  <2>. QED
    BY <1>5, <2>5 DEF p
<1>6. CASE m.kind = "change"
  <2>1. p = [data |-> IF m.change.keyed THEN "data" ELSE "keyless", ids |-> "ids"]
    BY <1>6 DEF JsonOf
  <2>. HIDE DEF p
  <2>2. /\ DOMAIN p = {"data", "ids"} /\ p["ids"] = "ids"
        /\ p["data"] = IF m.change.keyed THEN "data" ELSE "keyless"
    BY <2>1
  <2>3. /\ ~Json!Reads("Join", p) /\ ~Json!Reads("Response", p) /\ ~Json!Reads("System", p)
        /\ ~Json!Reads("AccessToken", p) /\ ~Json!Reads("Broadcast", p)
        /\ ~Json!Reads("PresenceState", p) /\ ~Json!Reads("PresenceDiff", p)
        /\ ~Json!Reads("Reply", p) /\ ~Json!Reads("PresenceTrack", p)
        /\ Json!Reads("PostgresChanges", p) <=> p["data"] = "data"
        /\ Json!Reads("Empty", p)
    BY <2>2, ReadsNeeds
  <2>4. v = IF m.change.keyed THEN "PostgresChanges" ELSE "Empty"
    <3>1. CASE m.change.keyed
      <4>1. \A j \in 1..(5 - 1) : ~Json!Reads(Json!Variants[j], p)
        BY <1>1, <2>3
      <4>. QED
        BY <1>1, <2>2, <2>3, <3>1, <4>1, FirstRead
    <3>2. CASE ~m.change.keyed
      <4>1. \A j \in 1..(11 - 1) : ~Json!Reads(Json!Variants[j], p)
        BY <1>1, <2>2, <2>3, <3>2
      <4>. QED
        BY <1>1, <2>3, <3>2, <4>1, FirstRead
    <3>. QED
      BY <3>1, <3>2
  <2>. QED
    BY <1>6, <2>4 DEF p
<1>7. CASE m.kind = "reply"
  <2>1. p = [response |-> "map", status |-> m.status]
    BY <1>7 DEF JsonOf
  <2>. HIDE DEF p
  <2>2. DOMAIN p = {"response", "status"} /\ p["response"] = "map"
    BY <2>1
  <2>3. /\ ~Json!Reads("Join", p) /\ ~Json!Reads("Response", p) /\ ~Json!Reads("System", p)
        /\ ~Json!Reads("AccessToken", p) /\ ~Json!Reads("PostgresChanges", p)
        /\ ~Json!Reads("Broadcast", p)
        /\ ~Json!Reads("PresenceState", p) /\ ~Json!Reads("PresenceDiff", p)
        /\ ~Json!Reads("PresenceTrack", p) /\ Json!Reads("Empty", p)
    BY <2>2, ReadsNeeds
  <2>4. v \in {"Reply", "Empty"}
    <3>1. CASE Json!Reads("Reply", p)
      <4>1. \A j \in 1..(9 - 1) : ~Json!Reads(Json!Variants[j], p)
        BY <1>1, <2>3
      <4>. QED
        BY <1>1, <3>1, <4>1, FirstRead
    <3>2. CASE ~Json!Reads("Reply", p)
      <4>1. \A j \in 1..(11 - 1) : ~Json!Reads(Json!Variants[j], p)
        BY <1>1, <2>3, <3>2
      <4>. QED
        BY <1>1, <2>3, <4>1, FirstRead
    <3>. QED
      BY <3>1, <3>2
  <2>. QED
    BY <1>7, <2>4 DEF p
<1>. QED
  BY <1>2, <1>3, <1>4, <1>5, <1>6, <1>7 DEF Known

-----------------------------------------------------------------------------
(* The messages on the wire.                                               *)

AllKnown == \A i \in DOMAIN wire : Known(wire[i])

\* One more message that is known.
LEMMA AppendKnown ==
  ASSUME NEW w, IsSeq(w), \A i \in DOMAIN w : Known(w[i]), NEW m, Known(m)
  PROVE  \A i \in DOMAIN Append(w, m) : Known(Append(w, m)[i])
<1>1. Len(w) \in Nat /\ DOMAIN w = 1..Len(w)
  BY SeqDomain
<1>2. /\ DOMAIN Append(w, m) = 1..(Len(w) + 1) /\ Append(w, m)[Len(w) + 1] = m
      /\ \A i \in DOMAIN w : Append(w, m)[i] = w[i]
  BY WireAppend
<1>3. \A i \in DOMAIN Append(w, m) : i \in DOMAIN w \/ i = Len(w) + 1
  BY <1>1, <1>2
<1>. QED
  BY <1>2, <1>3

\* What is told to a joined channel is known.
LEMMA TellsKnown ==
  ASSUME IsSeq(wire), AllKnown, NEW m, Known(m), Tells(m)
  PROVE  AllKnown'
<1>1. CASE wire' = Append(wire, m)
  BY <1>1, AppendKnown DEF AllKnown
<1>2. CASE UNCHANGED wire
  BY <1>2 DEF AllKnown
<1>. QED
  BY <1>1, <1>2 DEF Tells

-----------------------------------------------------------------------------
(* The task, and the presence when the server has let the channel go.      *)

\* Once the server has let the channel go, what is under way leaves nobody.
Emptied == ended => ~joined /\ \A k \in Key : Becomes(k, {})

TaskInv ==
  /\ PresenceInv
  /\ AllKnown
  /\ Emptied
  /\ TaskGoesOn

\* Every message the task takes does to the presence what Handled says.
LEMMA MessageHandled ==
  ASSUME TaskInv, HandleMessage
  PROVE  Handled
<1>1. Shape /\ IsSeq(wire) /\ IsFun(state) /\ IsPresence(state)
  BY DEF TaskInv, PresenceInv, Shape, TypeOK
<1>2. wire # <<>> /\ wire' = Tail(wire) /\ UNCHANGED serverVars
  BY DEF HandleMessage
<1>3. PICK m : m = Head(wire)
  OBVIOUS
<1>4. PICK v : v = Json!VariantOf(JsonOf(m))
  OBVIOUS
<1>5. Known(m)
  BY <1>1, <1>2, <1>3, WireTail DEF TaskInv, AllKnown
<1>6. /\ v = "PresenceState" <=> m.kind \in {"state", "ended"}
      /\ v = "PresenceDiff" <=> m.kind = "diff"
  BY <1>4, <1>5, KnownRead
<1>7. \/ v = "PresenceState" /\ Sync(MapOf(m))
      \/ v = "PresenceDiff" /\ SyncsDiff(m)
      \/ v \notin {"PresenceState", "PresenceDiff"} /\ UNCHANGED clientVars
  <2>1. \/ v = "Broadcast" /\ HandleBroadcast(m)
        \/ v = "PostgresChanges" /\ HandlePostgresChanges(m)
        \/ v = "Response" /\ HandleResponse(m)
        \/ v = "PresenceDiff" /\ SyncsDiff(m)
        \/ v = "PresenceState" /\ Sync(MapOf(m))
        \/ /\ v \notin {"Broadcast", "PostgresChanges", "Response", "PresenceDiff",
                        "PresenceState"}
           /\ UNCHANGED clientVars
    BY <1>3, <1>4 DEF HandleMessage
  <2>. QED
    BY <2>1 DEF HandleBroadcast, HandlePostgresChanges, HandleResponse
<1>8. CASE m.kind = "state"
  <2>1. Sync(m.joins)
    BY <1>6, <1>7, <1>8 DEF MapOf
  <2>. QED
    BY <1>1, <1>2, <1>3, <1>8, <2>1, StateHandled
<1>9. CASE m.kind = "ended"
  <2>1. Sync(<<>>)
    BY <1>6, <1>7, <1>9 DEF MapOf
  <2>2. IsRaw(<<>>) /\ DOMAIN FromRaw(<<>>) = {}
    BY EmptyMap DEF IsRaw, FromRaw
  <2>3. AllRefs(FromRaw(<<>>)) = {} /\ \A k : At(FromRaw(<<>>), k) = {}
    BY <2>2 DEF AllRefs, At
  <2>4. /\ IsFun(state') /\ IsPresence(state')
        /\ \A k : At(state', k) = {}
        /\ heard' = heard /\ gone' = gone
    BY <1>1, <2>1, <2>2, <2>3, SyncGives
  <2>5. Brings(m) = {} /\ TakesAway(m) = {} /\ \A k : Settles(m, k) /\ Gives(m, k) = {}
    BY <1>9 DEF Brings, TakesAway, Settles, Gives
  <2>. QED
    BY <1>2, <1>3, <2>4, <2>5 DEF Handled
<1>10. CASE m.kind = "diff"
  <2>1. SyncsDiff(m)
    BY <1>6, <1>7, <1>10
  <2>. QED
    BY <1>1, <1>2, <1>3, <1>10, <2>1, DiffHandled
<1>11. CASE m.kind \notin {"state", "ended", "diff"}
  <2>1. UNCHANGED <<state, heard, gone>>
    BY <1>6, <1>7, <1>11 DEF clientVars
  <2>2. Brings(m) = {} /\ TakesAway(m) = {} /\ \A k : ~Settles(m, k)
    BY <1>11 DEF Brings, TakesAway, Settles
  <2>3. IsFun(state') /\ IsPresence(state')
    BY <1>1, <2>1 DEF IsFun, IsPresence
  <2>. QED
    BY <1>2, <1>3, <2>1, <2>2, <2>3 DEF Handled
<1>. QED
  BY <1>8, <1>9, <1>10, <1>11

\* Only a reply to the join of another channel ends the task.
LEMMA MessageTask ==
  ASSUME TaskInv, HandleMessage
  PROVE  TaskGoesOn'
<1>1. /\ wire # <<>> /\ IsSeq(wire) /\ alive /\ built' = built
  BY DEF HandleMessage, TaskInv, PresenceInv, Shape, buildVars
<1>2. PICK m : m = Head(wire)
  OBVIOUS
<1>3. PICK v : v = Json!VariantOf(JsonOf(m))
  OBVIOUS
<1>4. Known(m)
  BY <1>1, <1>2, WireTail DEF TaskInv, AllKnown
<1>5. v = "Response" <=> m.kind = "joined"
  BY <1>3, <1>4, KnownRead
<1>6. \/ v = "Response" /\ HandleResponse(m)
      \/ UNCHANGED <<alive, foreign>>
  <2>1. \/ v = "Broadcast" /\ HandleBroadcast(m)
        \/ v = "PostgresChanges" /\ HandlePostgresChanges(m)
        \/ v = "Response" /\ HandleResponse(m)
        \/ UNCHANGED <<alive, foreign>>
    BY <1>2, <1>3 DEF HandleMessage
  <2>. QED
    BY <2>1 DEF HandleBroadcast, HandlePostgresChanges
<1>7. CASE v = "Response" /\ HandleResponse(m)
  BY <1>4, <1>5, <1>7 DEF HandleResponse, Known, TaskGoesOn
<1>8. CASE UNCHANGED <<alive, foreign>>
  BY <1>1, <1>8 DEF TaskGoesOn
<1>. QED
  BY <1>6, <1>7, <1>8

\* At first there is no task, no message and no channel to let go.
LEMMA TaskStarts == DispatchInit => TaskInv
<1>. SUFFICES ASSUME DispatchInit PROVE TaskInv
  OBVIOUS
<1>1. Init /\ wire = <<>> /\ ended = FALSE /\ built = 0
  BY DEF DispatchInit, Init
<1>2. DOMAIN wire = {}
  BY <1>1, EmptyMap
<1>. QED
  BY <1>1, <1>2, PresenceStarts DEF TaskInv, AllKnown, Emptied, TaskGoesOn

\* Steps that leave the presence and its server alone.
LEMMA SameTask ==
  ASSUME TaskInv, UNCHANGED <<vars, ended>>, TaskGoesOn'
  PROVE  TaskInv'
<1>1. PresenceInv'
  BY UnchangedStep DEF TaskInv
<1>2. UNCHANGED <<state, wire, joined>>
  BY DEF vars, clientVars, serverVars
<1>3. AllKnown' /\ \A k : Becomes(k, {}) => Becomes(k, {})'
  BY <1>2 DEF TaskInv, AllKnown, Becomes
<1>4. Emptied'
  BY <1>2, <1>3 DEF TaskInv, Emptied
<1>. QED
  BY <1>1, <1>3, <1>4 DEF TaskInv

\* A message without presence for a joined channel.
LEMMA SendsTask ==
  ASSUME TaskInv, NEW m, Known(m), Quiet(m), Sends(m), UNCHANGED taskVars, UNCHANGED buildVars
  PROVE  TaskInv'
<1>1. joined /\ wire' = Append(wire, m) /\ Tells(m) /\ UNCHANGED <<clientVars, serverVars, ended>>
  BY DEF Sends, Tells
<1>2. PresenceInv'
  BY <1>1, QuietStep DEF TaskInv
<1>3. AllKnown'
  BY <1>1, TellsKnown DEF TaskInv, PresenceInv, Shape
<1>4. Emptied'
  BY <1>1 DEF TaskInv, Emptied
<1>5. TaskGoesOn'
  BY DEF TaskInv, TaskGoesOn, taskVars, buildVars
<1>. QED
  BY <1>2, <1>3, <1>4, <1>5 DEF TaskInv

\* The server lets the channel go.
LEMMA EndsTask ==
  ASSUME TaskInv, Ends
  PROVE  TaskInv'
<1>1. PICK m : m = [kind |-> "ended"]
  OBVIOUS
<1>2. /\ IsSeq(wire) /\ TypeOK /\ IsFun(state) /\ Shape /\ HeardFirst
  BY DEF TaskInv, PresenceInv, Shape
<1>3. /\ wire' = Append(wire, m) /\ Tells(m) /\ ~joined' /\ joined' = FALSE
      /\ UNCHANGED <<state, heard, gone, online, nextRef, drops>>
      /\ UNCHANGED <<alive, foreign, built>>
  BY <1>1 DEF Ends, Tells, clientVars, dispatchRest, buildVars, taskVars
<1>4. /\ Known(m) /\ WellFormed(m) /\ TakesAway(m) = {}
      /\ \A k : Settles(m, k) /\ Gives(m, k) = {}
  BY <1>1 DEF Known, WellFormed, TakesAway, Settles, Gives
<1>5. Shape'
  <2>1. IsSeq(wire') /\ \A n \in Range(wire') : WellFormed(n)
    BY <1>2, <1>3, <1>4, AppendShape
  <2>. QED
    BY <1>2, <1>3, <2>1 DEF Shape, TypeOK, WellFormed
<1>6. HeardFirst'
  <2>1. /\ gone' \subseteq heard'
        /\ \A i \in DOMAIN wire' : \A r \in TakesAway(wire'[i]) : HeardBy(r, i)'
    BY <1>2, <1>3, <1>4, AppendHeard
  <2>. QED
    BY <1>3, <2>1 DEF HeardFirst
<1>7. PresenceInv'
  BY <1>3, <1>5, <1>6 DEF PresenceInv, Caught
<1>8. AllKnown'
  BY <1>2, <1>3, <1>4, TellsKnown DEF TaskInv
<1>9. \A k \in Key : Becomes(k, {})'
  <2>. SUFFICES ASSUME NEW k \in Key PROVE Becomes(k, {})'
    OBVIOUS
  <2>1. Becomes(k, Gives(m, k))'
    BY <1>2, <1>3, <1>4, AppendBecomes
  <2>. QED
    BY <1>4, <2>1
<1>10. TaskGoesOn'
  BY <1>3 DEF TaskInv, TaskGoesOn
<1>. QED
  BY <1>3, <1>7, <1>8, <1>9, <1>10 DEF TaskInv, Emptied

\* The client joins.
LEMMA JoinsTask ==
  ASSUME TaskInv, Joins
  PROVE  TaskInv'
<1>1. PICK q : q = [kind |-> "joined", ref |-> "own"]
  OBVIOUS
<1>2. Admits(<<q>>) /\ ended' = FALSE /\ UNCHANGED <<alive, foreign, built>>
  BY <1>1 DEF Joins, dispatchRest, buildVars, taskVars
<1>3. Quiet(q) /\ Known(q)
  BY <1>1 DEF Quiet, Known
<1>4. PresenceInv'
  BY <1>2, <1>3, AdmitsStep DEF TaskInv
<1>5. AllKnown'
  <2>1. PICK m : m = [kind |-> "state", joins |-> Metas(Tracked), leaves |-> <<>>]
    OBVIOUS
  <2>2. Known(m)
    BY <2>1 DEF Known
  <2>3. IsSeq(wire) /\ IsSeq(Append(wire, q)) /\ wire' = Append(Append(wire, q), m)
    <3>1. IsSeq(wire) /\ wire' = wire \o <<q>> \o <<m>>
      BY <1>2, <2>1 DEF Admits, TaskInv, PresenceInv, Shape
    <3>. QED
      BY <3>1, WireConcat, WireAppend
  <2>4. \A i \in DOMAIN Append(wire, q) : Known(Append(wire, q)[i])
    BY <1>3, <2>3, AppendKnown DEF TaskInv, AllKnown
  <2>. QED
    BY <2>2, <2>3, <2>4, AppendKnown DEF AllKnown
<1>. QED
  BY <1>2, <1>4, <1>5 DEF TaskInv, Emptied, TaskGoesOn

\* What the devices do, and a connection that is lost.
LEMMA PresenceTask ==
  ASSUME TaskInv, Presence
  PROVE  TaskInv'
<1>1. UNCHANGED <<ended, alive, foreign, built>>
  BY DEF Presence, dispatchRest, buildVars, taskVars
<1>2. TaskGoesOn'
  BY <1>1 DEF TaskInv, TaskGoesOn
<1>3. CASE Drop
  <2>1. PresenceInv'
    BY <1>3, DropStep DEF TaskInv
  <2>2. ended' = FALSE \/ ~ended'
    BY <1>1, <1>3 DEF TaskInv, Emptied, Drop
  <2>3. AllKnown'
    <3>1. PICK n \in 0..Len(wire) : wire' = SubSeq(wire, 1, n)
      BY <1>3 DEF Drop
    <3>2. IsSeq(wire)
      BY DEF TaskInv, PresenceInv, Shape
    <3>3. DOMAIN wire' = 1..n /\ \A i \in 1..n : wire'[i] = wire[i] /\ i \in DOMAIN wire
      BY <3>1, <3>2, WirePrefix
    <3>. QED
      BY <3>3 DEF TaskInv, AllKnown
  <2>. QED
    BY <1>2, <2>1, <2>2, <2>3 DEF TaskInv, Emptied
<1>4. ASSUME NEW d \in Device, Track(d) \/ Untrack(d) PROVE TaskInv'
  <2>1. PresenceInv'
    BY <1>4, TrackStep, UntrackStep DEF TaskInv
  <2>2. PICK m : Tells(m) /\ m.kind = "diff"
    BY <1>4 DEF Track, Untrack
  <2>3. AllKnown'
    BY <2>2, TellsKnown DEF TaskInv, PresenceInv, Shape, Known
  <2>4. UNCHANGED <<state, joined>>
    BY <1>4 DEF Track, Untrack, clientVars
  <2>5. Emptied'
    <3>. SUFFICES ASSUME ended PROVE ~joined' /\ \A k \in Key : Becomes(k, {})'
      BY <1>1 DEF Emptied
    <3>1. ~joined /\ wire' = wire
      BY <2>2 DEF TaskInv, Emptied, Tells
    <3>2. \A k : Becomes(k, {}) => Becomes(k, {})'
      BY <2>4, <3>1 DEF Becomes
    <3>. QED
      BY <2>4, <3>1, <3>2 DEF TaskInv, Emptied
  <2>. QED
    BY <1>2, <2>1, <2>3, <2>5 DEF TaskInv
<1>. QED
  BY <1>3, <1>4 DEF Presence

\* Every step: one case per action.
LEMMA TaskStep == TaskInv /\ [DispatchNext]_dispatchVars => TaskInv'
<1>. SUFFICES ASSUME TaskInv, [DispatchNext]_dispatchVars PROVE TaskInv'
  OBVIOUS
<1>1. CASE \/ \E l \in Listener : OnPostgresChange(l)
           \/ \E e \in Cast : OnBroadcast(e)
  <2>1. UNCHANGED <<vars, buildVars, taskVars, ended>>
    BY <1>1 DEF OnPostgresChange, OnBroadcast
  <2>2. TaskGoesOn'
    BY <2>1 DEF TaskInv, TaskGoesOn, buildVars, taskVars
  <2>. QED
    BY <2>1, <2>2, SameTask
<1>2. CASE Build
  <2>1. UNCHANGED <<vars, ended>> /\ TaskGoesOn'
    BY <1>2 DEF Build, TaskGoesOn
  <2>. QED
    BY <2>1, SameTask
<1>3. CASE HandleMessage
  <2>1. Handled /\ TaskGoesOn'
    BY <1>3, MessageHandled, MessageTask
  <2>2. PresenceInv' /\ UNCHANGED <<ended, joined>> /\ IsSeq(wire)
    BY <1>3, <2>1, HandledStep DEF TaskInv, HandleMessage, serverVars, PresenceInv, Shape
  <2>3. AllKnown'
    BY <2>1, <2>2, WireTail DEF TaskInv, AllKnown, Handled
  <2>4. \A k : Becomes(k, {}) => Becomes(k, {})'
    BY <2>1, <2>2, HandledBecomes
  <2>5. Emptied'
    BY <2>2, <2>4 DEF TaskInv, Emptied
  <2>. QED
    BY <2>1, <2>2, <2>3, <2>5 DEF TaskInv
<1>4. ASSUME NEW c \in Change, SendsChange(c) PROVE TaskInv'
  <2>1. PICK m : m = [kind |-> "change", change |-> c]
    OBVIOUS
  <2>2. Known(m) /\ Quiet(m)
    BY <2>1 DEF Known, Quiet
  <2>3. Sends(m) /\ UNCHANGED taskVars /\ UNCHANGED buildVars
    BY <1>4, <2>1 DEF SendsChange, dispatchRest
  <2>. QED
    BY <2>2, <2>3, SendsTask
<1>5. ASSUME NEW e \in Cast, SendsCast(e) PROVE TaskInv'
  <2>1. PICK m : m = [kind |-> "cast", event |-> e]
    OBVIOUS
  <2>2. Known(m) /\ Quiet(m)
    BY <2>1 DEF Known, Quiet
  <2>3. Sends(m) /\ UNCHANGED taskVars /\ UNCHANGED buildVars
    BY <1>5, <2>1 DEF SendsCast, dispatchRest
  <2>. QED
    BY <2>2, <2>3, SendsTask
<1>6. CASE SendsOther
  <2>1. PICK m : /\ Sends(m)
                 /\ \/ \E st \in Answer : m = [kind |-> "reply", status |-> st, ref |-> "none"]
                    \/ m = [kind |-> "joined", ref |-> "other"]
    BY <1>6 DEF SendsOther
  <2>2. Known(m) /\ Quiet(m)
    BY <2>1 DEF Known, Quiet
  <2>3. UNCHANGED taskVars /\ UNCHANGED buildVars
    BY <1>6 DEF SendsOther, dispatchRest
  <2>. QED
    BY <2>1, <2>2, <2>3, SendsTask
<1>7. CASE Ends
  BY <1>7, EndsTask
<1>8. CASE Joins
  BY <1>8, JoinsTask
<1>9. CASE Presence
  BY <1>9, PresenceTask
<1>10. CASE UNCHANGED dispatchVars
  <2>1. UNCHANGED <<vars, ended>> /\ TaskGoesOn'
    BY <1>10 DEF dispatchVars, buildVars, taskVars, TaskInv, TaskGoesOn
  <2>. QED
    BY <2>1, SameTask
<1>. QED
  BY <1>1, <1>2, <1>3, <1>4, <1>5, <1>6, <1>7, <1>8, <1>9, <1>10 DEF DispatchNext

\* TaskGoesOn: nothing but the confirmed join of another channel ends the task.
THEOREM OnlyForeignEnds == DispatchSpec => []TaskGoesOn
<1>1. TaskInv => TaskGoesOn
  BY DEF TaskInv
<1>. QED
  BY <1>1, TaskStarts, TaskStep, PTL DEF DispatchSpec

\* LeavesWereJoined, among all the messages of a channel and whatever ends it.
THEOREM LeavesHeard == DispatchSpec => []LeavesWereJoined
<1>1. TaskInv => LeavesWereJoined
  BY DEF TaskInv, PresenceInv, HeardFirst, LeavesWereJoined
<1>. QED
  BY <1>1, TaskStarts, TaskStep, PTL DEF DispatchSpec

\* PresenceMirrors: when every device tracks under an id of its own, a channel that
\* has handled every message lists what the server lists, and nobody once the
\* server has let it go.
THEOREM MirrorsUntilEnded == Injective => (DispatchSpec => []PresenceMirrors)
<1>. SUFFICES ASSUME Injective PROVE DispatchSpec => []PresenceMirrors
  OBVIOUS
<1>1. TaskInv => PresenceMirrors
  <2>. SUFFICES ASSUME TaskInv, wire = <<>>
                PROVE  /\ joined => state = Listed(Tracked)
                       /\ ended => state = <<>>
    BY DEF PresenceMirrors
  <2>1. joined => state = Listed(Tracked)
    BY CaughtMirrors DEF TaskInv, PresenceInv, Mirrors
  <2>2. ASSUME ended PROVE state = <<>>
    <3>1. \A k \in Key : At(state, k) = {}
      BY <2>2, EmptyMap DEF TaskInv, Emptied, Becomes
    <3>2. /\ DOMAIN state \subseteq Key /\ \A k \in DOMAIN state : state[k] # {}
          /\ IsFun(state)
      BY DEF TaskInv, PresenceInv, Shape, TypeOK, IsPresence
    <3>3. DOMAIN state = {}
      BY <3>1, <3>2 DEF At
    <3>. QED
      BY <3>2, <3>3, EmptyMap DEF IsFun
  <2>. QED
    BY <2>1, <2>2
<1>. QED
  BY <1>1, TaskStarts, TaskStep, PTL DEF DispatchSpec

-----------------------------------------------------------------------------
(* Lemmas about sequences of callbacks.                                    *)

\* w lists each member of S once.
Lists(w, S) ==
  /\ IsSeq(w)
  /\ \A n \in DOMAIN w : w[n] \in S
  /\ \A x \in S : \E n \in DOMAIN w : w[n] = x
  /\ \A k, n \in DOMAIN w : w[k] = w[n] => k = n

\* One behind the other.
LEMMA ConcatPlaces ==
  ASSUME NEW v, NEW w, IsSeq(v), IsSeq(w)
  PROVE  /\ IsSeq(v \o w) /\ Len(v) \in Nat /\ Len(w) \in Nat
         /\ DOMAIN v = 1..Len(v) /\ DOMAIN w = 1..Len(w)
         /\ DOMAIN (v \o w) = 1..(Len(v) + Len(w))
         /\ \A i \in DOMAIN v : (v \o w)[i] = v[i]
         /\ \A i \in DOMAIN w : (v \o w)[Len(v) + i] = w[i]
<1>1. PICK S : v \in Seq(S)
  BY DEF IsSeq
<1>2. PICK T : w \in Seq(T)
  BY DEF IsSeq
<1>3. v \in Seq(S \cup T) /\ w \in Seq(S \cup T)
  BY <1>1, <1>2, SeqMonotonic
<1>4. /\ v \o w \in Seq(S \cup T) /\ Len(v \o w) = Len(v) + Len(w)
      /\ \A i \in 1..(Len(v) + Len(w)) :
           (v \o w)[i] = IF i <= Len(v) THEN v[i] ELSE w[i - Len(v)]
  BY <1>3, ConcatProperties
<1>5. /\ Len(v) \in Nat /\ Len(w) \in Nat /\ DOMAIN v = 1..Len(v) /\ DOMAIN w = 1..Len(w)
      /\ IsSeq(v \o w)
  BY <1>4, SeqDomain DEF IsSeq
<1>6. DOMAIN (v \o w) = 1..(Len(v) + Len(w))
  BY <1>4, <1>5, SeqDomain
<1>7. \A i \in DOMAIN w : (v \o w)[Len(v) + i] = w[i]
  BY <1>4, <1>5
<1>. QED
  BY <1>4, <1>5, <1>6, <1>7

\* A function on 1..n is a sequence.
LEMMA FunIsSeq ==
  ASSUME NEW f, NEW n \in Nat, IsFun(f), DOMAIN f = 1..n
  PROVE  IsSeq(f)
<1>1. f \in [1..n -> {f[x] : x \in DOMAIN f}]
  BY DEF IsFun
<1>2. f \in Seq({f[x] : x \in DOMAIN f})
  BY <1>1, SeqDef
<1>. QED
  BY <1>2 DEF IsSeq

\* What passes the filters is each entry whose filter lets the change through, once.
LEMMA PassingLists ==
  ASSUME NEW es, IsSeq(es), NEW c
  PROVE  /\ IsSeq(Passing(es, c))
         /\ \E f : /\ \A n \in DOMAIN Passing(es, c) :
                         /\ f[n] \in DOMAIN es /\ Check(es[f[n]].filter, c)
                         /\ Passing(es, c)[n] = es[f[n]]
                   /\ \A i \in DOMAIN es :
                        Check(es[i].filter, c) => \E n \in DOMAIN Passing(es, c) : f[n] = i
                   /\ \A k, n \in DOMAIN Passing(es, c) : f[k] = f[n] => k = n
<1>. DEFINE I == {i \in DOMAIN es : Check(es[i].filter, c)}
            N == Cardinality(I)
            rank(i) == Cardinality({j \in I : j <= i})
            Nth(n) == CHOOSE i \in I : rank(i) = n
            w == Passing(es, c)
            r == [i \in I |-> rank(i)]
            f == [n \in 1..N |-> Nth(n)]
<1>1. IsFiniteSet(I) /\ I \subseteq Nat /\ N \in Nat
  <2>1. DOMAIN es = 1..Len(es) /\ Len(es) \in Nat
    BY SeqDomain
  <2>2. IsFiniteSet(1..Len(es)) /\ I \in SUBSET (1..Len(es))
    BY <2>1, FS_Interval
  <2>3. IsFiniteSet(I)
    BY <2>2, FS_Subset
  <2>4. N \in Nat
    BY <2>3, FS_CardinalityType
  <2>. QED
    BY <2>2, <2>3, <2>4
<1>2. w = [n \in 1..N |-> es[Nth(n)]]
  BY DEF Passing
<1>. HIDE DEF I, w
<1>3. ASSUME NEW i \in I
      PROVE  /\ IsFiniteSet({j \in I : j <= i}) /\ rank(i) \in 1..N
  <2>1. {j \in I : j <= i} \in SUBSET I /\ i \in {j \in I : j <= i}
    BY <1>1
  <2>2. IsFiniteSet({j \in I : j <= i}) /\ rank(i) <= N
    BY <1>1, <2>1, FS_Subset
  <2>3. rank(i) \in Nat
    BY <2>2, FS_CardinalityType
  <2>4. rank(i) # 0
    BY <2>1, <2>2, FS_EmptySet
  <2>. QED
    BY <1>1, <2>2, <2>3, <2>4
<1>4. ASSUME NEW i \in I, NEW k \in I, i < k PROVE rank(i) # rank(k)
  <2>1. {j \in I : j <= i} \in SUBSET {j \in I : j <= k}
    <3>1. \A j \in I : j <= i => j <= k
      BY <1>1, <1>4
    <3>. QED
      BY <3>1
  <2>2. k \in {j \in I : j <= k} /\ k \notin {j \in I : j <= i}
    BY <1>1, <1>4
  <2>3. {j \in I : j <= i} # {j \in I : j <= k}
    BY <2>2
  <2>. QED
    BY <1>3, <2>1, <2>3, FS_Subset
<1>5. \A i, k \in I : rank(i) = rank(k) => i = k
  <2>1. \A i, k \in I : i < k \/ k < i \/ i = k
    BY <1>1
  <2>. QED
    BY <1>4, <2>1
<1>6. r \in Injection(I, 1..N)
  <2>. HIDE DEF N, rank
  <2>1. r \in [I -> 1..N] /\ \A i \in I : r[i] = rank(i)
    BY <1>3
  <2>. HIDE DEF r
  <2>2. IsInjective(r)
    BY <1>5, <2>1 DEF IsInjective
  <2>. QED
    BY <2>1, <2>2 DEF Injection
<1>7. r \in Surjection(I, 1..N)
  <2>1. IsFiniteSet(1..N) /\ Cardinality(1..N) = N
    BY <1>1, FS_Interval
  <2>. HIDE DEF r
  <2>. QED
    BY <1>6, <2>1, FS_Injection
<1>8. \A n \in 1..N : \E i \in I : rank(i) = n
  <2>1. \A i \in I : r[i] = rank(i)
    OBVIOUS
  <2>. HIDE DEF r, N, rank
  <2>. QED
    BY <1>7, <2>1 DEF Surjection
<1>. HIDE DEF N, rank
<1>9. \A n \in 1..N : Nth(n) \in I /\ rank(Nth(n)) = n
  BY <1>8
<1>. HIDE DEF Nth
<1>10. DOMAIN w = 1..N /\ IsSeq(w)
  <2>1. DOMAIN w = 1..N /\ IsFun(w)
    BY <1>2 DEF IsFun
  <2>. QED
    BY <1>1, <2>1, FunIsSeq
<1>11. \A n \in DOMAIN w : f[n] \in I /\ w[n] = es[f[n]]
  BY <1>2, <1>9, <1>10
<1>12. \A i \in I : \E n \in DOMAIN w : f[n] = i
  <2>. SUFFICES ASSUME NEW i \in I PROVE f[rank(i)] = i /\ rank(i) \in DOMAIN w
    OBVIOUS
  <2>1. rank(i) \in 1..N
    BY <1>3
  <2>2. Nth(rank(i)) \in I /\ rank(Nth(rank(i))) = rank(i)
    BY <1>9, <2>1
  <2>. QED
    BY <1>5, <1>10, <2>1, <2>2
<1>13. \A k, n \in DOMAIN w : f[k] = f[n] => k = n
  BY <1>9, <1>10
<1>. HIDE DEF f
<1>14. \A i : i \in I <=> i \in DOMAIN es /\ Check(es[i].filter, c)
  BY DEF I
<1>15. /\ \A n \in DOMAIN w : f[n] \in DOMAIN es /\ Check(es[f[n]].filter, c) /\ w[n] = es[f[n]]
       /\ \A i \in DOMAIN es : Check(es[i].filter, c) => \E n \in DOMAIN w : f[n] = i
  BY <1>11, <1>12, <1>14
<1>. QED
  BY <1>10, <1>13, <1>15 DEF w

-----------------------------------------------------------------------------
(* What a builder has of its registrations.                                *)

\* The entries for event e are those of the registrations for it, one each.
HasFilters(b, e, n) ==
  LET es == Registered(b.cdc, e) IN
  /\ IsSeq(es)
  /\ \A i \in DOMAIN es : /\ es[i].cb \in 1..n
                          /\ regs[es[i].cb] = [event |-> e, filter |-> es[i].filter]
  /\ \A i, j \in DOMAIN es : es[i].cb = es[j].cb => i = j
  /\ \A cb \in 1..n : "filter" \in DOMAIN regs[cb] /\ regs[cb].event = e =>
                        \E i \in DOMAIN es : es[i].cb = cb

HasCasts(b, e, n) == Lists(Registered(b.cast, e), {cb \in 1..n : regs[cb] = [event |-> e]})

\* An entry of the join configuration is that of a registration.
AskedBy(a, r) ==
  /\ "filter" \in DOMAIN r /\ a.event = r.event /\ a.schema = r.filter.schema
  /\ a.row = r.filter.row
  /\ a.table = IF r.filter.table = None THEN "" ELSE r.filter.table

\* Builder or channel b has the first n registrations.
Has(b, n) ==
  /\ b = [asks |-> b.asks, cdc |-> b.cdc, cast |-> b.cast]
  /\ \A e : HasFilters(b, e, n) /\ HasCasts(b, e, n)
  /\ IsSeq(b.asks) /\ \A k \in DOMAIN b.asks : \E cb \in 1..n : AskedBy(b.asks[k], regs[cb])

RegsKnown ==
  /\ IsSeq(regs)
  /\ \A cb \in DOMAIN regs : \/ regs[cb] \in Listener
                             \/ \E e \in Cast : regs[cb] = [event |-> e]

\* The builder has all registrations, the channel those made before it was built.
Builds == RegsKnown /\ built \in 0..Len(regs) /\ Has(builder, Len(regs)) /\ Has(channel, built)

\* One more entry under a key, and the other keys as they were.
LEMMA UnderGives ==
  ASSUME NEW map, NEW k, NEW cb, IsSeq(Registered(map, k))
  PROVE  /\ Registered(Under(map, k, cb), k) = Append(Registered(map, k), cb)
         /\ \A e : e # k => Registered(Under(map, k, cb), e) = Registered(map, e)
<1>1. <<cb>> = Append(<<>>, cb)
  <2>1. <<>> \in Seq({cb})
    BY EmptySeq
  <2>. QED
    BY <2>1, AppendIsConcat, ConcatEmptySeq
<1>2. CASE k \in DOMAIN map
  BY <1>2 DEF Under, Registered
<1>3. CASE k \notin DOMAIN map
  BY <1>1, <1>3 DEF Under, Registered
<1>. QED
  BY <1>2, <1>3

\* One more registration, of which b has none of its own.
LEMMA OthersHave ==
  ASSUME RegsKnown, NEW r, regs' = Append(regs, r), NEW b, NEW n \in 0..Len(regs), Has(b, n)
  PROVE  Has(b, n)'
<1>1. \A cb \in 1..n : regs'[cb] = regs[cb]
  BY WireAppend, SeqDomain DEF RegsKnown
<1>2. ASSUME NEW e PROVE HasFilters(b, e, n)' /\ HasCasts(b, e, n)'
  <2>1. HasFilters(b, e, n) /\ HasCasts(b, e, n)
    BY DEF Has
  <2>2. HasFilters(b, e, n)'
    BY <1>1, <2>1 DEF HasFilters
  <2>3. {cb \in 1..n : regs'[cb] = [event |-> e]} = {cb \in 1..n : regs[cb] = [event |-> e]}
    BY <1>1
  <2>. QED
    BY <2>1, <2>2, <2>3 DEF HasCasts
<1>3. \A k \in DOMAIN b.asks : \E cb \in 1..n : AskedBy(b.asks[k], regs'[cb])
  BY <1>1 DEF Has
<1>. QED
  BY <1>2, <1>3 DEF Has

\* A callback for changes is registered.
LEMMA FilterIsHad ==
  ASSUME RegsKnown, NEW l, l = [event |-> l.event, filter |-> l.filter],
         NEW n \in Nat, n = Len(regs), regs' = Append(regs, l),
         NEW b, Has(b, n), NEW a, AskedBy(a, l), NEW d,
         d = [asks |-> d.asks, cdc |-> d.cdc, cast |-> d.cast], d.asks = Append(b.asks, a),
         d.cdc = Under(b.cdc, l.event, [filter |-> l.filter, cb |-> n + 1]), d.cast = b.cast
  PROVE  Has(d, n + 1)'
<1>1. /\ \A cb \in 1..n : regs'[cb] = regs[cb]
      /\ regs'[n + 1] = l /\ \A cb \in 1..(n + 1) : cb \in 1..n \/ cb = n + 1
  BY WireAppend, SeqDomain DEF RegsKnown
<1>. DEFINE x == [filter |-> l.filter, cb |-> n + 1]
<1>2. d.cdc = Under(b.cdc, l.event, x)
  OBVIOUS
<1>3. /\ x.cb = n + 1 /\ x.filter = l.filter /\ "filter" \in DOMAIN l
      /\ \A e : l # [event |-> e]
  <2>1. \A e : DOMAIN [event |-> e] = {"event"}
    OBVIOUS
  <2>2. DOMAIN l = {"event", "filter"}
    OBVIOUS
  <2>. QED
    BY <2>1, <2>2
<1>. HIDE DEF x
<1>4. ASSUME NEW e PROVE HasFilters(d, e, n + 1)'
  <2>. DEFINE es == Registered(b.cdc, e)
              fs == Registered(d.cdc, e)
  <2>1. /\ IsSeq(es)
        /\ \A i \in DOMAIN es : /\ es[i].cb \in 1..n
                                /\ regs[es[i].cb] = [event |-> e, filter |-> es[i].filter]
        /\ \A i, j \in DOMAIN es : es[i].cb = es[j].cb => i = j
        /\ \A cb \in 1..n : "filter" \in DOMAIN regs[cb] /\ regs[cb].event = e =>
                              \E i \in DOMAIN es : es[i].cb = cb
    BY DEF Has, HasFilters
  <2>2. CASE e = l.event
    <3>1. fs = Append(es, x)
      BY <1>2, <2>1, <2>2, UnderGives
    <3>. HIDE DEF es, fs
    <3>2. /\ IsSeq(fs) /\ Len(es) \in Nat /\ DOMAIN es = 1..Len(es)
          /\ DOMAIN fs = 1..(Len(es) + 1)
          /\ \A i \in DOMAIN es : i \in DOMAIN fs /\ fs[i] = es[i]
          /\ Len(es) + 1 \in DOMAIN fs /\ fs[Len(es) + 1] = x
          /\ \A i \in DOMAIN fs : i \in DOMAIN es \/ i = Len(es) + 1
      BY <2>1, <3>1, WireAppend, SeqDomain
    <3>3. ASSUME NEW i \in DOMAIN fs
          PROVE  fs[i].cb \in 1..(n + 1) /\ regs'[fs[i].cb] = [event |-> e, filter |-> fs[i].filter]
      <4>1. CASE i \in DOMAIN es
        BY <1>1, <2>1, <3>2, <4>1
      <4>2. CASE i = Len(es) + 1
        BY <1>1, <1>3, <2>2, <3>2, <4>2
      <4>. QED
        BY <3>2, <3>3, <4>1, <4>2
    <3>4. ASSUME NEW i \in DOMAIN fs, NEW j \in DOMAIN fs, fs[i].cb = fs[j].cb PROVE i = j
      <4>1. \A k \in DOMAIN es : fs[k].cb # n + 1
        <5>1. \A k \in DOMAIN es : fs[k].cb \in 1..n
          BY <2>1, <3>2
        <5>2. n + 1 \notin 1..n
          OBVIOUS
        <5>. QED
          BY <5>1, <5>2
      <4>2. fs[Len(es) + 1].cb = n + 1
        BY <1>3, <3>2
      <4>3. CASE i \in DOMAIN es /\ j \in DOMAIN es
        <5>1. es[i].cb = es[j].cb
          BY <3>2, <3>4, <4>3
        <5>. QED
          BY <2>1, <4>3, <5>1
      <4>4. CASE i \notin DOMAIN es \/ j \notin DOMAIN es
        BY <3>2, <3>4, <4>1, <4>2, <4>4
      <4>. QED
        BY <4>3, <4>4
    <3>5. ASSUME NEW cb \in 1..(n + 1), "filter" \in DOMAIN regs'[cb], regs'[cb].event = e
          PROVE  \E i \in DOMAIN fs : fs[i].cb = cb
      <4>1. CASE cb \in 1..n
        BY <1>1, <2>1, <3>2, <3>5, <4>1
      <4>2. CASE cb = n + 1
        BY <1>3, <3>2, <4>2
      <4>. QED
        BY <1>1, <4>1, <4>2
    <3>. QED
      BY <3>2, <3>3, <3>4, <3>5 DEF HasFilters, fs
  <2>3. CASE e # l.event
    <3>1. fs = es
      <4>1. IsSeq(Registered(b.cdc, l.event))
        BY DEF Has, HasFilters
      <4>. QED
        BY <1>2, <2>3, <4>1, UnderGives
    <3>2. \A cb \in 1..(n + 1) : "filter" \in DOMAIN regs'[cb] /\ regs'[cb].event = e =>
            \E i \in DOMAIN es : es[i].cb = cb
      BY <1>1, <2>1, <2>3
    <3>3. \A i \in DOMAIN es : /\ es[i].cb \in 1..(n + 1)
                               /\ regs'[es[i].cb] = [event |-> e, filter |-> es[i].filter]
      BY <1>1, <2>1
    <3>. HIDE DEF es, fs
    <3>. QED
      BY <2>1, <3>1, <3>2, <3>3 DEF HasFilters, fs
  <2>. QED
    BY <2>2, <2>3
<1>5. ASSUME NEW e PROVE HasCasts(d, e, n + 1)'
  <2>1. {cb \in 1..(n + 1) : regs'[cb] = [event |-> e]} = {cb \in 1..n : regs[cb] = [event |-> e]}
    <3>1. l # [event |-> e]
      BY <1>3
    <3>2. 1..n \subseteq 1..(n + 1)
      OBVIOUS
    <3>. QED
      BY <1>1, <3>1, <3>2
  <2>2. HasCasts(b, e, n)
    BY DEF Has
  <2>. QED
    BY <2>1, <2>2 DEF HasCasts
<1>6. IsSeq(d.asks) /\ \A k \in DOMAIN d.asks : \E cb \in 1..(n + 1) : AskedBy(d.asks[k], regs'[cb])
  <2>1. /\ IsSeq(b.asks)
        /\ \A k \in DOMAIN b.asks : \E cb \in 1..n : AskedBy(b.asks[k], regs[cb])
    BY DEF Has
  <2>2. /\ IsSeq(d.asks) /\ \A k \in DOMAIN b.asks : d.asks[k] = b.asks[k]
        /\ d.asks[Len(b.asks) + 1] = a
        /\ \A k \in DOMAIN d.asks : k \in DOMAIN b.asks \/ k = Len(b.asks) + 1
    BY <2>1, WireAppend, SeqDomain
  <2>3. ASSUME NEW k \in DOMAIN d.asks PROVE \E cb \in 1..(n + 1) : AskedBy(d.asks[k], regs'[cb])
    <3>1. CASE k \in DOMAIN b.asks
      BY <1>1, <2>1, <2>2, <3>1
    <3>2. CASE k = Len(b.asks) + 1
      BY <1>1, <2>2, <3>2
    <3>. QED
      BY <2>2, <3>1, <3>2
  <2>. QED
    BY <2>2, <2>3
<1>. QED
  BY <1>4, <1>5, <1>6 DEF Has

\* A callback for broadcasts is registered.
LEMMA CastIsHad ==
  ASSUME RegsKnown, NEW e, NEW n \in Nat, n = Len(regs), regs' = Append(regs, [event |-> e]),
         NEW b, Has(b, n), NEW d, d = [asks |-> d.asks, cdc |-> d.cdc, cast |-> d.cast],
         d.asks = b.asks, d.cdc = b.cdc, d.cast = Under(b.cast, e, n + 1)
  PROVE  Has(d, n + 1)'
<1>1. /\ \A cb \in 1..n : regs'[cb] = regs[cb]
      /\ regs'[n + 1] = [event |-> e] /\ \A cb \in 1..(n + 1) : cb \in 1..n \/ cb = n + 1
  BY WireAppend, SeqDomain DEF RegsKnown
<1>2. "filter" \notin DOMAIN [event |-> e]
  OBVIOUS
<1>3. ASSUME NEW k PROVE HasFilters(d, k, n + 1)'
  <2>1. HasFilters(b, k, n)
    BY DEF Has
  <2>2. \A cb \in 1..(n + 1) : "filter" \in DOMAIN regs'[cb] => cb \in 1..n
    BY <1>1, <1>2
  <2>. QED
    BY <1>1, <2>1, <2>2 DEF HasFilters
<1>4. ASSUME NEW k PROVE HasCasts(d, k, n + 1)'
  <2>. DEFINE S == {cb \in 1..n : regs[cb] = [event |-> k]}
              T == {cb \in 1..(n + 1) : regs'[cb] = [event |-> k]}
              v == Registered(b.cast, k)
              w == Registered(d.cast, k)
  <2>1. Lists(v, S) /\ IsSeq(Registered(b.cast, e))
    BY DEF Has, HasCasts, Lists
  <2>2. CASE k = e
    <3>1. w = Append(v, n + 1)
      BY <2>1, <2>2, UnderGives
    <3>2. T = S \cup {n + 1} /\ n + 1 \notin S
      BY <1>1, <2>2
    <3>. HIDE DEF v, w, S, T
    <3>3. /\ IsSeq(w) /\ \A i \in DOMAIN v : i \in DOMAIN w /\ w[i] = v[i]
          /\ Len(v) + 1 \in DOMAIN w /\ w[Len(v) + 1] = n + 1
          /\ \A i \in DOMAIN w : i \in DOMAIN v \/ i = Len(v) + 1
      BY <2>1, <3>1, WireAppend, SeqDomain DEF Lists
    <3>4. Lists(w, T)
      BY <2>1, <3>2, <3>3 DEF Lists
    <3>. QED
      BY <3>4 DEF HasCasts, w, T
  <2>3. CASE k # e
    <3>1. w = v
      BY <2>1, <2>3, UnderGives
    <3>2. T = S
      <4>1. [event |-> e] # [event |-> k]
        BY <2>3
      <4>. QED
        BY <1>1, <4>1
    <3>. HIDE DEF v, w, S, T
    <3>3. Lists(w, T)
      BY <2>1, <3>1, <3>2
    <3>. QED
      BY <3>3 DEF HasCasts, w, T
  <2>. QED
    BY <2>2, <2>3
<1>5. IsSeq(d.asks) /\ \A k \in DOMAIN d.asks : \E cb \in 1..(n + 1) : AskedBy(d.asks[k], regs'[cb])
  BY <1>1 DEF Has
<1>. QED
  BY <1>3, <1>4, <1>5 DEF Has

\* One more registration is known, and is the last.
LEMMA RegistersKnown ==
  ASSUME Builds, NEW r, Registers(r), r \in Listener \/ \E e \in Cast : r = [event |-> e],
         UNCHANGED buildVars
  PROVE  /\ RegsKnown' /\ Len(regs') = Len(regs) + 1 /\ regs' = Append(regs, r)
         /\ built' \in 0..Len(regs') /\ Has(channel, built)'
<1>1. /\ regs' = Append(regs, r) /\ IsSeq(regs) /\ channel' = channel /\ built' = built
      /\ built \in 0..Len(regs) /\ Has(channel, built) /\ RegsKnown
  BY DEF Registers, buildVars, Builds, RegsKnown
<1>2. /\ IsSeq(regs') /\ Len(regs') = Len(regs) + 1 /\ Len(regs) \in Nat
      /\ \A cb \in DOMAIN regs' : \/ cb \in DOMAIN regs /\ regs'[cb] = regs[cb]
                                  \/ regs'[cb] = r
  BY <1>1, WireAppend, SeqDomain
<1>3. RegsKnown'
  BY <1>1, <1>2 DEF RegsKnown
<1>4. Has(channel, built)'
  <2>1. PICK b : b = channel
    OBVIOUS
  <2>2. PICK n \in 0..Len(regs) : n = built
    BY <1>1
  <2>3. Has(b, n)'
    BY <1>1, <2>1, <2>2, OthersHave
  <2>. QED
    BY <1>1, <2>1, <2>2, <2>3
<1>. QED
  BY <1>1, <1>2, <1>3, <1>4

\* A callback for changes is registered.
LEMMA OnPostgresChangeBuilds ==
  ASSUME Builds, NEW l \in Listener, OnPostgresChange(l)
  PROVE  Builds'
<1>. USE DispatchAssumption
<1>1. Registers(l) /\ UNCHANGED buildVars /\ l = [event |-> l.event, filter |-> l.filter]
  BY DEF OnPostgresChange
<1>2. /\ RegsKnown' /\ Len(regs') = Len(regs) + 1 /\ regs' = Append(regs, l)
      /\ built' \in 0..Len(regs') /\ Has(channel, built)'
  BY <1>1, RegistersKnown
<1>3. PICK n : n = Len(regs)
  OBVIOUS
<1>4. PICK b : b = builder
  OBVIOUS
<1>5. PICK a : a = [event |-> l.event, schema |-> l.filter.schema, row |-> l.filter.row,
                    table |-> IF l.filter.table = None THEN "" ELSE l.filter.table]
  OBVIOUS
<1>6. PICK d : d = builder'
  OBVIOUS
<1>7. n \in Nat /\ Has(b, n) /\ RegsKnown
  BY <1>3, <1>4, SeqDomain DEF Builds, RegsKnown
<1>8. AskedBy(a, l)
  BY <1>1, <1>5 DEF AskedBy
<1>9. /\ d = [asks |-> d.asks, cdc |-> d.cdc, cast |-> d.cast] /\ d.asks = Append(b.asks, a)
      /\ d.cdc = Under(b.cdc, l.event, [filter |-> l.filter, cb |-> n + 1]) /\ d.cast = b.cast
  <2>1. PICK x : x = [filter |-> l.filter, cb |-> n + 1]
    OBVIOUS
  <2>2. d = [b EXCEPT !.asks = Append(@, a), !.cdc = Under(@, l.event, x)]
    BY <1>2, <1>3, <1>4, <1>5, <1>6, <2>1 DEF OnPostgresChange
  <2>3. b = [asks |-> b.asks, cdc |-> b.cdc, cast |-> b.cast]
    BY <1>7 DEF Has
  <2>4. d = [asks |-> Append(b.asks, a), cdc |-> Under(b.cdc, l.event, x), cast |-> b.cast]
    BY <2>2, <2>3
  <2>. QED
    BY <2>1, <2>4
<1>10. Has(d, n + 1)'
  BY <1>1, <1>2, <1>3, <1>7, <1>8, <1>9, FilterIsHad
<1>11. Has(builder, Len(regs))'
  BY <1>2, <1>3, <1>6, <1>10
<1>. QED
  BY <1>2, <1>11 DEF Builds

\* A callback for broadcasts is registered.
LEMMA OnBroadcastBuilds ==
  ASSUME Builds, NEW e \in Cast, OnBroadcast(e)
  PROVE  Builds'
<1>1. PICK r : r = [event |-> e]
  OBVIOUS
<1>2. Registers(r) /\ UNCHANGED buildVars
  BY <1>1 DEF OnBroadcast
<1>3. /\ RegsKnown' /\ Len(regs') = Len(regs) + 1 /\ regs' = Append(regs, r)
      /\ built' \in 0..Len(regs') /\ Has(channel, built)'
  BY <1>1, <1>2, RegistersKnown
<1>4. PICK n : n = Len(regs)
  OBVIOUS
<1>5. PICK b : b = builder
  OBVIOUS
<1>6. PICK d : d = builder'
  OBVIOUS
<1>7. n \in Nat /\ Has(b, n) /\ RegsKnown
  BY <1>4, <1>5, SeqDomain DEF Builds, RegsKnown
<1>8. /\ d = [asks |-> d.asks, cdc |-> d.cdc, cast |-> d.cast]
      /\ d.asks = b.asks /\ d.cdc = b.cdc /\ d.cast = Under(b.cast, e, n + 1)
  <2>1. d = [b EXCEPT !.cast = Under(@, e, n + 1)]
    BY <1>3, <1>4, <1>5, <1>6 DEF OnBroadcast
  <2>2. b = [asks |-> b.asks, cdc |-> b.cdc, cast |-> b.cast]
    BY <1>7 DEF Has
  <2>3. d = [asks |-> b.asks, cdc |-> b.cdc, cast |-> Under(b.cast, e, n + 1)]
    BY <2>1, <2>2
  <2>. QED
    BY <2>3
<1>9. Has(d, n + 1)'
  BY <1>1, <1>3, <1>4, <1>7, <1>8, CastIsHad
<1>10. Has(builder, Len(regs))'
  BY <1>3, <1>4, <1>6, <1>9
<1>. QED
  BY <1>3, <1>10 DEF Builds

\* At first nothing is registered.
LEMMA BuildsStarts == DispatchInit => Builds
<1>. SUFFICES ASSUME DispatchInit PROVE Builds
  OBVIOUS
<1>1. /\ regs = <<>> /\ builder = Unbuilt /\ channel = Unbuilt /\ built = 0
  BY DEF DispatchInit
<1>2. Len(regs) = 0 /\ IsSeq(regs) /\ DOMAIN regs = {}
  BY <1>1, EmptyMap
<1>3. Has(Unbuilt, 0)
  <2>. DEFINE b == Unbuilt
  <2>1. /\ b = [asks |-> b.asks, cdc |-> b.cdc, cast |-> b.cast]
        /\ b.asks = <<>> /\ b.cdc = <<>> /\ b.cast = <<>>
    BY DEF Unbuilt
  <2>. HIDE DEF b
  <2>2. \A e : Registered(b.cdc, e) = <<>> /\ Registered(b.cast, e) = <<>>
    BY <2>1, EmptyMap DEF Registered
  <2>3. \A e : HasFilters(b, e, 0) /\ HasCasts(b, e, 0)
    BY <2>2, EmptyMap DEF HasFilters, HasCasts, Lists
  <2>4. IsSeq(b.asks) /\ DOMAIN b.asks = {}
    BY <2>1, EmptyMap
  <2>5. Has(b, 0)
    BY <2>1, <2>3, <2>4 DEF Has
  <2>. QED
    BY <2>5 DEF b
<1>. QED
  BY <1>1, <1>2, <1>3 DEF Builds, RegsKnown

\* Every step: only the builder's own change what has been registered or built.
LEMMA BuildsStep == Builds /\ [DispatchNext]_dispatchVars => Builds'
<1>. SUFFICES ASSUME Builds, [DispatchNext]_dispatchVars PROVE Builds'
  OBVIOUS
<1>1. ASSUME NEW l \in Listener, OnPostgresChange(l) PROVE Builds'
  BY <1>1, OnPostgresChangeBuilds
<1>2. ASSUME NEW e \in Cast, OnBroadcast(e) PROVE Builds'
  BY <1>2, OnBroadcastBuilds
<1>3. ASSUME UNCHANGED <<regs, builder>>, \/ UNCHANGED <<channel, built>>
                                          \/ channel' = builder /\ built' = Len(regs)
      PROVE  Builds'
  <2>1. RegsKnown' /\ Len(regs) \in Nat /\ built' \in 0..Len(regs')
    BY <1>3, SeqDomain DEF Builds, RegsKnown
  <2>2. \A b, n : Has(b, n) => Has(b, n)'
    BY <1>3 DEF Has, HasFilters, HasCasts
  <2>3. PICK b : b = builder
    OBVIOUS
  <2>4. PICK c : c = channel
    OBVIOUS
  <2>5. PICK n : n = Len(regs)
    OBVIOUS
  <2>6. PICK k : k = built
    OBVIOUS
  <2>7. Has(b, n)' /\ Has(c, k)'
    BY <2>2, <2>3, <2>4, <2>5, <2>6 DEF Builds
  <2>8. Has(builder, Len(regs))' /\ Has(channel, built)'
    BY <1>3, <2>3, <2>4, <2>5, <2>6, <2>7
  <2>. QED
    BY <2>1, <2>8 DEF Builds
<1>4. CASE Build
  BY <1>3, <1>4 DEF Build, builderVars
<1>5. CASE \/ HandleMessage \/ SendsOther \/ Ends \/ Joins \/ Presence
           \/ \E e \in Cast : SendsCast(e)
           \/ \E c \in Change : SendsChange(c)
           \/ UNCHANGED dispatchVars
  <2>1. UNCHANGED <<regs, builder, channel, built>>
    BY <1>5 DEF HandleMessage, SendsOther, Ends, Joins, Presence, SendsCast, SendsChange,
                dispatchRest, dispatchVars, builderVars, buildVars
  <2>. QED
    BY <1>3, <2>1
<1>. QED
  BY <1>1, <1>2, <1>4, <1>5 DEF DispatchNext

-----------------------------------------------------------------------------
(* The callbacks that a message runs.                                      *)

\* A change that can be read runs each callback that wants it, once.
LEMMA ChangeRuns ==
  ASSUME Builds, NEW m, m.kind = "change", m.change \in Change, m.change.keyed
  PROVE  LET found == ForChange(m.change) IN
         Lists([i \in DOMAIN found |-> found[i].cb], {cb \in 1..built : Wants(regs[cb], m)})
<1>. DEFINE c == m.change
            v == Registered(channel.cdc, c.type)
            w == Registered(channel.cdc, "*")
            es == v \o w
            found == ForChange(c)
            cbs == [i \in DOMAIN found |-> found[i].cb]
            S == {cb \in 1..built : Wants(regs[cb], m)}
<1>1. c.type # "*"
  BY DispatchAssumption
<1>2. HasFilters(channel, c.type, built) /\ HasFilters(channel, "*", built)
  BY DEF Builds, Has
<1>3. /\ IsSeq(v)
      /\ \A i \in DOMAIN v : /\ v[i].cb \in 1..built
                             /\ regs[v[i].cb] = [event |-> c.type, filter |-> v[i].filter]
      /\ \A i, j \in DOMAIN v : v[i].cb = v[j].cb => i = j
      /\ \A cb \in 1..built : "filter" \in DOMAIN regs[cb] /\ regs[cb].event = c.type =>
                                \E i \in DOMAIN v : v[i].cb = cb
  BY <1>2 DEF HasFilters
<1>4. /\ IsSeq(w)
      /\ \A i \in DOMAIN w : /\ w[i].cb \in 1..built
                             /\ regs[w[i].cb] = [event |-> "*", filter |-> w[i].filter]
      /\ \A i, j \in DOMAIN w : w[i].cb = w[j].cb => i = j
      /\ \A cb \in 1..built : "filter" \in DOMAIN regs[cb] /\ regs[cb].event = "*" =>
                                \E i \in DOMAIN w : w[i].cb = cb
  BY <1>2 DEF HasFilters
<1>5. found = Passing(es, c)
  BY DEF ForChange
<1>. HIDE DEF v, w, found
<1>6. /\ IsSeq(es) /\ Len(v) \in Nat /\ DOMAIN v = 1..Len(v) /\ DOMAIN w = 1..Len(w)
      /\ \A i \in DOMAIN v : i \in DOMAIN es /\ es[i] = v[i]
      /\ \A i \in DOMAIN w : Len(v) + i \in DOMAIN es /\ es[Len(v) + i] = w[i]
      /\ \A i \in DOMAIN es : i \in DOMAIN v \/ \E j \in DOMAIN w : i = Len(v) + j
  <2>3. IsSeq(v) /\ IsSeq(w)
    BY <1>3, <1>4
  <2>1. /\ IsSeq(es) /\ Len(v) \in Nat /\ Len(w) \in Nat
        /\ DOMAIN v = 1..Len(v) /\ DOMAIN w = 1..Len(w)
        /\ DOMAIN es = 1..(Len(v) + Len(w))
        /\ \A i \in DOMAIN v : es[i] = v[i]
        /\ \A i \in DOMAIN w : es[Len(v) + i] = w[i]
    BY <2>3, ConcatPlaces
  <2>. HIDE DEF es
  <2>2. ASSUME NEW i \in DOMAIN es, i \notin DOMAIN v PROVE \E j \in DOMAIN w : i = Len(v) + j
    <3>1. i - Len(v) \in DOMAIN w /\ i = Len(v) + (i - Len(v))
      BY <2>1, <2>2
    <3>. QED
      BY <3>1
  <2>. QED
    BY <2>1, <2>2
<1>. HIDE DEF es
<1>7. ASSUME NEW i \in DOMAIN es
      PROVE  /\ es[i].cb \in 1..built
             /\ \E e \in {c.type, "*"} : regs[es[i].cb] = [event |-> e, filter |-> es[i].filter]
  <2>1. CASE i \in DOMAIN v
    BY <1>3, <1>6, <2>1
  <2>2. ASSUME NEW j \in DOMAIN w, i = Len(v) + j
        PROVE  /\ es[i].cb \in 1..built
               /\ regs[es[i].cb] = [event |-> "*", filter |-> es[i].filter]
    BY <1>4, <1>6, <2>2
  <2>. QED
    BY <1>6, <2>1, <2>2
<1>8. ASSUME NEW i \in DOMAIN es, NEW k \in DOMAIN es, es[i].cb = es[k].cb PROVE i = k
  <2>1. \A j \in DOMAIN v, n \in DOMAIN w : v[j].cb # w[n].cb
    <3>. SUFFICES ASSUME NEW j \in DOMAIN v, NEW n \in DOMAIN w, v[j].cb = w[n].cb PROVE FALSE
      OBVIOUS
    <3>1. regs[v[j].cb] = [event |-> c.type, filter |-> v[j].filter]
      BY <1>3
    <3>2. regs[w[n].cb] = [event |-> "*", filter |-> w[n].filter]
      BY <1>4
    <3>3. regs[v[j].cb].event = c.type /\ regs[w[n].cb].event = "*"
      BY <3>1, <3>2
    <3>. QED
      BY <1>1, <3>3
  <2>2. CASE i \in DOMAIN v /\ k \in DOMAIN v
    BY <1>3, <1>6, <1>8, <2>2
  <2>3. ASSUME NEW j \in DOMAIN w, i = Len(v) + j, NEW n \in DOMAIN w, k = Len(v) + n PROVE i = k
    <3>1. w[j].cb = w[n].cb
      BY <1>6, <1>8, <2>3
    <3>2. j = n
      BY <1>4, <3>1
    <3>. QED
      BY <2>3, <3>2
  <2>4. CASE (i \in DOMAIN v /\ k \notin DOMAIN v) \/ (i \notin DOMAIN v /\ k \in DOMAIN v)
    BY <1>6, <1>8, <2>1, <2>4
  <2>5. CASE i \notin DOMAIN v /\ k \notin DOMAIN v
    BY <1>6, <2>3, <2>5
  <2>. QED
    BY <2>2, <2>4, <2>5
<1>9. ASSUME NEW cb \in S PROVE \E i \in DOMAIN es : es[i].cb = cb /\ Check(es[i].filter, c)
  <2>1. /\ cb \in 1..built /\ "filter" \in DOMAIN regs[cb] /\ regs[cb].event \in {"*", c.type}
        /\ Check(regs[cb].filter, c)
    BY DEF Wants, Check
  <2>2. \E i \in DOMAIN es : es[i].cb = cb
    <3>1. CASE regs[cb].event = c.type
      BY <1>3, <1>6, <2>1, <3>1
    <3>2. CASE regs[cb].event = "*"
      BY <1>4, <1>6, <2>1, <3>2
    <3>. QED
      BY <2>1, <3>1, <3>2
  <2>3. PICK i \in DOMAIN es : es[i].cb = cb
    BY <2>2
  <2>4. regs[cb].filter = es[i].filter
    <3>1. PICK e \in {c.type, "*"} : regs[es[i].cb] = [event |-> e, filter |-> es[i].filter]
      BY <1>7
    <3>2. regs[es[i].cb].filter = es[i].filter
      BY <3>1
    <3>. QED
      BY <2>3, <3>2
  <2>. QED
    BY <2>1, <2>3, <2>4
<1>10. ASSUME NEW i \in DOMAIN es, Check(es[i].filter, c) PROVE es[i].cb \in S
  <2>1. PICK e \in {c.type, "*"} : regs[es[i].cb] = [event |-> e, filter |-> es[i].filter]
    BY <1>7
  <2>2. /\ regs[es[i].cb].event = e /\ regs[es[i].cb].filter = es[i].filter
        /\ "filter" \in DOMAIN regs[es[i].cb]
    BY <2>1
  <2>. QED
    BY <1>7, <1>10, <2>1, <2>2 DEF Wants, Check
<1>11. PICK f : /\ \A n \in DOMAIN found : /\ f[n] \in DOMAIN es /\ Check(es[f[n]].filter, c)
                                           /\ found[n] = es[f[n]]
                /\ \A i \in DOMAIN es : Check(es[i].filter, c) => \E n \in DOMAIN found : f[n] = i
                /\ \A k, n \in DOMAIN found : f[k] = f[n] => k = n
  BY <1>5, <1>6, PassingLists
<1>12. IsSeq(cbs) /\ DOMAIN cbs = DOMAIN found /\ \A n \in DOMAIN found : cbs[n] = es[f[n]].cb
  <2>1. IsSeq(found)
    BY <1>5, <1>6, PassingLists
  <2>2. Len(found) \in Nat /\ DOMAIN found = 1..Len(found)
    BY <2>1, SeqDomain
  <2>3. DOMAIN cbs = DOMAIN found /\ IsFun(cbs)
    BY DEF IsFun
  <2>. QED
    BY <1>11, <2>2, <2>3, FunIsSeq
<1>. HIDE DEF cbs, S
<1>13. Lists(cbs, S)
  <2>1. \A n \in DOMAIN cbs : cbs[n] \in S
    BY <1>10, <1>11, <1>12
  <2>2. \A cb \in S : \E n \in DOMAIN cbs : cbs[n] = cb
    BY <1>9, <1>11, <1>12
  <2>3. \A k, n \in DOMAIN cbs : cbs[k] = cbs[n] => k = n
    BY <1>8, <1>11, <1>12
  <2>. QED
    BY <1>12, <2>1, <2>2, <2>3 DEF Lists
<1>. QED
  BY <1>13 DEF cbs, S, found

\* So does a broadcast.
LEMMA CastRuns ==
  ASSUME Builds, NEW m, m.kind = "cast"
  PROVE  Lists(Registered(channel.cast, m.event), {cb \in 1..built : Wants(regs[cb], m)})
<1>1. HasCasts(channel, m.event, built)
  BY DEF Builds, Has
<1>2. {cb \in 1..built : regs[cb] = [event |-> m.event]} = {cb \in 1..built : Wants(regs[cb], m)}
  BY DEF Wants
<1>. QED
  BY <1>1, <1>2 DEF HasCasts

\* A change that cannot be read, or what is no change and no broadcast, runs none.
LEMMA NoneRuns ==
  ASSUME NEW m, m.kind = "change" => ~m.change.keyed, m.kind # "cast"
  PROVE  Lists(<<>>, {cb \in 1..built : Wants(regs[cb], m)})
<1>1. {cb \in 1..built : Wants(regs[cb], m)} = {}
  BY DEF Wants
<1>. QED
  BY <1>1, EmptyMap DEF Lists

-----------------------------------------------------------------------------
(* What has been run.                                                      *)

\* Callback cb was run for message i.
RanFor(cb, i) == \E k \in DOMAIN ran : ran[k][1] = cb /\ ran[k][2] = i

\* Each run is of a callback of the channel, for a message it has taken; callback by
\* callback they are in the order of the messages; and they are those that want it.
RunsRight ==
  /\ IsSeq(ran) /\ IsSeq(handled)
  /\ \A k \in DOMAIN ran : /\ ran[k] = <<ran[k][1], ran[k][2]>>
                           /\ ran[k][1] \in 1..built /\ ran[k][2] \in DOMAIN handled
  /\ \A k, n \in DOMAIN ran : k < n /\ ran[k][1] = ran[n][1] => ran[k][2] < ran[n][2]
  /\ \A cb \in 1..built, i \in DOMAIN handled : RanFor(cb, i) <=> Wants(regs[cb], handled[i])

\* That is what RunOnce says.
LEMMA RightIsOnce == Builds /\ RunsRight => RunOnce
<1>. SUFFICES ASSUME Builds, RunsRight PROVE RunOnce
  OBVIOUS
<1>1. DOMAIN regs = 1..Len(regs) /\ Len(regs) \in Nat /\ built \in 0..Len(regs)
  BY SeqDomain DEF Builds, RegsKnown
<1>2. ASSUME NEW cb \in DOMAIN regs
      PROVE  {x[2] : x \in {y \in Range(ran) : y[1] = cb}} =
               {i \in DOMAIN handled : cb <= built /\ Wants(regs[cb], handled[i])}
  <2>. DEFINE A == {x[2] : x \in {y \in Range(ran) : y[1] = cb}}
              B == {i \in DOMAIN handled : cb <= built /\ Wants(regs[cb], handled[i])}
  <2>1. cb \in 1..built <=> cb <= built
    BY <1>1
  <2>2. \A i : i \in A <=> RanFor(cb, i)
    BY DEF Range, RanFor
  <2>3. \A i : RanFor(cb, i) => i \in DOMAIN handled /\ cb \in 1..built
    BY DEF RunsRight, RanFor
  <2>4. \A i : i \in B <=> i \in DOMAIN handled /\ cb \in 1..built /\ Wants(regs[cb], handled[i])
    BY <2>1
  <2>. HIDE DEF A, B
  <2>5. \A i : i \in A <=> i \in B
    BY <2>2, <2>3, <2>4 DEF RunsRight
  <2>6. A = B
    BY <2>5
  <2>. QED
    BY <2>6 DEF A, B
<1>. QED
  BY <1>2 DEF RunOnce, RunsRight

\* A message is taken, and runs each callback that wants it once.
LEMMA OneMoreRight ==
  ASSUME RunsRight, NEW m, handled' = Append(handled, m), UNCHANGED <<regs, built>>,
         NEW cbs, Lists(cbs, {cb \in 1..built : Wants(regs[cb], m)}), Runs(cbs)
  PROVE  RunsRight'
<1>. DEFINE w == [i \in DOMAIN cbs |-> <<cbs[i], Len(handled')>>]
<1>1. PICK N \in Nat : N = Len(handled)
  BY SeqDomain DEF RunsRight
<1>2. /\ IsSeq(handled') /\ DOMAIN handled' = 1..(N + 1) /\ handled'[N + 1] = m
      /\ DOMAIN handled = 1..N /\ \A i \in DOMAIN handled : handled'[i] = handled[i]
      /\ Len(handled') = N + 1
  BY <1>1, WireAppend, SeqDomain DEF RunsRight
<1>3. PICK K \in Nat : K = Len(cbs) /\ DOMAIN cbs = 1..K
  BY SeqDomain DEF Lists
<1>4. IsSeq(w) /\ DOMAIN w = 1..K /\ \A i \in 1..K : w[i] = <<cbs[i], N + 1>>
  <2>1. DOMAIN w = 1..K /\ IsFun(w)
    BY <1>3 DEF IsFun
  <2>. QED
    BY <1>2, <1>3, <2>1, FunIsSeq
<1>5. ran' = ran \o w /\ IsSeq(ran)
  BY DEF Runs, RunsRight
<1>. HIDE DEF w
<1>6. PICK L \in Nat : /\ IsSeq(ran') /\ L = Len(ran) /\ DOMAIN ran = 1..L
                       /\ DOMAIN ran' = 1..(L + K)
                       /\ \A k \in DOMAIN ran : ran'[k] = ran[k]
                       /\ \A i \in 1..K : ran'[L + i] = <<cbs[i], N + 1>>
  <2>1. Len(w) = K
    <3>1. Len(w) \in Nat /\ 1..Len(w) = 1..K
      BY <1>4, SeqDomain
    <3>. QED
      BY <1>3, <3>1
  <2>2. /\ IsSeq(ran \o w) /\ Len(ran) \in Nat /\ DOMAIN ran = 1..Len(ran)
        /\ DOMAIN (ran \o w) = 1..(Len(ran) + Len(w))
        /\ \A i \in DOMAIN ran : (ran \o w)[i] = ran[i]
        /\ \A i \in DOMAIN w : (ran \o w)[Len(ran) + i] = w[i]
    BY <1>4, <1>5, ConcatPlaces
  <2>. QED
    BY <1>4, <1>5, <2>1, <2>2
<1>7. \A k \in DOMAIN ran' : k \in DOMAIN ran \/ \E i \in 1..K : k = L + i
  <2>. SUFFICES ASSUME NEW k \in 1..(L + K), k \notin 1..L PROVE k - L \in 1..K /\ k = L + (k - L)
    BY <1>6
  <2>. QED
    BY <1>6
<1>8. \A i \in 1..K : /\ ran'[L + i][1] = cbs[i] /\ ran'[L + i][2] = N + 1
                      /\ cbs[i] \in 1..built /\ Wants(regs[cbs[i]], m)
  <2>. SUFFICES ASSUME NEW i \in 1..K
                PROVE  /\ ran'[L + i][1] = cbs[i] /\ ran'[L + i][2] = N + 1
                       /\ cbs[i] \in 1..built /\ Wants(regs[cbs[i]], m)
    OBVIOUS
  <2>1. ran'[L + i] = <<cbs[i], N + 1>>
    BY <1>6
  <2>2. cbs[i] \in {cb \in 1..built : Wants(regs[cb], m)}
    BY <1>3 DEF Lists
  <2>. QED
    BY <2>1, <2>2
<1>9. \A k \in DOMAIN ran : /\ ran[k] = <<ran[k][1], ran[k][2]>>
                            /\ ran[k][1] \in 1..built /\ ran[k][2] \in 1..N
  BY <1>2 DEF RunsRight
<1>10. ASSUME NEW k \in DOMAIN ran'
       PROVE  /\ ran'[k] = <<ran'[k][1], ran'[k][2]>>
              /\ ran'[k][1] \in 1..built' /\ ran'[k][2] \in DOMAIN handled'
  <2>1. CASE k \in DOMAIN ran
    BY <1>2, <1>6, <1>9, <2>1
  <2>2. ASSUME NEW i \in 1..K, k = L + i
        PROVE  /\ ran'[k] = <<ran'[k][1], ran'[k][2]>>
               /\ ran'[k][1] \in 1..built' /\ ran'[k][2] \in DOMAIN handled'
    <3>1. ran'[k] = <<cbs[i], N + 1>>
      BY <1>6, <2>2
    <3>2. ran'[k][1] = cbs[i] /\ ran'[k][2] = N + 1 /\ cbs[i] \in 1..built
      BY <1>8, <2>2
    <3>. QED
      BY <1>2, <3>1, <3>2
  <2>. QED
    BY <1>7, <2>1, <2>2
<1>11. ASSUME NEW k \in DOMAIN ran', NEW n \in DOMAIN ran', k < n, ran'[k][1] = ran'[n][1]
       PROVE  ran'[k][2] < ran'[n][2]
  <2>1. CASE n \in DOMAIN ran
    <3>1. k \in DOMAIN ran
      BY <1>6, <1>11, <2>1
    <3>. QED
      BY <1>6, <1>11, <2>1, <3>1 DEF RunsRight
  <2>2. ASSUME NEW j \in 1..K, n = L + j, k \in DOMAIN ran PROVE ran'[k][2] < ran'[n][2]
    <3>1. ran'[n][2] = N + 1 /\ ran'[k] = ran[k] /\ ran[k][2] \in 1..N
      BY <1>6, <1>8, <1>9, <2>2
    <3>. QED
      BY <3>1
  <2>3. ASSUME NEW j \in 1..K, n = L + j, NEW i \in 1..K, k = L + i PROVE FALSE
    <3>1. cbs[i] = cbs[j] /\ i # j
      BY <1>8, <1>11, <2>3
    <3>. QED
      BY <1>3, <3>1 DEF Lists
  <2>. QED
    BY <1>7, <2>1, <2>2, <2>3
<1>12. ASSUME NEW cb \in 1..built', NEW i \in DOMAIN handled'
       PROVE  RanFor(cb, i)' <=> Wants(regs'[cb], handled'[i])
  <2>1. \/ i \in DOMAIN handled
        \/ i = N + 1
    BY <1>2
  <2>2. CASE i \in DOMAIN handled
    <3>1. RanFor(cb, i) <=> Wants(regs[cb], handled[i])
      BY <2>2 DEF RunsRight
    <3>2. \A k \in DOMAIN ran' : ran'[k][2] = i => k \in DOMAIN ran
      <4>1. \A j \in 1..K : ran'[L + j][2] = N + 1
        BY <1>8
      <4>2. i # N + 1
        BY <1>2, <2>2
      <4>. QED
        BY <1>7, <4>1, <4>2
    <3>3. \A k \in DOMAIN ran : k \in DOMAIN ran' /\ ran'[k] = ran[k]
      BY <1>6
    <3>4. RanFor(cb, i)' <=> RanFor(cb, i)
      BY <3>2, <3>3 DEF RanFor
    <3>. QED
      BY <1>2, <2>2, <3>1, <3>4
  <2>3. CASE i = N + 1
    <3>1. \A k \in DOMAIN ran : ran'[k][2] # N + 1
      BY <1>6, <1>9
    <3>2. RanFor(cb, N + 1)' <=> \E j \in 1..K : cbs[j] = cb
      <4>1. \A j \in 1..K : L + j \in DOMAIN ran'
        BY <1>6
      <4>2. ASSUME NEW j \in 1..K, cbs[j] = cb PROVE RanFor(cb, N + 1)'
        BY <1>8, <4>1, <4>2 DEF RanFor
      <4>3. ASSUME NEW k \in DOMAIN ran', ran'[k][1] = cb, ran'[k][2] = N + 1
            PROVE  \E j \in 1..K : cbs[j] = cb
        BY <1>7, <1>8, <3>1, <4>3
      <4>. QED
        BY <4>2, <4>3 DEF RanFor
    <3>3. (\E j \in 1..K : cbs[j] = cb) <=> Wants(regs[cb], m)
      BY <1>3 DEF Lists
    <3>. QED
      BY <1>2, <2>3, <3>2, <3>3
  <2>. QED
    BY <2>1, <2>2, <2>3
<1>. QED
  BY <1>2, <1>6, <1>10, <1>11, <1>12 DEF RunsRight

-----------------------------------------------------------------------------
(* The invariant.                                                          *)

\* The server sends a change only when the channel asked for it.
Asked(m) == m.kind = "change" =>
  m.change \in Change /\ \E k \in DOMAIN channel.asks : AsksFor(channel.asks[k], m.change)

\* There has been no task yet.
Idle == /\ built = 0 /\ handled = <<>>
        /\ \A i \in DOMAIN wire : wire[i].kind # "change"

RunInv ==
  /\ Builds /\ RunsRight
  /\ \A i \in DOMAIN wire : Asked(wire[i])
  /\ \A i \in DOMAIN handled : Asked(handled[i])
  /\ ~alive /\ ~foreign => Idle

\* The wire has what it had, and no other change.
WireKeeps ==
  \A i \in DOMAIN wire' : \/ \E j \in DOMAIN wire : wire'[i] = wire[j]
                          \/ wire'[i].kind # "change"

\* No step but SendsChange sends a change.
LEMMA WireSteps ==
  ASSUME IsSeq(wire)
  PROVE  /\ wire # <<>> /\ wire' = Tail(wire) => WireKeeps
         /\ \A m : m.kind # "change" /\ Tells(m) => WireKeeps
         /\ Joins => WireKeeps
         /\ Drop => WireKeeps
         /\ UNCHANGED wire => WireKeeps
<1>1. ASSUME wire # <<>>, wire' = Tail(wire) PROVE WireKeeps
  BY <1>1, WireTail DEF WireKeeps
<1>2. UNCHANGED wire => WireKeeps
  BY DEF WireKeeps
<1>3. ASSUME NEW v, IsSeq(v), NEW m, m.kind # "change", wire' = Append(v, m),
             \A i \in DOMAIN v : (\E j \in DOMAIN wire : v[i] = wire[j]) \/ v[i].kind # "change"
      PROVE  WireKeeps
  <2>1. /\ \A i \in DOMAIN wire' : i \in DOMAIN v \/ i = Len(v) + 1
        /\ \A i \in DOMAIN v : wire'[i] = v[i]
        /\ wire'[Len(v) + 1] = m
    BY <1>3, WireAppend, SeqDomain
  <2>. QED
    BY <1>3, <2>1 DEF WireKeeps
<1>4. ASSUME NEW m, m.kind # "change", Tells(m) PROVE WireKeeps
  BY <1>2, <1>3, <1>4 DEF Tells
<1>5. ASSUME Joins PROVE WireKeeps
  <2>1. PICK q : q = [kind |-> "joined", ref |-> "own"]
    OBVIOUS
  <2>2. PICK m : m = [kind |-> "state", joins |-> Metas(Tracked), leaves |-> <<>>]
    OBVIOUS
  <2>3. wire' = wire \o <<q>> \o <<m>>
    BY <1>5, <2>1, <2>2 DEF Joins, Admits
  <2>4. wire' = Append(Append(wire, q), m) /\ IsSeq(Append(wire, q))
    BY <2>3, WireConcat, WireAppend
  <2>5. \A i \in DOMAIN Append(wire, q) :
          \/ \E j \in DOMAIN wire : Append(wire, q)[i] = wire[j]
          \/ Append(wire, q)[i].kind # "change"
    <3>1. /\ \A i \in DOMAIN Append(wire, q) : i \in DOMAIN wire \/ i = Len(wire) + 1
          /\ \A i \in DOMAIN wire : Append(wire, q)[i] = wire[i]
          /\ Append(wire, q)[Len(wire) + 1] = q
      BY WireAppend, SeqDomain
    <3>2. q.kind # "change"
      BY <2>1
    <3>. QED
      BY <3>1, <3>2
  <2>6. m.kind # "change"
    BY <2>2
  <2>. QED
    BY <1>3, <2>4, <2>5, <2>6
<1>6. ASSUME Drop PROVE WireKeeps
  <2>1. PICK n \in 0..Len(wire) : wire' = SubSeq(wire, 1, n)
    BY <1>6 DEF Drop
  <2>. QED
    BY <2>1, WirePrefix DEF WireKeeps
<1>. QED
  BY <1>1, <1>2, <1>4, <1>5, <1>6

\* What was asked for stays asked for.
LEMMA KeepsAsked ==
  ASSUME RunInv, WireKeeps, UNCHANGED channel
  PROVE  /\ \A i \in DOMAIN wire' : Asked(wire[i])'
         /\ Idle => \A i \in DOMAIN wire' : wire'[i].kind # "change"
         /\ \A m : Asked(m) => Asked(m)'
<1>1. \A m : Asked(m) => Asked(m)'
  BY DEF Asked
<1>2. ASSUME NEW i \in DOMAIN wire' PROVE Asked(wire[i])'
  <2>1. PICK m : m = wire'[i]
    OBVIOUS
  <2>2. Asked(m)'
    <3>1. CASE m.kind # "change"
      BY <3>1 DEF Asked
    <3>2. CASE \E j \in DOMAIN wire : m = wire[j]
      BY <1>1, <3>2 DEF RunInv
    <3>. QED
      BY <2>1, <3>1, <3>2 DEF WireKeeps
  <2>. QED
    BY <2>1, <2>2
<1>. QED
  BY <1>1, <1>2 DEF WireKeeps, Idle

\* Steps that leave the runs, and whether there is a task, alone.
LEMMA RestRuns ==
  ASSUME RunInv, Builds', WireKeeps, UNCHANGED <<channel, built, alive, handled, ran, foreign>>,
         \A cb \in 1..built : regs'[cb] = regs[cb]
  PROVE  RunInv'
<1>1. RunsRight'
  BY DEF RunInv, RunsRight, RanFor
<1>2. \A i \in DOMAIN handled' : Asked(handled[i])'
  BY KeepsAsked DEF RunInv
<1>3. Idle => Idle'
  BY KeepsAsked DEF Idle
<1>. QED
  BY <1>1, <1>2, <1>3, KeepsAsked DEF RunInv

\* The channel is built: nothing has been taken or run.
LEMMA BuildRuns ==
  ASSUME RunInv, Builds', Build
  PROVE  RunInv'
<1>1. Idle /\ alive' /\ UNCHANGED <<wire, handled, ran, regs>>
  BY DEF RunInv, Build, vars, builderVars
<1>2. DOMAIN ran = {}
  <2>1. \A k \in DOMAIN ran : ran[k][1] \in 1..0
    BY <1>1 DEF RunInv, RunsRight, Idle
  <2>. QED
    BY <2>1
<1>3. DOMAIN handled = {}
  BY <1>1, EmptyMap DEF Idle
<1>4. RunsRight'
  BY <1>1, <1>2, <1>3 DEF RunInv, RunsRight
<1>5. \A i \in DOMAIN wire' : Asked(wire[i])'
  BY <1>1 DEF Idle, Asked
<1>. QED
  BY <1>1, <1>3, <1>4, <1>5 DEF RunInv

\* A message is taken.
LEMMA MessageRuns ==
  ASSUME TaskInv, RunInv, Builds', HandleMessage
  PROVE  RunInv'
<1>1. /\ IsSeq(wire) /\ wire # <<>> /\ wire' = Tail(wire)
      /\ alive /\ UNCHANGED <<regs, built, channel>>
  BY DEF HandleMessage, TaskInv, PresenceInv, Shape, builderVars, buildVars
<1>2. PICK m : m = Head(wire)
  OBVIOUS
<1>3. PICK v : v = Json!VariantOf(JsonOf(m))
  OBVIOUS
<1>4. Known(m) /\ Asked(m)
  BY <1>1, <1>2, WireTail DEF TaskInv, AllKnown, RunInv
<1>5. /\ v = "Response" <=> m.kind = "joined"
      /\ v = "Broadcast" <=> m.kind = "cast"
      /\ v = "PostgresChanges" => m.kind = "change"
      /\ m.kind = "change" => v = IF m.change.keyed THEN "PostgresChanges" ELSE "Empty"
  BY <1>3, <1>4, KnownRead
<1>6. handled' = IF m.kind \in {"change", "cast"} THEN Append(handled, m) ELSE handled
  BY <1>2 DEF HandleMessage
<1>7. \/ v = "Broadcast" /\ HandleBroadcast(m)
      \/ v = "PostgresChanges" /\ HandlePostgresChanges(m)
      \/ v = "Response" /\ HandleResponse(m)
      \/ v \notin {"Broadcast", "PostgresChanges", "Response"} /\ UNCHANGED <<alive, ran, foreign>>
  <2>1. \/ v = "Broadcast" /\ HandleBroadcast(m)
        \/ v = "PostgresChanges" /\ HandlePostgresChanges(m)
        \/ v = "Response" /\ HandleResponse(m)
        \/ v = "PresenceDiff" /\ UNCHANGED <<alive, ran, foreign>>
        \/ v = "PresenceState" /\ UNCHANGED <<alive, ran, foreign>>
        \/ /\ v \notin {"Broadcast", "PostgresChanges", "Response", "PresenceDiff",
                        "PresenceState"}
           /\ UNCHANGED <<alive, ran, foreign>>
    BY <1>2, <1>3 DEF HandleMessage
  <2>. QED
    BY <2>1
<1>8. RunsRight'
  <2>1. CASE m.kind = "cast"
    <3>1. HandleBroadcast(m) /\ handled' = Append(handled, m)
      BY <1>5, <1>6, <1>7, <2>1
    <3>2. Runs(Registered(channel.cast, m.event))
      BY <3>1 DEF HandleBroadcast
    <3>3. Lists(Registered(channel.cast, m.event), {cb \in 1..built : Wants(regs[cb], m)})
      BY <2>1, CastRuns DEF RunInv
    <3>. QED
      BY <1>1, <3>1, <3>2, <3>3, OneMoreRight DEF RunInv
  <2>2. CASE m.kind = "change" /\ m.change.keyed
    <3>1. HandlePostgresChanges(m) /\ handled' = Append(handled, m) /\ m.change \in Change
      BY <1>4, <1>5, <1>6, <1>7, <2>2 DEF Asked
    <3>2. PICK cbs : cbs = LET found == ForChange(m.change) IN [i \in DOMAIN found |-> found[i].cb]
      OBVIOUS
    <3>3. Runs(cbs)
      BY <3>1, <3>2 DEF HandlePostgresChanges
    <3>4. Lists(cbs, {cb \in 1..built : Wants(regs[cb], m)})
      BY <2>2, <3>1, <3>2, ChangeRuns DEF RunInv
    <3>. QED
      BY <1>1, <3>1, <3>3, <3>4, OneMoreRight DEF RunInv
  <2>3. CASE m.kind = "change" /\ ~m.change.keyed
    <3>1. handled' = Append(handled, m) /\ ran' = ran
      BY <1>5, <1>6, <1>7, <2>3
    <3>2. Lists(<<>>, {cb \in 1..built : Wants(regs[cb], m)})
      BY <2>3, NoneRuns
    <3>3. Runs(<<>>)
      <4>1. PICK w : w = [i \in DOMAIN <<>> |-> <<<<>>[i], Len(handled')>>]
        OBVIOUS
      <4>2. DOMAIN w = 1..0 /\ IsFun(w)
        BY <4>1, EmptyMap DEF IsFun
      <4>3. IsSeq(w) /\ DOMAIN w = {}
        BY <4>2, FunIsSeq
      <4>4. w = <<>>
        BY <4>3, EmptyMap
      <4>5. ran \o <<>> = ran
        <5>1. PICK S : ran \in Seq(S)
          BY DEF RunInv, RunsRight, IsSeq
        <5>. QED
          BY <5>1, ConcatEmptySeq
      <4>. QED
        BY <3>1, <4>1, <4>4, <4>5 DEF Runs
    <3>. QED
      BY <1>1, <3>1, <3>2, <3>3, OneMoreRight DEF RunInv
  <2>4. CASE m.kind \notin {"change", "cast"}
    <3>1. handled' = handled /\ ran' = ran
      <4>1. v \notin {"Broadcast", "PostgresChanges"}
        BY <1>5, <2>4
      <4>. QED
        BY <1>6, <1>7, <2>4, <4>1 DEF HandleResponse
    <3>. QED
      BY <1>1, <3>1 DEF RunInv, RunsRight, RanFor
  <2>. QED
    BY <2>1, <2>2, <2>3, <2>4
<1>9. WireKeeps
  BY <1>1, WireSteps
<1>10. \A i \in DOMAIN handled' : Asked(handled[i])'
  <2>1. \A i \in DOMAIN handled' : (i \in DOMAIN handled /\ handled'[i] = handled[i]) \/ handled'[i] = m
    <3>1. CASE handled' = handled
      BY <3>1
    <3>2. CASE handled' = Append(handled, m)
      BY <3>2, WireAppend, SeqDomain DEF RunInv, RunsRight
    <3>. QED
      BY <1>6, <3>1, <3>2
  <2>2. ASSUME NEW i \in DOMAIN handled' PROVE Asked(handled[i])'
    <3>1. PICK n : n = handled'[i]
      OBVIOUS
    <3>2. Asked(n)
      BY <1>4, <2>1, <3>1 DEF RunInv
    <3>3. Asked(n)'
      BY <1>1, <1>9, <3>2, KeepsAsked
    <3>. QED
      BY <3>1, <3>3
  <2>. QED
    BY <2>2
<1>11. alive' \/ foreign'
  <2>1. CASE v = "Response" /\ HandleResponse(m)
    BY <1>4, <1>5, <2>1 DEF HandleResponse, Known
  <2>2. CASE v # "Response"
    BY <1>1, <1>7, <2>2 DEF HandleBroadcast, HandlePostgresChanges
  <2>. QED
    BY <1>7, <2>1, <2>2
<1>. QED
  BY <1>1, <1>8, <1>9, <1>10, <1>11, KeepsAsked DEF RunInv

\* The server sends a change that the channel asked for.
LEMMA ChangeSent ==
  ASSUME TaskInv, RunInv, Builds', NEW c \in Change, SendsChange(c)
  PROVE  RunInv'
<1>1. PICK m : m = [kind |-> "change", change |-> c]
  OBVIOUS
<1>2. /\ IsSeq(wire) /\ wire' = Append(wire, m)
      /\ UNCHANGED <<channel, built, alive, handled, ran, foreign, regs>>
  BY <1>1 DEF SendsChange, Sends, Tells, dispatchRest, builderVars, buildVars, taskVars,
              TaskInv, PresenceInv, Shape
<1>3. PICK k \in DOMAIN channel.asks : AsksFor(channel.asks[k], c)
  BY DEF SendsChange, Range
<1>4. m.kind = "change" /\ m.change = c
  BY <1>1
<1>5. Asked(m)
  BY <1>3, <1>4 DEF Asked
<1>6. \A n : Asked(n) => Asked(n)'
  BY <1>2 DEF Asked
<1>7. \A i \in DOMAIN wire' : Asked(wire[i])'
  <2>1. \A i \in DOMAIN wire' : (i \in DOMAIN wire /\ wire'[i] = wire[i]) \/ wire'[i] = m
    BY <1>2, WireAppend, SeqDomain
  <2>2. ASSUME NEW i \in DOMAIN wire' PROVE Asked(wire[i])'
    <3>1. PICK n : n = wire'[i]
      OBVIOUS
    <3>2. Asked(n)
      BY <1>5, <2>1, <3>1 DEF RunInv
    <3>. QED
      BY <1>6, <3>1, <3>2
  <2>. QED
    BY <2>2
<1>8. \A i \in DOMAIN handled' : Asked(handled[i])'
  BY <1>2, <1>6 DEF RunInv
<1>9. built # 0
  <2>1. \E cb \in 1..built : AskedBy(channel.asks[k], regs[cb])
    BY DEF RunInv, Builds, Has
  <2>. QED
    BY <2>1
<1>10. RunsRight'
  BY <1>2 DEF RunInv, RunsRight, RanFor
<1>. QED
  BY <1>2, <1>7, <1>8, <1>9, <1>10 DEF RunInv, Idle

\* At first nothing has been sent, taken or run.
LEMMA RunStarts == DispatchInit => RunInv
<1>. SUFFICES ASSUME DispatchInit PROVE RunInv
  OBVIOUS
<1>1. Builds /\ built = 0 /\ handled = <<>> /\ ran = <<>> /\ wire = <<>>
  BY BuildsStarts DEF DispatchInit, Init
<1>2. DOMAIN handled = {} /\ DOMAIN ran = {} /\ DOMAIN wire = {} /\ IsSeq(ran) /\ IsSeq(handled)
  BY <1>1, EmptyMap
<1>3. RunsRight
  BY <1>2 DEF RunsRight
<1>. QED
  BY <1>1, <1>2, <1>3 DEF RunInv, Idle

\* Every step: one case per action.
LEMMA RunStep == TaskInv /\ RunInv /\ [DispatchNext]_dispatchVars => RunInv'
<1>. SUFFICES ASSUME TaskInv, RunInv, [DispatchNext]_dispatchVars PROVE RunInv'
  OBVIOUS
<1>1. Builds' /\ IsSeq(wire)
  BY BuildsStep DEF RunInv, TaskInv, PresenceInv, Shape
<1>2. ASSUME NEW r, Registers(r), UNCHANGED <<vars, buildVars, taskVars>> PROVE RunInv'
  <2>1. WireKeeps
    BY <1>1, <1>2, WireSteps DEF vars
  <2>2. \A cb \in 1..built : regs'[cb] = regs[cb]
    <3>1. IsSeq(regs) /\ built \in 0..Len(regs) /\ Len(regs) \in Nat /\ DOMAIN regs = 1..Len(regs)
      BY SeqDomain DEF RunInv, Builds, RegsKnown
    <3>2. regs' = Append(regs, r)
      BY <1>2 DEF Registers
    <3>. QED
      BY <3>1, <3>2, WireAppend
  <2>. QED
    BY <1>1, <1>2, <2>1, <2>2, RestRuns DEF buildVars, taskVars
<1>3. CASE \/ \E l \in Listener : OnPostgresChange(l)
           \/ \E e \in Cast : OnBroadcast(e)
  BY <1>2, <1>3 DEF OnPostgresChange, OnBroadcast
<1>4. CASE Build
  BY <1>1, <1>4, BuildRuns
<1>5. CASE HandleMessage
  BY <1>1, <1>5, MessageRuns
<1>6. ASSUME NEW c \in Change, SendsChange(c) PROVE RunInv'
  BY <1>1, <1>6, ChangeSent
<1>7. ASSUME WireKeeps, UNCHANGED dispatchRest PROVE RunInv'
  BY <1>1, <1>7, RestRuns DEF dispatchRest, builderVars, buildVars, taskVars
<1>8. ASSUME NEW e \in Cast, SendsCast(e) PROVE RunInv'
  <2>1. PICK m : m = [kind |-> "cast", event |-> e]
    OBVIOUS
  <2>2. m.kind # "change" /\ Tells(m) /\ UNCHANGED dispatchRest
    BY <1>8, <2>1 DEF SendsCast, Sends
  <2>. QED
    BY <1>1, <1>7, <2>2, WireSteps
<1>9. CASE SendsOther
  <2>1. PICK m : /\ Sends(m)
                 /\ \/ \E st \in Answer : m = [kind |-> "reply", status |-> st, ref |-> "none"]
                    \/ m = [kind |-> "joined", ref |-> "other"]
    BY <1>9 DEF SendsOther
  <2>2. m.kind # "change" /\ Tells(m)
    BY <2>1 DEF Sends
  <2>. QED
    BY <1>1, <1>7, <1>9, <2>2, WireSteps DEF SendsOther
<1>10. CASE Ends
  <2>1. PICK m : m = [kind |-> "ended"]
    OBVIOUS
  <2>2. m.kind # "change" /\ wire' = Append(wire, m)
    BY <1>10, <2>1 DEF Ends, Tells
  <2>3. Tells(m)
    BY <1>10, <2>1 DEF Ends
  <2>. QED
    BY <1>1, <1>7, <1>10, <2>2, <2>3, WireSteps DEF Ends
<1>11. CASE Joins
  BY <1>1, <1>7, <1>11, WireSteps DEF Joins
<1>12. CASE Presence
  <2>1. CASE Drop
    BY <1>1, <1>7, <1>12, <2>1, WireSteps DEF Presence
  <2>2. ASSUME NEW d \in Device, Track(d) \/ Untrack(d) PROVE WireKeeps
    <3>1. PICK m : Tells(m) /\ m.kind = "diff"
      BY <2>2 DEF Track, Untrack
    <3>. QED
      BY <1>1, <3>1, WireSteps
  <2>. QED
    BY <1>7, <1>12, <2>1, <2>2 DEF Presence
<1>13. CASE UNCHANGED dispatchVars
  <2>1. UNCHANGED wire /\ UNCHANGED dispatchRest
    BY <1>13 DEF dispatchVars, dispatchRest, vars
  <2>. QED
    BY <1>1, <1>7, <2>1, WireSteps
<1>. QED
  BY <1>3, <1>4, <1>5, <1>6, <1>8, <1>9, <1>10, <1>11, <1>12, <1>13 DEF DispatchNext

-----------------------------------------------------------------------------
(* What follows.                                                           *)

\* The rest of the types: flags are flags and the server keeps to its bounds.
Bounded == /\ {alive, foreign, ended} \subseteq BOOLEAN
           /\ data \in 0..MaxData /\ others \in 0..MaxOther

\* At first all flags are down and nothing has been sent.
LEMMA BoundedStarts == DispatchInit => Bounded
<1>. SUFFICES ASSUME DispatchInit PROVE Bounded
  OBVIOUS
<1>1. alive = FALSE /\ foreign = FALSE /\ ended = FALSE /\ data = 0 /\ others = 0
  BY DEF DispatchInit
<1>2. 0 \in 0..MaxData /\ 0 \in 0..MaxOther
  BY DispatchAssumption
<1>. QED
  BY <1>1, <1>2 DEF Bounded

\* Every step keeps to them.
LEMMA BoundedStep == Bounded /\ [DispatchNext]_dispatchVars => Bounded'
<1>. SUFFICES ASSUME Bounded, [DispatchNext]_dispatchVars PROVE Bounded'
  OBVIOUS
<1>1. ASSUME UNCHANGED <<alive, foreign>>, ended' \in {ended, TRUE, FALSE},
             data' = data \/ (data < MaxData /\ data' = data + 1),
             others' = others \/ (others < MaxOther /\ others' = others + 1)
      PROVE  Bounded'
  <2>1. data' \in 0..MaxData /\ others' \in 0..MaxOther
    BY <1>1, DispatchAssumption DEF Bounded
  <2>2. {alive', foreign', ended'} \subseteq BOOLEAN
    BY <1>1 DEF Bounded
  <2>. QED
    BY <2>1, <2>2 DEF Bounded
<1>2. CASE \/ \E l \in Listener : OnPostgresChange(l)
           \/ \E e \in Cast : OnBroadcast(e)
  BY <1>1, <1>2 DEF OnPostgresChange, OnBroadcast, taskVars, boundVars
<1>3. CASE Build
  BY <1>3 DEF Build, Bounded, boundVars
<1>4. CASE HandleMessage
  <2>1. UNCHANGED <<ended, data, others>>
    BY <1>4 DEF HandleMessage, boundVars
  <2>2. \/ UNCHANGED <<alive, foreign>>
        \/ \E m : alive' = (m.ref = "own") /\ foreign' = (foreign \/ m.ref = "other")
    BY <1>4 DEF HandleMessage, HandleBroadcast, HandlePostgresChanges, HandleResponse
  <2>3. {alive', foreign'} \subseteq BOOLEAN
    BY <2>2 DEF Bounded
  <2>. QED
    BY <2>1, <2>3 DEF Bounded
<1>5. CASE \/ \E c \in Change : SendsChange(c)
           \/ \E e \in Cast : SendsCast(e)
           \/ SendsOther
  BY <1>1, <1>5 DEF SendsChange, SendsCast, SendsOther, Sends, dispatchRest, taskVars
<1>6. CASE Ends \/ Joins
  BY <1>1, <1>6 DEF Ends, Joins, dispatchRest, taskVars, boundVars
<1>7. CASE Presence
  BY <1>1, <1>7 DEF Presence, dispatchRest, taskVars, boundVars
<1>8. CASE UNCHANGED dispatchVars
  BY <1>1, <1>8 DEF dispatchVars, taskVars, boundVars
<1>. QED
  BY <1>2, <1>3, <1>4, <1>5, <1>6, <1>7, <1>8 DEF DispatchNext

\* DispatchTypeOK: among others, each entry of the channel is that of the
\* registration whose callback it has.
THEOREM DispatchTypeCorrect == DispatchSpec => []DispatchTypeOK
<1>1. TaskInv /\ RunInv /\ Bounded => DispatchTypeOK
  <2>. SUFFICES ASSUME TaskInv, RunInv, Bounded PROVE DispatchTypeOK
    OBVIOUS
  <2>1. TypeOK /\ built \in 0..Len(regs)
    BY DEF TaskInv, PresenceInv, Shape, RunInv, Builds
  <2>2. ASSUME NEW e \in DOMAIN channel.cdc, NEW x \in Range(channel.cdc[e])
        PROVE  x.cb \in 1..built /\ regs[x.cb] = [event |-> e, filter |-> x.filter]
    <3>1. HasFilters(channel, e, built) /\ Registered(channel.cdc, e) = channel.cdc[e]
      BY DEF RunInv, Builds, Has, Registered
    <3>2. PICK i \in DOMAIN channel.cdc[e] : x = channel.cdc[e][i]
      BY DEF Range
    <3>. QED
      BY <3>1, <3>2 DEF HasFilters
  <2>. QED
    BY <2>1, <2>2 DEF DispatchTypeOK, Bounded
<1>. QED
  BY <1>1, TaskStarts, TaskStep, RunStarts, RunStep, BoundedStarts, BoundedStep,
     PTL DEF DispatchSpec

\* RunOnce: each callback of a channel runs once for each message it wants, in the
\* order of the messages, and no callback registered after build runs.
THEOREM RunsOnce == DispatchSpec => []RunOnce
<1>1. RunInv => RunOnce
  BY RightIsOnce DEF RunInv
<1>. QED
  BY <1>1, TaskStarts, TaskStep, RunStarts, RunStep, PTL DEF DispatchSpec

\* No filter names the empty table. The join has the empty table both for such a filter
\* and for one without a table, so a server that takes it as every table sends rows of
\* which the callback of the first takes none.
NamedTables == \A l \in Listener : l.filter.table # ""

\* AskedIsRun: each change that the server sends because of the join configuration, and
\* that can be read, runs a callback that asked for it.
THEOREM AskedRuns == NamedTables => (DispatchSpec => []AskedIsRun)
<1>. SUFFICES ASSUME NamedTables PROVE DispatchSpec => []AskedIsRun
  OBVIOUS
<1>1. RunInv => AskedIsRun
  <2>. SUFFICES ASSUME RunInv, NEW i \in DOMAIN handled,
                       handled[i].kind = "change", handled[i].change.keyed
                PROVE  \E cb \in 1..built : /\ <<cb, i>> \in Range(ran)
                                            /\ regs[cb].filter.row \in {None, handled[i].change.row}
    BY DEF AskedIsRun
  <2>1. PICK m : m = handled[i]
    OBVIOUS
  <2>2. PICK k \in DOMAIN channel.asks : AsksFor(channel.asks[k], m.change)
    BY <2>1 DEF RunInv, Asked
  <2>3. PICK cb \in 1..built : AskedBy(channel.asks[k], regs[cb])
    BY DEF RunInv, Builds, Has
  <2>4. regs[cb] \in Listener
    <3>1. cb \in DOMAIN regs
      BY SeqDomain DEF RunInv, Builds, RegsKnown
    <3>2. \A e : "filter" \notin DOMAIN [event |-> e]
      OBVIOUS
    <3>. QED
      BY <2>3, <3>1, <3>2 DEF RunInv, Builds, RegsKnown, AskedBy
  <2>5. Wants(regs[cb], m)
    BY <2>1, <2>2, <2>3, <2>4 DEF Wants, AskedBy, AsksFor, NamedTables
  <2>6. PICK n \in DOMAIN ran : ran[n][1] = cb /\ ran[n][2] = i
    BY <2>1, <2>5 DEF RunInv, RunsRight, RanFor
  <2>7. ran[n] = <<cb, i>>
    BY <2>6 DEF RunInv, RunsRight
  <2>8. <<cb, i>> \in Range(ran)
    BY <2>7 DEF Range
  <2>9. regs[cb].filter.row \in {None, m.change.row}
    BY <2>2, <2>3 DEF AskedBy, AsksFor
  <2>. QED
    BY <2>1, <2>8, <2>9
<1>. QED
  BY <1>1, TaskStarts, TaskStep, RunStarts, RunStep, PTL DEF DispatchSpec

=============================================================================
