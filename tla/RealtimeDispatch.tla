-------------------------- MODULE RealtimeDispatch --------------------------
(***************************************************************************)
(* What becomes of the messages of a channel: the callbacks a builder      *)
(* registers, the join configuration it asks the server for, and the task  *)
(* of client_recv that reads each payload as a variant of Payload and runs *)
(* callbacks, syncs the presence, or ends.                                 *)
(*                                                                         *)
(* The presence and its server are those of RealtimePresence; to them come *)
(* the changes that the server sends because of the join configuration,    *)
(* broadcasts, replies, and the end of the channel on the server.          *)
(* A callback is named by its place among the registrations.  The state    *)
(* that the Response arm stores is RealtimeChannel's; here it only counts  *)
(* whether the task goes on.                                               *)
(***************************************************************************)
EXTENDS RealtimePresence, FiniteSets

CONSTANTS
  Listener,  \* what callbacks for changes are registered with: event and filter
  Cast,      \* broadcast events
  Change,    \* the row changes of the database: type, schema, table, row, keyed
  Answer,    \* subset of {"ok", "error"}: the status of replies
  None,      \* in place of a table or a row: no restriction
  MaxRegs,   \* bound on the registrations
  MaxData,   \* bound on the changes and broadcasts sent
  MaxOther   \* bound on the other messages sent

ASSUME DispatchAssumption ==
  /\ \A l \in Listener : /\ l = [event |-> l.event, filter |-> l.filter]
                         /\ l.event \in {"*", "INSERT", "UPDATE", "DELETE"}
                         /\ {"schema", "table", "row"} = DOMAIN l.filter
  /\ \A m \in Change : /\ m.type \in {"INSERT", "UPDATE", "DELETE"}
                       /\ m.table # None /\ m.row # None
  /\ MaxRegs \in Nat /\ MaxData \in Nat /\ MaxOther \in Nat

VARIABLES
  regs,     \* every registration on the builder, in order
  builder,  \* RealtimeChannelBuilder: postgres_changes and the two callback maps
  channel,  \* their copies in the channel and its join payload
  built,    \* how many registrations were made before build
  alive,    \* the task of client_recv has not returned
  handled,  \* the changes and broadcasts it has taken, in order
  ran,      \* the callback runs, as pairs <<callback, position in handled>>
  foreign,  \* the reply to the join of another channel was handled
  ended,    \* the server has let the channel go since it was joined
  data,     \* changes and broadcasts sent
  others    \* other messages sent

builderVars == <<regs, builder>>
buildVars   == <<channel, built>>
taskVars    == <<alive, handled, ran, foreign>>
boundVars   == <<data, others>>   \* what bounds the server
dispatchVars == <<vars, builderVars, buildVars, taskVars, ended, boundVars>>

Json == INSTANCE Payload

Unbuilt == [asks |-> <<>>, cdc |-> <<>>, cast |-> <<>>]

DispatchInit ==
  /\ Init
  /\ regs = <<>> /\ builder = Unbuilt
  /\ channel = Unbuilt /\ built = 0
  /\ alive = FALSE /\ handled = <<>> /\ ran = <<>> /\ foreign = FALSE
  /\ ended = FALSE /\ data = 0 /\ others = 0

-----------------------------------------------------------------------------
(* The builder.                                                            *)

\* A vector is put under a key the first time.
Under_Afresh(map, key, cb) ==   \* mutant: and every other time
  [k \in DOMAIN map \cup {key} |-> IF k = key THEN <<cb>> ELSE map[k]]
Under(map, key, cb) ==
  [k \in DOMAIN map \cup {key} |->
     IF k # key THEN map[k] ELSE IF k \in DOMAIN map THEN Append(map[k], cb) ELSE <<cb>>]

Registers(r) == Len(regs) < MaxRegs /\ regs' = Append(regs, r)

\* The join names the empty table when the filter has none; the filter keeps None.
OnPostgresChange(l) ==
  /\ Registers(l)
  /\ builder' = [builder EXCEPT
       !.asks = Append(@, [event |-> l.event, schema |-> l.filter.schema, row |-> l.filter.row,
                           table |-> IF l.filter.table = None THEN "" ELSE l.filter.table]),
       !.cdc = Under(@, l.event, [filter |-> l.filter, cb |-> Len(regs')])]
  /\ UNCHANGED <<vars, buildVars, taskVars, ended, boundVars>>

OnBroadcast(e) ==
  /\ Registers([event |-> e])
  /\ builder' = [builder EXCEPT !.cast = Under(@, e, Len(regs'))]
  /\ UNCHANGED <<vars, buildVars, taskVars, ended, boundVars>>

\* build_common clones; what is registered later is for the next channel built.
Build ==
  /\ ~alive /\ ~foreign
  /\ channel' = builder /\ built' = Len(regs)
  /\ alive' = TRUE
  /\ UNCHANGED <<vars, builderVars, handled, ran, foreign, ended, boundVars>>

-----------------------------------------------------------------------------
(* The task of client_recv.                                                *)

\* The JSON of a message.
JsonOf(m) ==
  CASE m.kind = "state"  -> [k \in DOMAIN m.joins |-> "metas"]
    [] m.kind = "diff"   -> [joins |-> "presence", leaves |-> "presence"]
    [] m.kind = "change" -> [data |-> IF m.change.keyed THEN "data" ELSE "keyless",
                             ids |-> "ids"]
    [] m.kind = "cast"   -> [event |-> "text", payload |-> "map", type |-> "text"]
    [] m.kind = "joined" -> [response |-> "changes", status |-> "ok"]
    [] m.kind = "reply"  -> [response |-> "map", status |-> m.status]
    [] m.kind = "ended"  -> <<>>

\* PostgresChangeFilter::check. Row filters are left to the server.
Check(f, c) == f.table \in {None, c.table} /\ f.schema = c.schema

Registered(map, e) == IF e \in DOMAIN map THEN map[e] ELSE <<>>

\* The entries of es whose filter lets change c through, in their order.
Passing(es, c) ==
  LET I == {i \in DOMAIN es : Check(es[i].filter, c)}
      Nth(n) == CHOOSE i \in I : Cardinality({j \in I : j <= i}) = n
  IN [n \in 1..Cardinality(I) |-> es[Nth(n)]]

\* The callbacks of a change: those for its type, then those for all.
ForChange_NoAll(c) ==   \* mutant: only those for its type
  Passing(Registered(channel.cdc, c.type), c)
ForChange(c) ==
  Passing(Registered(channel.cdc, c.type) \o Registered(channel.cdc, "*"), c)

Runs(cbs) == ran' = ran \o [i \in DOMAIN cbs |-> <<cbs[i], Len(handled')>>]

HandleBroadcast(m) ==
  /\ Runs(Registered(channel.cast, m.event))
  /\ UNCHANGED <<clientVars, alive, foreign>>

HandlePostgresChanges(m) ==
  /\ LET found == ForChange(m.change) IN Runs([i \in DOMAIN found |-> found[i].cb])
  /\ UNCHANGED <<clientVars, alive, foreign>>

\* A reply to the join of another channel ends the task.
HandleResponse(m) ==
  /\ alive' = (m.ref = "own")
  /\ foreign' = (foreign \/ m.ref = "other")
  /\ UNCHANGED <<clientVars, ran>>

\* The map that is read from a message; there is nothing in that of an ended channel.
MapOf(m) == IF m.kind = "state" THEN m.joins ELSE <<>>

HandleMessage ==
  /\ alive /\ wire # <<>> /\ wire' = Tail(wire)
  /\ LET m == Head(wire)
         v == Json!VariantOf(JsonOf(m)) IN
       /\ handled' = IF m.kind \in {"change", "cast"} THEN Append(handled, m) ELSE handled
       /\ \/ v = "Broadcast" /\ HandleBroadcast(m)
          \/ v = "PostgresChanges" /\ HandlePostgresChanges(m)
          \/ v = "Response" /\ HandleResponse(m)
          \/ v = "PresenceDiff" /\ SyncsDiff(m) /\ UNCHANGED <<alive, ran, foreign>>
          \/ v = "PresenceState" /\ Sync(MapOf(m)) /\ UNCHANGED <<alive, ran, foreign>>
          \/ /\ v \notin {"Broadcast", "PostgresChanges", "Response", "PresenceDiff",
                          "PresenceState"}
             /\ UNCHANGED <<clientVars, alive, ran, foreign>>
  /\ UNCHANGED <<serverVars, builderVars, buildVars, ended, boundVars>>

-----------------------------------------------------------------------------
(* The server.                                                             *)

\* It sends a change when an entry of the join configuration asks for it. The empty
\* table is taken as every table, which is what a builder without a table is after.
AsksFor(a, c) == /\ a.event \in {"*", c.type} /\ a.schema = c.schema
                 /\ a.table \in {"", c.table} /\ a.row \in {None, c.row}

dispatchRest == <<builderVars, buildVars, taskVars>>

Sends(m) == joined /\ Tells(m) /\ UNCHANGED <<clientVars, serverVars, ended>>

SendsChange(c) ==
  /\ data < MaxData /\ data' = data + 1
  /\ \E a \in Range(channel.asks) : AsksFor(a, c)
  /\ Sends([kind |-> "change", change |-> c])
  /\ UNCHANGED <<dispatchRest, others>>

SendsCast(e) ==
  /\ data < MaxData /\ data' = data + 1
  /\ Sends([kind |-> "cast", event |-> e])
  /\ UNCHANGED <<dispatchRest, others>>

\* Answers to a leave or a broadcast ("ok"), a refused join ("error"), and the
\* confirmed join of another channel of the topic.
SendsOther ==
  /\ others < MaxOther /\ others' = others + 1
  /\ \/ \E st \in Answer : Sends([kind |-> "reply", status |-> st, ref |-> "none"])
     \/ Sends([kind |-> "joined", ref |-> "other"])
  /\ UNCHANGED <<dispatchRest, data>>

\* phx_close or phx_error: the server has let the channel go.
Ends ==
  /\ others < MaxOther /\ others' = others + 1
  /\ joined /\ joined' = FALSE /\ ended' = TRUE
  /\ Tells([kind |-> "ended"])
  /\ UNCHANGED <<clientVars, online, nextRef, drops, dispatchRest, data>>

\* The client joins, be its task alive or not; the server confirms, then tells the
\* presence.
Joins == /\ alive \/ foreign
         /\ Admits(<<[kind |-> "joined", ref |-> "own"]>>)
         /\ ended' = FALSE
         /\ UNCHANGED <<dispatchRest, boundVars>>

Presence == (Drop \/ \E d \in Device : Track(d) \/ Untrack(d))
              /\ UNCHANGED <<dispatchRest, ended, boundVars>>

DispatchNext ==
  \/ \E l \in Listener : OnPostgresChange(l)
  \/ \E e \in Cast : OnBroadcast(e) \/ SendsCast(e)
  \/ \E c \in Change : SendsChange(c)
  \/ Build \/ HandleMessage \/ SendsOther \/ Ends \/ Joins \/ Presence

DispatchSpec == DispatchInit /\ [][DispatchNext]_dispatchVars

-----------------------------------------------------------------------------
(* What the callbacks can rely on.                                         *)

\* Registration r wants message m: it is a change or a broadcast for it.
Wants(r, m) ==
  \/ m.kind = "cast" /\ r = [event |-> m.event]
  \/ /\ m.kind = "change" /\ "filter" \in DOMAIN r /\ m.change.keyed
     /\ r.event \in {"*", m.change.type} /\ r.filter.schema = m.change.schema
     /\ r.filter.table \in {None, m.change.table}

\* Each callback registered before build runs once for each message it wants, in
\* the order of the messages, whatever was registered with it, for the same event
\* or for another, and what came in between; those registered later never run. A
\* change whose old record has no numeric id is lost to all of them, and a callback
\* with a row filter gets the rows that another registration asked for as well.
RunOnce ==
  /\ \A k, n \in DOMAIN ran : k < n /\ ran[k][1] = ran[n][1] => ran[k][2] < ran[n][2]
  /\ \A cb \in DOMAIN regs :
       {x[2] : x \in {y \in Range(ran) : y[1] = cb}} =
         {i \in DOMAIN handled : cb <= built /\ Wants(regs[cb], handled[i])}

\* What the join configuration asks for and what the callbacks are there for is
\* the same: each change that the server sends, and that can be read, runs a callback
\* that asked for its table, its type and its row, across all rows and builds.
AskedIsRun ==
  \A i \in DOMAIN handled :
    handled[i].kind = "change" /\ handled[i].change.keyed =>
      \E cb \in 1..built : /\ <<cb, i>> \in Range(ran)
                           /\ regs[cb].filter.row \in {None, handled[i].change.row}

\* Nothing but the confirmed join of another channel ends the task: no reply to a
\* leave or a broadcast, refused join, or end of the channel is taken for one.
TaskGoesOn == built > 0 /\ ~foreign => alive

\* A channel that has handled every message lists the presence of the server; once
\* the server has let it go it lists nobody, because the empty payload of phx_close
\* and phx_error is read as a presence.
PresenceMirrors ==
  wire = <<>> => /\ joined => state = Listed(Tracked)
                 /\ ended => state = <<>>

DispatchTypeOK ==
  /\ TypeOK
  /\ built \in 0..Len(regs) /\ {alive, foreign, ended} \subseteq BOOLEAN
  /\ \A e \in DOMAIN channel.cdc : \A x \in Range(channel.cdc[e]) :
       x.cb \in 1..built /\ regs[x.cb] = [event |-> e, filter |-> x.filter]
  /\ data \in 0..MaxData /\ others \in 0..MaxOther

=============================================================================
