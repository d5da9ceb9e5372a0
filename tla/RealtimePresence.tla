-------------------------- MODULE RealtimePresence --------------------------
(***************************************************************************)
(* The presence state of a channel (src/src/realtime_presence.rs): what    *)
(* sync makes of a presence_state message, what sync_diff makes of a       *)
(* presence_diff, and which Join and Leave callbacks they run.             *)
(*                                                                         *)
(* A phx_ref stands for the state data stored under it.  On the wire an id *)
(* has a list of metas, a sequence of refs; in the state it has a PhxMap,  *)
(* the set of its refs.  Sync callbacks only read the state and are left   *)
(* out.                                                                    *)
(*                                                                         *)
(* The server and the wire are external: the server gives every update a   *)
(* new ref, tells a channel the whole presence when it joins and sends     *)
(* each change after that, in order, over the connection of the join.      *)
(***************************************************************************)
EXTENDS Integers, SequencesExt

CONSTANTS
  Key,      \* presence ids
  Device,   \* channels, of any client, that track presence on the topic
  KeyOf,    \* the id each of them tracks under
  MaxRef,   \* bound on the refs the server hands out
  MaxDrops, \* bound on the connections lost
  MaxWire   \* bound on the messages under way when the server sends another

ASSUME PresenceAssumption ==
  /\ KeyOf \in [Device -> Key]
  /\ MaxRef \in Nat /\ MaxDrops \in Nat /\ MaxWire \in Nat

VARIABLES
  state,     \* RealtimePresence.state
  heard,     \* refs that Join callbacks have been given
  gone,      \* refs that Leave callbacks have been given
  wire,      \* messages on their way to the task of client_recv
  online,    \* online[d]: the ref of device d, 0 when it is not tracked
  joined,    \* the server has the channel in the topic
  nextRef,   \* refs handed out
  drops      \* connections lost

clientVars == <<state, heard, gone>>
serverVars == <<online, joined, nextRef, drops>>
vars == <<clientVars, wire, serverVars>>

-----------------------------------------------------------------------------
Refs == 1..MaxRef

\* An id is in the state only with something tracked under it.
IsPresence(s) == DOMAIN s \subseteq Key /\ \A k \in DOMAIN s : s[k] \in (SUBSET Refs) \ {{}}
IsRaw(r)      == DOMAIN r \subseteq Key /\ \A k \in DOMAIN r : r[k] \in Seq(Refs) \ {<<>>}
AllRefs(s)    == UNION {s[k] : k \in DOMAIN s}

TypeOK ==
  /\ IsPresence(state)
  /\ heard \subseteq Refs /\ gone \subseteq Refs
  /\ \A m \in Range(wire) : m.kind \in {"state", "diff"} => IsRaw(m.joins) /\ IsRaw(m.leaves)
  /\ online \in [Device -> 0..MaxRef]
  /\ joined \in BOOLEAN /\ nextRef \in 0..MaxRef /\ drops \in 0..MaxDrops

\* The presence of the devices D as the server lists it.
Listed(D) == [k \in {KeyOf[d] : d \in D} |-> {online[d] : d \in {e \in D : KeyOf[e] = k}}]
Tracked   == {d \in Device : online[d] # 0}
Metas(D)  == LET l == Listed(D) IN [k \in DOMAIN l |-> SetToSeq(l[k])]

Init ==
  /\ state = <<>> /\ heard = {} /\ gone = {}
  /\ wire = <<>>
  /\ online = [d \in Device |-> 0]
  /\ joined = FALSE /\ nextRef = 0 /\ drops = 0

-----------------------------------------------------------------------------
(* The code.                                                               *)

\* From<RawPresenceState>: the metas of an id become a map by phx_ref.
FromRaw(raw) == [k \in DOMAIN raw |-> Range(raw[k])]

\* What is in f, and what is in g under other ids.
Over(f, g) == [k \in DOMAIN f \cup DOMAIN g |-> IF k \in DOMAIN f THEN f[k] ELSE g[k]]

\* sync_diff: an id that leaves is taken out with every ref under it; an id that
\* joins gets the map of the diff and no other.
SyncDiff_KeepsIds(s, d) ==   \* mutant: takes the refs out and leaves the id
  Over(d.joins, [k \in DOMAIN s |-> IF k \in DOMAIN d.leaves THEN s[k] \ d.leaves[k] ELSE s[k]])
SyncDiff_ExtendsFirst(s, d) ==   \* mutant: the two halves swapped
  LET all == Over(d.joins, s) IN [k \in DOMAIN all \ DOMAIN d.leaves |-> all[k]]
SyncDiff(s, d) ==
  Over(d.joins, [k \in DOMAIN s \ DOMAIN d.leaves |-> s[k]])

\* sync builds the diff it hands to sync_diff. Its two filters are closures of a
\* map that nobody drives, so they never run: every ref of the new state joins,
\* and every id of the old one leaves, with no ref.
DiffOf_NewIds(s, new) ==   \* mutant: ids that are known already are filtered out
  [joins  |-> [k \in DOMAIN new \ DOMAIN s |-> new[k]],
   leaves |-> [k \in DOMAIN s \ DOMAIN new |-> {}]]
DiffOf(s, new) == [joins |-> new, leaves |-> [k \in DOMAIN s |-> {}]]

Apply(d) ==
  /\ state' = SyncDiff(state, d)
  /\ heard' = heard \cup AllRefs(d.joins)
  /\ gone' = gone \cup AllRefs(d.leaves)

Takes(kind) == wire # <<>> /\ Head(wire).kind = kind /\ wire' = Tail(wire)

Sync(raw)      == Apply(DiffOf(state, FromRaw(raw)))
SyncsDiff(raw) == Apply([joins |-> FromRaw(raw.joins), leaves |-> FromRaw(raw.leaves)])

HandlePresenceState ==
  /\ Takes("state")
  /\ Sync(Head(wire).joins)
  /\ UNCHANGED serverVars

HandlePresenceDiff ==
  /\ Takes("diff")
  /\ SyncsDiff(Head(wire))
  /\ UNCHANGED serverVars

-----------------------------------------------------------------------------
(* The server and the connection.                                          *)

Tells(m) == IF joined THEN Len(wire) < MaxWire /\ wire' = Append(wire, m)
                      ELSE UNCHANGED wire

\* Device d tracks, afresh or in place of what it tracked before.
Track(d) ==
  /\ nextRef < MaxRef
  /\ nextRef' = nextRef + 1
  /\ online' = [online EXCEPT ![d] = nextRef']
  /\ Tells([kind |-> "diff", joins |-> [k \in {KeyOf[d]} |-> <<nextRef'>>],
            leaves |-> Metas({d} \cap Tracked)])
  /\ UNCHANGED <<clientVars, joined, drops>>

Untrack(d) ==
  /\ d \in Tracked
  /\ online' = [online EXCEPT ![d] = 0]
  /\ Tells([kind |-> "diff", joins |-> <<>>, leaves |-> Metas({d})])
  /\ UNCHANGED <<clientVars, joined, nextRef, drops>>

\* phx_join, at first and after every reconnection; first is what the server says
\* before it tells the presence.
Admits(first) ==
  /\ ~joined /\ Len(wire) < MaxWire
  /\ joined' = TRUE
  /\ wire' = wire \o first \o
                <<[kind |-> "state", joins |-> Metas(Tracked), leaves |-> <<>>]>>
  /\ UNCHANGED <<clientVars, online, nextRef, drops>>
Join == Admits(<<>>)

\* The connection is lost with whatever the client had not read from it.
Drop ==
  /\ joined /\ drops < MaxDrops
  /\ joined' = FALSE /\ drops' = drops + 1
  /\ \E n \in 0..Len(wire) : wire' = SubSeq(wire, 1, n)
  /\ UNCHANGED <<clientVars, online, nextRef>>

Next ==
  \/ HandlePresenceState \/ HandlePresenceDiff
  \/ \E d \in Device : Track(d) \/ Untrack(d)
  \/ Join \/ Drop

Spec == Init /\ [][Next]_vars

-----------------------------------------------------------------------------
(* What presence promises.                                                 *)

\* A joined channel that has handled every message lists exactly what the server
\* lists, whatever was tracked, updated and untracked while it was connected and
\* while it was not. The comment at src/src/realtime_presence.rs:82 says of
\* sync_diff "mutate own state with diff"; it does so only as long as no two
\* devices share an id.
Mirrors == joined /\ wire = <<>> => state = Listed(Tracked)

\* No Leave callback names what no Join callback has named before it, across
\* updates and reconnections.
LeavesWereJoined == gone \subseteq heard

=============================================================================
