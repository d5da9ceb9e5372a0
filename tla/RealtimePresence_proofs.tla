----------------------- MODULE RealtimePresence_proofs -----------------------
(***************************************************************************)
(* Proofs about RealtimePresence, for every set of devices and ids and     *)
(* every bound, and the lemmas about the handling of presence messages     *)
(* that the proofs about RealtimeDispatch share.                           *)
(***************************************************************************)
EXTENDS RealtimePresence, SequenceTheorems, FiniteSetTheorems, TLAPS

-----------------------------------------------------------------------------
(* Lemmas about sequences and functions.                                   *)

IsSeq(w) == \E S : w \in Seq(S)
IsFun(f) == f = [x \in DOMAIN f |-> f[x]]

\* The indices of a sequence.
LEMMA SeqDomain ==
  ASSUME NEW w, IsSeq(w)
  PROVE  Len(w) \in Nat /\ DOMAIN w = 1..Len(w)
BY LenProperties DEF IsSeq

\* The empty sequence, of messages or as a map.
LEMMA EmptyMap ==
  /\ IsSeq(<<>>) /\ IsFun(<<>>) /\ DOMAIN <<>> = {} /\ Len(<<>>) = 0
  /\ \A w : IsSeq(w) /\ DOMAIN w = {} => w = <<>>
<1>1. <<>> \in Seq({}) /\ Len(<<>>) = 0
  BY EmptySeq
<1>2. IsSeq(<<>>) /\ DOMAIN <<>> = {}
  BY <1>1, LenProperties DEF IsSeq
<1>3. IsFun(<<>>)
  BY DEF IsFun
<1>4. ASSUME NEW w, IsSeq(w), DOMAIN w = {} PROVE w = <<>>
  <2>1. PICK S : w \in Seq(S)
    BY <1>4 DEF IsSeq
  <2>2. Len(w) \in Nat /\ 1..Len(w) = {}
    BY <1>4, SeqDomain
  <2>3. w # <<>> => Len(w) \in Nat \ {0}
    BY <2>1, EmptySeq
  <2>. QED
    BY <2>2, <2>3
<1>. QED
  BY <1>1, <1>2, <1>3, <1>4

\* An append leaves what was there where it is.
LEMMA WireAppend ==
  ASSUME NEW w, IsSeq(w), NEW m
  PROVE  /\ IsSeq(Append(w, m)) /\ Len(Append(w, m)) = Len(w) + 1
         /\ DOMAIN Append(w, m) = 1..(Len(w) + 1)
         /\ \A i \in DOMAIN w : Append(w, m)[i] = w[i]
         /\ Append(w, m)[Len(w) + 1] = m
<1>1. PICK S : w \in Seq(S)
  BY DEF IsSeq
<1>2. w \in Seq(S \cup {m})
  BY <1>1, SeqMonotonic
<1>3. /\ Append(w, m) \in Seq(S \cup {m}) /\ Len(Append(w, m)) = Len(w) + 1
      /\ \A i \in 1..Len(w) : Append(w, m)[i] = w[i]
      /\ Append(w, m)[Len(w) + 1] = m
  BY <1>2, AppendProperties
<1>4. IsSeq(Append(w, m))
  BY <1>3 DEF IsSeq
<1>. QED
  BY <1>3, <1>4, SeqDomain

\* The tail holds everything but the head, one place earlier.
LEMMA WireTail ==
  ASSUME NEW w, IsSeq(w), w # <<>>
  PROVE  /\ IsSeq(Tail(w)) /\ 1 \in DOMAIN w /\ Head(w) = w[1]
         /\ \A i \in DOMAIN Tail(w) : i + 1 \in DOMAIN w /\ Tail(w)[i] = w[i + 1]
         /\ \A i \in DOMAIN w : i # 1 => i - 1 \in DOMAIN Tail(w) /\ Tail(w)[i - 1] = w[i]
         /\ DOMAIN w \subseteq Nat \ {0} /\ DOMAIN Tail(w) \subseteq Nat \ {0}
<1>1. PICK S : w \in Seq(S)
  BY DEF IsSeq
<1>2. /\ Tail(w) \in Seq(S) /\ Len(Tail(w)) = Len(w) - 1 /\ Len(w) \in Nat \ {0}
      /\ \A i \in 1..Len(Tail(w)) : Tail(w)[i] = w[i + 1]
      /\ Head(w) = w[1]
  BY <1>1, HeadTailProperties, EmptySeq
<1>3. IsSeq(Tail(w))
  BY <1>2 DEF IsSeq
<1>4. DOMAIN w = 1..Len(w) /\ DOMAIN Tail(w) = 1..(Len(w) - 1)
  BY <1>2, <1>3, SeqDomain
<1>. QED
  BY <1>2, <1>3, <1>4

\* What is left of a connection that is lost: the first n messages.
LEMMA WirePrefix ==
  ASSUME NEW w, IsSeq(w), NEW n \in 0..Len(w)
  PROVE  /\ IsSeq(SubSeq(w, 1, n)) /\ DOMAIN SubSeq(w, 1, n) = 1..n
         /\ Len(SubSeq(w, 1, n)) = n
         /\ \A i \in 1..n : SubSeq(w, 1, n)[i] = w[i] /\ i \in DOMAIN w
<1>1. PICK S : w \in Seq(S)
  BY DEF IsSeq
<1>2. Len(w) \in Nat /\ DOMAIN w = 1..Len(w)
  BY SeqDomain
<1>3. \A i \in 1..n : w[i] \in S
  BY <1>1, <1>2, ElementOfSeq
<1>4. /\ SubSeq(w, 1, n) \in Seq(S) /\ Len(SubSeq(w, 1, n)) = n
      /\ \A i \in 1..n : SubSeq(w, 1, n)[i] = w[i]
  BY <1>2, <1>3, SubSeqProperties
<1>5. IsSeq(SubSeq(w, 1, n))
  BY <1>4 DEF IsSeq
<1>. QED
  BY <1>2, <1>4, <1>5, SeqDomain

\* Two messages in a row, or one, behind what was there.
LEMMA WireConcat ==
  ASSUME NEW w, IsSeq(w), NEW m
  PROVE  /\ w \o <<>> \o <<m>> = Append(w, m)
         /\ \A n : w \o <<n>> \o <<m>> = Append(Append(w, n), m)
<1>1. \A v : IsSeq(v) => v \o <<>> = v
  BY ConcatEmptySeq DEF IsSeq
<1>2. ASSUME NEW v, IsSeq(v), NEW n PROVE v \o <<n>> = Append(v, n)
  <2>1. PICK S : v \in Seq(S)
    BY <1>2 DEF IsSeq
  <2>2. v \in Seq(S \cup {n})
    BY <2>1, SeqMonotonic
  <2>. QED
    BY <2>2, AppendIsConcat
<1>. QED
  BY <1>1, <1>2, WireAppend

\* SetToSeq lists each member of a finite set and nothing else.
LEMMA ToSeqLists ==
  ASSUME NEW S, IsFiniteSet(S)
  PROVE  SetToSeq(S) \in Seq(S) /\ Range(SetToSeq(S)) = S
<1>. DEFINE n == Cardinality(S)
            Good(f) == f \in [1..n -> S] /\ IsInjective(f)
<1>1. n \in Nat /\ ExistsBijection(1..n, S)
  BY FS_CardinalityType
<1>2. \E f : Good(f)
  BY <1>1 DEF ExistsBijection, Bijection, Injection
<1>3. Good(SetToSeq(S))
  BY <1>2 DEF SetToSeq
<1>4. SetToSeq(S) \in Injection(1..n, S)
  BY <1>3 DEF Injection
<1>5. IsFiniteSet(1..n) /\ Cardinality(1..n) = n
  BY <1>1, FS_Interval
<1>6. SetToSeq(S) \in Surjection(1..n, S)
  BY <1>4, <1>5, FS_Injection
<1>7. Range(SetToSeq(S)) = S
  BY <1>3, <1>6 DEF Surjection, Range
<1>. QED
  BY <1>1, <1>3, <1>7, SeqDef

-----------------------------------------------------------------------------
(* What handling a message does.                                           *)

\* What the presence s, or what the server lists, has under id k.
At(s, k)   == IF k \in DOMAIN s THEN s[k] ELSE {}
Present(k) == {online[d] : d \in {e \in Tracked : KeyOf[e] = k}}

\* A message settles what id k has, and to what.  A message that ends the channel,
\* of RealtimeDispatch, settles every id as a presence without ids does.
Settles(m, k) ==
  \/ m.kind \in {"state", "ended"}
  \/ m.kind = "diff" /\ k \in DOMAIN m.joins \cup DOMAIN m.leaves
Gives(m, k) == IF m.kind \in {"state", "diff"} THEN At(FromRaw(m.joins), k) ELSE {}

\* The refs a message brings and takes away.
Brings(m) == IF m.kind \in {"state", "diff"} THEN AllRefs(FromRaw(m.joins)) ELSE {}
TakesAway(m) == IF m.kind = "diff" THEN AllRefs(FromRaw(m.leaves)) ELSE {}

\* The head of the wire is handled.
Handled ==
  /\ wire # <<>> /\ wire' = Tail(wire)
  /\ IsFun(state') /\ IsPresence(state')
  /\ \A k : At(state', k) = IF Settles(Head(wire), k) THEN Gives(Head(wire), k) ELSE At(state, k)
  /\ heard' = heard \cup Brings(Head(wire))
  /\ gone' = gone \cup TakesAway(Head(wire))
  /\ UNCHANGED serverVars

\* The presence is a map, and the wire a sequence of well-formed messages.
Shape == IsSeq(wire) /\ IsFun(state) /\ TypeOK

\* A map of lists becomes a presence.
LEMMA RawIsPresence ==
  ASSUME NEW r, IsRaw(r)
  PROVE  /\ IsPresence(FromRaw(r)) /\ IsFun(FromRaw(r)) /\ DOMAIN FromRaw(r) = DOMAIN r
         /\ AllRefs(FromRaw(r)) \subseteq Refs
<1>1. DOMAIN FromRaw(r) = DOMAIN r /\ IsFun(FromRaw(r))
  BY DEF FromRaw, IsFun
<1>2. ASSUME NEW k \in DOMAIN r PROVE FromRaw(r)[k] \in (SUBSET Refs) \ {{}}
  <2>1. FromRaw(r)[k] = Range(r[k]) /\ r[k] \in Seq(Refs) /\ r[k] # <<>>
    BY DEF FromRaw, IsRaw
  <2>2. Len(r[k]) \in Nat \ {0} /\ DOMAIN r[k] = 1..Len(r[k])
    BY <2>1, EmptySeq, LenProperties
  <2>3. \A i \in DOMAIN r[k] : r[k][i] \in Refs
    BY <2>1, <2>2, ElementOfSeq
  <2>4. 1 \in DOMAIN r[k]
    BY <2>2
  <2>. QED
    BY <2>1, <2>3, <2>4 DEF Range
<1>3. IsPresence(FromRaw(r))
  BY <1>1, <1>2 DEF IsPresence, IsRaw
<1>. QED
  BY <1>1, <1>3 DEF IsPresence, AllRefs

\* sync_diff leaves a presence, and under every id what the diff gives it.
LEMMA SyncDiffGives ==
  ASSUME NEW s, NEW d, IsPresence(s), IsPresence(d.joins)
  PROVE  /\ IsFun(SyncDiff(s, d)) /\ IsPresence(SyncDiff(s, d))
         /\ \A k : At(SyncDiff(s, d), k) = IF k \in DOMAIN d.joins \cup DOMAIN d.leaves
                                           THEN At(d.joins, k) ELSE At(s, k)
<1>. DEFINE t == SyncDiff(s, d)
<1>1. /\ DOMAIN t = DOMAIN d.joins \cup (DOMAIN s \ DOMAIN d.leaves)
      /\ \A k \in DOMAIN t : t[k] = IF k \in DOMAIN d.joins THEN d.joins[k] ELSE s[k]
  BY DEF SyncDiff, Over
<1>2. IsFun(t)
  BY DEF SyncDiff, Over, IsFun
<1>. HIDE DEF t
<1>3. IsPresence(t)
  BY <1>1 DEF IsPresence
<1>4. \A k : At(t, k) = IF k \in DOMAIN d.joins \cup DOMAIN d.leaves
                        THEN At(d.joins, k) ELSE At(s, k)
  BY <1>1 DEF At
<1>. QED
  BY <1>2, <1>3, <1>4 DEF t

\* sync leaves the presence it is given.
LEMMA SyncGives ==
  ASSUME NEW raw, IsPresence(state), IsRaw(raw), Sync(raw)
  PROVE  /\ IsFun(state') /\ IsPresence(state')
         /\ \A k : At(state', k) = At(FromRaw(raw), k)
         /\ heard' = heard \cup AllRefs(FromRaw(raw)) /\ gone' = gone
<1>. DEFINE d == DiffOf(state, FromRaw(raw))
<1>1. /\ d.joins = FromRaw(raw) /\ DOMAIN d.leaves = DOMAIN state
      /\ \A k \in DOMAIN state : d.leaves[k] = {}
  BY DEF DiffOf
<1>2. AllRefs(d.leaves) = {}
  BY <1>1 DEF AllRefs
<1>3. /\ state' = SyncDiff(state, d) /\ heard' = heard \cup AllRefs(d.joins)
      /\ gone' = gone \cup AllRefs(d.leaves)
  BY DEF Sync, Apply
<1>. HIDE DEF d
<1>4. IsPresence(d.joins)
  BY <1>1, RawIsPresence
<1>5. /\ IsFun(state') /\ IsPresence(state')
      /\ \A k : At(state', k) = IF k \in DOMAIN d.joins \cup DOMAIN d.leaves
                                THEN At(d.joins, k) ELSE At(state, k)
  BY <1>3, <1>4, SyncDiffGives
<1>6. \A k : At(state', k) = At(FromRaw(raw), k)
  BY <1>1, <1>5 DEF At
<1>. QED
  BY <1>1, <1>2, <1>3, <1>5, <1>6

\* A presence_state message is handled, its head the presence to list.
LEMMA StateHandled ==
  ASSUME Shape, wire # <<>>, Head(wire).kind = "state", wire' = Tail(wire),
         Sync(Head(wire).joins), UNCHANGED serverVars
  PROVE  Handled
<1>1. Head(wire) \in Range(wire)
  BY WireTail DEF Shape, Range
<1>2. IsPresence(state) /\ IsRaw(Head(wire).joins)
  BY <1>1 DEF Shape, TypeOK
<1>. QED
  BY <1>2, SyncGives DEF Handled, Settles, Gives, Brings, TakesAway

\* A presence_diff message is handled.
LEMMA DiffHandled ==
  ASSUME Shape, wire # <<>>, Head(wire).kind = "diff", wire' = Tail(wire),
         SyncsDiff(Head(wire)), UNCHANGED serverVars
  PROVE  Handled
<1>1. Head(wire) \in Range(wire)
  BY WireTail DEF Shape, Range
<1>. DEFINE d == [joins |-> FromRaw(Head(wire).joins), leaves |-> FromRaw(Head(wire).leaves)]
<1>2. IsPresence(state) /\ IsRaw(Head(wire).joins) /\ IsRaw(Head(wire).leaves)
  BY <1>1 DEF Shape, TypeOK
<1>3. /\ IsPresence(d.joins) /\ DOMAIN d.joins = DOMAIN Head(wire).joins
      /\ DOMAIN d.leaves = DOMAIN Head(wire).leaves
  BY <1>2, RawIsPresence
<1>4. /\ state' = SyncDiff(state, d) /\ heard' = heard \cup AllRefs(d.joins)
      /\ gone' = gone \cup AllRefs(d.leaves)
  BY DEF SyncsDiff, Apply
<1>5. /\ IsFun(state') /\ IsPresence(state')
      /\ \A k : At(state', k) = IF k \in DOMAIN d.joins \cup DOMAIN d.leaves
                                THEN At(d.joins, k) ELSE At(state, k)
  BY <1>2, <1>3, <1>4, SyncDiffGives
<1>. QED
  BY <1>3, <1>4, <1>5 DEF Handled, Settles, Gives, Brings, TakesAway

-----------------------------------------------------------------------------
(* Types.                                                                  *)

\* What the server lists of devices that are tracked is a map of lists.
LEMMA MetasRaw ==
  ASSUME TypeOK, NEW D \in SUBSET Tracked
  PROVE  /\ IsRaw(Metas(D)) /\ DOMAIN Metas(D) = {KeyOf[d] : d \in D}
         /\ \A k \in DOMAIN Metas(D) :
              Range(Metas(D)[k]) = {online[d] : d \in {e \in D : KeyOf[e] = k}}
<1>. USE PresenceAssumption
<1>1. /\ DOMAIN Metas(D) = {KeyOf[d] : d \in D} /\ DOMAIN Metas(D) \subseteq Key
      /\ \A k \in DOMAIN Metas(D) : Metas(D)[k] = SetToSeq(Listed(D)[k])
      /\ \A k \in DOMAIN Metas(D) : Listed(D)[k] = {online[d] : d \in {e \in D : KeyOf[e] = k}}
  BY DEF Metas, Listed, Tracked
<1>2. ASSUME NEW k \in DOMAIN Metas(D)
      PROVE  /\ Metas(D)[k] \in Seq(Refs) \ {<<>>}
             /\ Range(Metas(D)[k]) = {online[d] : d \in {e \in D : KeyOf[e] = k}}
  <2>. DEFINE S == {online[d] : d \in {e \in D : KeyOf[e] = k}}
  <2>1. S \subseteq Refs /\ S # {}
    <3>1. \A d \in D : online[d] \in Refs
      BY DEF TypeOK, Tracked, Refs
    <3>2. \E d \in D : KeyOf[d] = k
      BY <1>1
    <3>. QED
      BY <3>1, <3>2
  <2>2. Metas(D)[k] = SetToSeq(S)
    BY <1>1
  <2>. HIDE DEF S
  <2>3. IsFiniteSet(S)
    <3>1. IsFiniteSet(1..MaxRef)
      BY FS_Interval
    <3>2. S \in SUBSET (1..MaxRef)
      BY <2>1 DEF Refs
    <3>. QED
      BY <3>1, <3>2, FS_Subset
  <2>4. SetToSeq(S) \in Seq(S) /\ Range(SetToSeq(S)) = S
    BY <2>3, ToSeqLists
  <2>5. SetToSeq(S) \in Seq(Refs)
    BY <2>1, <2>4, SeqMonotonic
  <2>6. SetToSeq(S) # <<>>
    BY <2>1, <2>4, EmptyMap DEF Range
  <2>. QED
    BY <2>2, <2>4, <2>5, <2>6 DEF S
<1>. QED
  BY <1>1, <1>2 DEF IsRaw

WellFormed(m) == m.kind \in {"state", "diff"} => IsRaw(m.joins) /\ IsRaw(m.leaves)
Quiet(m)      == m.kind \notin {"state", "diff", "ended"}

\* Handling a message keeps the shape of the state.
LEMMA HandledShape == Shape /\ Handled => Shape'
<1>. SUFFICES ASSUME Shape, Handled PROVE Shape'
  OBVIOUS
<1>1. IsSeq(wire) /\ wire # <<>> /\ wire' = Tail(wire)
  BY DEF Shape, Handled
<1>2. IsSeq(wire') /\ Range(wire') \subseteq Range(wire) /\ Head(wire) \in Range(wire)
  BY <1>1, WireTail DEF Range
<1>3. Brings(Head(wire)) \subseteq Refs /\ TakesAway(Head(wire)) \subseteq Refs
  BY <1>2, RawIsPresence DEF Brings, TakesAway, Shape, TypeOK
<1>. QED
  BY <1>2, <1>3 DEF Shape, Handled, TypeOK, serverVars

\* One more well-formed message keeps it well-formed.
LEMMA AppendShape ==
  ASSUME Shape, NEW m, WellFormed(m), wire' = Append(wire, m)
  PROVE  IsSeq(wire') /\ \A n \in Range(wire') : WellFormed(n)
<1>1. /\ IsSeq(wire') /\ DOMAIN wire' = 1..(Len(wire) + 1)
      /\ \A i \in DOMAIN wire : wire'[i] = wire[i]
      /\ wire'[Len(wire) + 1] = m
  BY WireAppend DEF Shape
<1>2. Len(wire) \in Nat /\ DOMAIN wire = 1..Len(wire)
  BY SeqDomain DEF Shape
<1>3. \A i \in DOMAIN wire' : i \in DOMAIN wire \/ i = Len(wire) + 1
  BY <1>1, <1>2
<1>4. \A i \in DOMAIN wire : WellFormed(wire[i])
  BY DEF Shape, TypeOK, Range, WellFormed
<1>. QED
  BY <1>1, <1>3, <1>4 DEF Range

\* The refs that the devices D are tracked with.
RefsOf(D) == {online[d] : d \in D}

\* The messages of the server are well formed, and take away what they say.
LEMMA ServerMessages ==
  ASSUME TypeOK
  PROVE  /\ \A j : \A D \in SUBSET Tracked :
              LET m == [kind |-> "diff", joins |-> j, leaves |-> Metas(D)] IN
              /\ IsRaw(j) => WellFormed(m)
              /\ Brings(m) = AllRefs(FromRaw(j)) /\ TakesAway(m) = RefsOf(D)
              /\ \A k : /\ Settles(m, k) <=> k \in DOMAIN j \cup {KeyOf[d] : d \in D}
                        /\ Gives(m, k) = At(FromRaw(j), k)
         /\ LET m == [kind |-> "state", joins |-> Metas(Tracked), leaves |-> <<>>] IN
              /\ WellFormed(m)
              /\ Brings(m) = RefsOf(Tracked) /\ TakesAway(m) = {}
              /\ \A k : Settles(m, k) /\ Gives(m, k) = Present(k)
<1>1. IsRaw(<<>>)
  BY EmptyMap DEF IsRaw
<1>2. ASSUME NEW D \in SUBSET Tracked
      PROVE  AllRefs(FromRaw(Metas(D))) = RefsOf(D)
  <2>1. /\ DOMAIN FromRaw(Metas(D)) = {KeyOf[d] : d \in D}
        /\ \A k \in DOMAIN FromRaw(Metas(D)) :
             FromRaw(Metas(D))[k] = {online[d] : d \in {e \in D : KeyOf[e] = k}}
    BY MetasRaw DEF FromRaw
  <2>. QED
    BY <2>1 DEF AllRefs, RefsOf
<1>3. ASSUME NEW D \in SUBSET Tracked, NEW j
      PROVE  LET m == [kind |-> "diff", joins |-> j, leaves |-> Metas(D)] IN
             /\ IsRaw(j) => WellFormed(m)
             /\ Brings(m) = AllRefs(FromRaw(j)) /\ TakesAway(m) = RefsOf(D)
             /\ \A k : /\ Settles(m, k) <=> k \in DOMAIN j \cup {KeyOf[d] : d \in D}
                       /\ Gives(m, k) = At(FromRaw(j), k)
  BY <1>2, MetasRaw DEF WellFormed, Brings, TakesAway, Settles, Gives
<1>4. ASSUME NEW k PROVE At(FromRaw(Metas(Tracked)), k) = Present(k)
  <2>1. /\ DOMAIN FromRaw(Metas(Tracked)) = {KeyOf[d] : d \in Tracked}
        /\ \A x \in DOMAIN FromRaw(Metas(Tracked)) : FromRaw(Metas(Tracked))[x] = Present(x)
    BY MetasRaw DEF FromRaw, Present
  <2>2. k \notin {KeyOf[d] : d \in Tracked} => Present(k) = {}
    BY DEF Present
  <2>. QED
    BY <2>1, <2>2 DEF At
<1>5. LET m == [kind |-> "state", joins |-> Metas(Tracked), leaves |-> <<>>] IN
        /\ WellFormed(m)
        /\ Brings(m) = RefsOf(Tracked) /\ TakesAway(m) = {}
        /\ \A k : Settles(m, k) /\ Gives(m, k) = Present(k)
  BY <1>1, <1>2, <1>4, MetasRaw DEF WellFormed, Brings, TakesAway, Settles, Gives
<1>. QED
  BY <1>3, <1>5

-----------------------------------------------------------------------------
(* What the wire will make of the presence.                                *)

\* Once everything on the wire is handled, id k has v.
Becomes(k, v) ==
  \/ At(state, k) = v /\ \A i \in DOMAIN wire : ~Settles(wire[i], k)
  \/ \E i \in DOMAIN wire : /\ Settles(wire[i], k) /\ Gives(wire[i], k) = v
                            /\ \A j \in DOMAIN wire : j > i => ~Settles(wire[j], k)

\* Handling a message does not change what the wire will make of an id.
LEMMA HandledBecomes ==
  ASSUME IsSeq(wire), Handled, NEW k, NEW v, Becomes(k, v)
  PROVE  Becomes(k, v)'
<1>1. wire # <<>> /\ wire' = Tail(wire)
  BY DEF Handled
<1>2. /\ 1 \in DOMAIN wire /\ Head(wire) = wire[1]
      /\ \A i \in DOMAIN wire' : i + 1 \in DOMAIN wire /\ wire'[i] = wire[i + 1]
      /\ \A i \in DOMAIN wire : i # 1 => i - 1 \in DOMAIN wire' /\ wire'[i - 1] = wire[i]
      /\ DOMAIN wire \subseteq Nat \ {0} /\ DOMAIN wire' \subseteq Nat \ {0}
  BY <1>1, WireTail
<1>3. At(state', k) = IF Settles(wire[1], k) THEN Gives(wire[1], k) ELSE At(state, k)
  BY <1>2 DEF Handled
<1>4. CASE At(state, k) = v /\ \A i \in DOMAIN wire : ~Settles(wire[i], k)
  <2>1. At(state', k) = v /\ \A i \in DOMAIN wire' : ~Settles(wire'[i], k)
    BY <1>2, <1>3, <1>4
  <2>. QED
    BY <2>1 DEF Becomes
<1>5. ASSUME NEW i \in DOMAIN wire, Settles(wire[i], k), Gives(wire[i], k) = v,
             \A j \in DOMAIN wire : j > i => ~Settles(wire[j], k)
      PROVE  Becomes(k, v)'
  <2>1. CASE i = 1
    <3>1. At(state', k) = v /\ \A j \in DOMAIN wire' : ~Settles(wire'[j], k)
      BY <1>2, <1>3, <1>5, <2>1
    <3>. QED
      BY <3>1 DEF Becomes
  <2>2. CASE i # 1
    <3>1. /\ i - 1 \in DOMAIN wire' /\ wire'[i - 1] = wire[i]
          /\ \A j \in DOMAIN wire' : j > i - 1 => ~Settles(wire'[j], k)
      BY <1>2, <1>5, <2>2
    <3>. QED
      BY <1>5, <3>1 DEF Becomes
  <2>. QED
    BY <2>1, <2>2
<1>. QED
  BY <1>4, <1>5 DEF Becomes

\* One more message settles an id, or leaves it as it will be.
LEMMA AppendBecomes ==
  ASSUME IsSeq(wire), NEW m, wire' = Append(wire, m), NEW k
  PROVE  /\ Settles(m, k) => Becomes(k, Gives(m, k))'
         /\ \A v : ~Settles(m, k) /\ state' = state /\ Becomes(k, v) => Becomes(k, v)'
<1>1. /\ DOMAIN wire' = 1..(Len(wire) + 1) /\ wire'[Len(wire) + 1] = m
      /\ \A i \in DOMAIN wire : wire'[i] = wire[i]
      /\ Len(wire) \in Nat /\ DOMAIN wire = 1..Len(wire)
  BY WireAppend, SeqDomain
<1>2. \A i \in DOMAIN wire' : i \in DOMAIN wire \/ i = Len(wire) + 1
  BY <1>1
<1>3. ASSUME Settles(m, k) PROVE Becomes(k, Gives(m, k))'
  <2>1. /\ Len(wire) + 1 \in DOMAIN wire'
        /\ \A j \in DOMAIN wire' : ~(j > Len(wire) + 1)
    BY <1>1
  <2>. QED
    BY <1>1, <1>3, <2>1 DEF Becomes
<1>4. ASSUME NEW v, ~Settles(m, k), state' = state, Becomes(k, v) PROVE Becomes(k, v)'
  <2>1. CASE At(state, k) = v /\ \A i \in DOMAIN wire : ~Settles(wire[i], k)
    <3>1. At(state', k) = v /\ \A i \in DOMAIN wire' : ~Settles(wire'[i], k)
      BY <1>1, <1>2, <1>4, <2>1
    <3>. QED
      BY <3>1 DEF Becomes
  <2>2. ASSUME NEW i \in DOMAIN wire, Settles(wire[i], k), Gives(wire[i], k) = v,
               \A j \in DOMAIN wire : j > i => ~Settles(wire[j], k)
        PROVE  Becomes(k, v)'
    <3>1. /\ i \in DOMAIN wire' /\ wire'[i] = wire[i]
          /\ \A j \in DOMAIN wire' : j > i => ~Settles(wire'[j], k)
      BY <1>1, <1>2, <1>4, <2>2
    <3>. QED
      BY <2>2, <3>1 DEF Becomes
  <2>. QED
    BY <1>4, <2>1, <2>2 DEF Becomes
<1>. QED
  BY <1>3, <1>4

\* The wire of a joined channel makes every id what the server lists under it.
Caught == joined => \A k \in Key : Becomes(k, Present(k))

\* With nothing under way, the presence is what the server lists.
LEMMA CaughtMirrors == Shape /\ Caught => Mirrors
<1>. SUFFICES ASSUME Shape, Caught, joined, wire = <<>> PROVE state = Listed(Tracked)
  BY DEF Mirrors
<1>. USE PresenceAssumption
<1>1. \A k \in Key : At(state, k) = Present(k)
  BY EmptyMap DEF Caught, Becomes
<1>2. /\ DOMAIN state \subseteq Key /\ \A k \in DOMAIN state : state[k] # {}
      /\ state = [k \in DOMAIN state |-> state[k]]
  BY DEF Shape, TypeOK, IsPresence, IsFun
<1>3. /\ DOMAIN Listed(Tracked) = {KeyOf[d] : d \in Tracked}
      /\ Listed(Tracked) = [k \in {KeyOf[d] : d \in Tracked} |-> Present(k)]
  BY DEF Listed, Present
<1>4. \A k \in Key : k \in {KeyOf[d] : d \in Tracked} <=> Present(k) # {}
  BY DEF Present
<1>5. {KeyOf[d] : d \in Tracked} \subseteq Key
  BY DEF Tracked
<1>6. DOMAIN state = {KeyOf[d] : d \in Tracked}
  BY <1>1, <1>2, <1>4, <1>5 DEF At
<1>7. \A k \in DOMAIN state : state[k] = Present(k)
  BY <1>1, <1>2 DEF At
<1>. QED
  BY <1>2, <1>3, <1>6, <1>7

-----------------------------------------------------------------------------
(* What has been heard of when it leaves.                                  *)

\* Ref r has been given to Join callbacks once message i of the wire is handled.
HeardBy(r, i) == r \in heard \/ \E j \in DOMAIN wire : j <= i /\ r \in Brings(wire[j])

\* No ref leaves before it was heard of, now and when the wire is handled, and the
\* wire of a joined channel tells of all refs there are.
HeardFirst ==
  /\ gone \subseteq heard
  /\ \A i \in DOMAIN wire : \A r \in TakesAway(wire[i]) : HeardBy(r, i)
  /\ joined => \A d \in Tracked : HeardBy(online[d], Len(wire))

\* Handling a message keeps that.
LEMMA HandledHeard == Shape /\ HeardFirst /\ Handled => HeardFirst'
<1>. SUFFICES ASSUME Shape, HeardFirst, Handled PROVE HeardFirst'
  OBVIOUS
<1>1. /\ wire # <<>> /\ wire' = Tail(wire) /\ IsSeq(wire)
      /\ heard' = heard \cup Brings(Head(wire)) /\ gone' = gone \cup TakesAway(Head(wire))
      /\ UNCHANGED <<joined, online>>
  BY DEF Handled, Shape, serverVars
<1>2. /\ IsSeq(wire') /\ 1 \in DOMAIN wire /\ Head(wire) = wire[1]
      /\ \A i \in DOMAIN wire' : i + 1 \in DOMAIN wire /\ wire'[i] = wire[i + 1]
      /\ \A i \in DOMAIN wire : i # 1 => i - 1 \in DOMAIN wire' /\ wire'[i - 1] = wire[i]
      /\ DOMAIN wire \subseteq Nat \ {0} /\ DOMAIN wire' \subseteq Nat \ {0}
  BY <1>1, WireTail
<1>3. ASSUME NEW r, NEW i \in Nat, HeardBy(r, i + 1) PROVE HeardBy(r, i)'
  <2>1. CASE r \in heard \/ r \in Brings(wire[1])
    BY <1>1, <1>2, <2>1 DEF HeardBy
  <2>2. ASSUME NEW j \in DOMAIN wire, j # 1, j <= i + 1, r \in Brings(wire[j])
        PROVE  HeardBy(r, i)'
    <3>1. j - 1 \in DOMAIN wire' /\ wire'[j - 1] = wire[j] /\ j - 1 <= i
      BY <1>2, <2>2
    <3>. QED
      BY <2>2, <3>1 DEF HeardBy
  <2>. QED
    BY <1>3, <2>1, <2>2 DEF HeardBy
<1>4. gone' \subseteq heard'
  <2>1. ASSUME NEW r \in TakesAway(wire[1]) PROVE r \in heard \/ r \in Brings(wire[1])
    <3>1. HeardBy(r, 1)
      BY <1>2, <2>1 DEF HeardFirst
    <3>2. \A j \in DOMAIN wire : j <= 1 => j = 1
      BY <1>2
    <3>. QED
      BY <3>1, <3>2 DEF HeardBy
  <2>. QED
    BY <1>1, <1>2, <2>1 DEF HeardFirst
<1>5. ASSUME NEW i \in DOMAIN wire', NEW r \in TakesAway(wire'[i]) PROVE HeardBy(r, i)'
  <2>1. i \in Nat /\ HeardBy(r, i + 1)
    BY <1>2, <1>5 DEF HeardFirst
  <2>. QED
    BY <1>3, <2>1
<1>6. ASSUME joined', NEW d \in Tracked' PROVE HeardBy(online[d], Len(wire))'
  <2>1. joined /\ d \in Tracked /\ online'[d] = online[d]
    BY <1>1, <1>6 DEF Tracked
  <2>2. HeardBy(online[d], Len(wire))
    BY <2>1 DEF HeardFirst
  <2>3. Len(wire') \in Nat /\ Len(wire) = Len(wire') + 1
    <3>1. PICK S : wire \in Seq(S)
      BY <1>1 DEF IsSeq
    <3>2. Len(wire') = Len(wire) - 1 /\ Len(wire) \in Nat \ {0}
      BY <1>1, <3>1, HeadTailProperties, EmptySeq
    <3>. QED
      BY <3>2
  <2>4. PICK r : r = online[d]
    OBVIOUS
  <2>5. PICK n : n = Len(wire')
    OBVIOUS
  <2>6. HeardBy(r, n)'
    BY <1>3, <2>2, <2>3, <2>4, <2>5
  <2>. QED
    BY <2>1, <2>4, <2>5, <2>6
<1>. QED
  BY <1>4, <1>5, <1>6 DEF HeardFirst

\* One more message, which takes away only what was heard of.
LEMMA AppendHeard ==
  ASSUME IsSeq(wire), HeardFirst, NEW m, wire' = Append(wire, m), UNCHANGED <<heard, gone>>,
         \A r \in TakesAway(m) : HeardBy(r, Len(wire))
  PROVE  /\ gone' \subseteq heard'
         /\ \A i \in DOMAIN wire' : \A r \in TakesAway(wire'[i]) : HeardBy(r, i)'
         /\ \A r : HeardBy(r, Len(wire)) \/ r \in Brings(m) => HeardBy(r, Len(wire))'
<1>1. PICK n \in Nat : n = Len(wire)
  BY SeqDomain
<1>2. /\ DOMAIN wire' = 1..(n + 1) /\ wire'[n + 1] = m /\ DOMAIN wire = 1..n
      /\ \A i \in DOMAIN wire : wire'[i] = wire[i] /\ i \in DOMAIN wire'
      /\ Len(wire') = n + 1
  BY <1>1, WireAppend, SeqDomain
<1>3. ASSUME NEW r, NEW i, HeardBy(r, i) PROVE HeardBy(r, i)'
  BY <1>2, <1>3 DEF HeardBy
<1>4. ASSUME NEW r, HeardBy(r, n) PROVE HeardBy(r, n + 1)'
  <2>1. \A j \in DOMAIN wire : j <= n + 1
    BY <1>2
  <2>. QED
    BY <1>2, <1>4, <2>1 DEF HeardBy
<1>5. ASSUME NEW r \in Brings(m) PROVE HeardBy(r, n + 1)'
  <2>1. n + 1 \in DOMAIN wire' /\ n + 1 <= n + 1
    BY <1>2
  <2>. QED
    BY <1>2, <2>1 DEF HeardBy
<1>6. ASSUME NEW i \in DOMAIN wire', NEW r \in TakesAway(wire'[i]) PROVE HeardBy(r, i)'
  <2>1. CASE i \in DOMAIN wire
    <3>1. HeardBy(r, i)
      BY <1>2, <1>6, <2>1 DEF HeardFirst
    <3>. QED
      BY <1>3, <3>1
  <2>2. CASE i = n + 1
    <3>1. HeardBy(r, n)
      BY <1>1, <1>2, <1>6, <2>2
    <3>. QED
      BY <1>4, <2>2, <3>1
  <2>. QED
    BY <1>2, <2>1, <2>2
<1>7. ASSUME NEW r, HeardBy(r, Len(wire)) \/ r \in Brings(m) PROVE HeardBy(r, Len(wire))'
  <2>1. HeardBy(r, n + 1)'
    BY <1>1, <1>4, <1>5, <1>7
  <2>. QED
    BY <1>2, <2>1 DEF HeardBy
<1>. QED
  BY <1>6, <1>7 DEF HeardFirst

-----------------------------------------------------------------------------
(* The steps of the server.                                                *)

\* No two devices track under one id.
Injective == \A d, e \in Device : KeyOf[d] = KeyOf[e] => d = e

PresenceInv ==
  /\ Shape
  /\ HeardFirst
  /\ Injective => Caught

\* Handling a message.
LEMMA HandledStep == PresenceInv /\ Handled => PresenceInv'
<1>. SUFFICES ASSUME PresenceInv, Handled PROVE PresenceInv'
  OBVIOUS
<1>1. UNCHANGED <<joined, online>> /\ IsSeq(wire)
  BY DEF Handled, serverVars, PresenceInv, Shape
<1>2. ASSUME Injective, joined', NEW k \in Key PROVE Becomes(k, Present(k))'
  <2>1. PICK v : v = Present(k)
    OBVIOUS
  <2>2. Becomes(k, v)
    BY <1>1, <1>2, <2>1 DEF PresenceInv, Caught
  <2>3. Becomes(k, v)'
    BY <1>1, <2>2, HandledBecomes
  <2>4. Present(k)' = v
    BY <1>1, <2>1 DEF Present, Tracked
  <2>. QED
    BY <2>3, <2>4
<1>. QED
  BY <1>2, HandledShape, HandledHeard DEF PresenceInv, Caught

\* A message that is about no presence.
LEMMA QuietStep ==
  ASSUME PresenceInv, NEW m, Quiet(m), wire' = Append(wire, m),
         UNCHANGED <<clientVars, serverVars>>
  PROVE  PresenceInv'
<1>1. IsSeq(wire) /\ TypeOK /\ IsFun(state) /\ HeardFirst
  BY DEF PresenceInv, Shape
<1>2. /\ UNCHANGED <<state, heard, gone, joined, online, nextRef, drops>>
      /\ WellFormed(m) /\ TakesAway(m) = {} /\ \A k : ~Settles(m, k)
  BY DEF clientVars, serverVars, WellFormed, TakesAway, Settles, Quiet
<1>3. Shape'
  <2>1. IsSeq(wire') /\ \A n \in Range(wire') : WellFormed(n)
    BY <1>2, AppendShape DEF PresenceInv
  <2>. QED
    BY <1>1, <1>2, <2>1 DEF Shape, TypeOK, WellFormed
<1>4. HeardFirst'
  <2>1. /\ gone' \subseteq heard'
        /\ \A i \in DOMAIN wire' : \A r \in TakesAway(wire'[i]) : HeardBy(r, i)'
        /\ \A r : HeardBy(r, Len(wire)) => HeardBy(r, Len(wire))'
    BY <1>1, <1>2, AppendHeard
  <2>2. joined' => \A d \in Tracked' : HeardBy(online[d], Len(wire))'
    BY <1>1, <1>2, <2>1 DEF HeardFirst, Tracked
  <2>. QED
    BY <2>1, <2>2 DEF HeardFirst
<1>5. ASSUME Injective, joined', NEW k \in Key PROVE Becomes(k, Present(k))'
  <2>1. PICK v : v = Present(k)
    OBVIOUS
  <2>2. Becomes(k, v)
    BY <1>2, <1>5, <2>1 DEF PresenceInv, Caught
  <2>3. Becomes(k, v)'
    BY <1>1, <1>2, <2>2, AppendBecomes
  <2>4. Present(k)' = v
    BY <1>2, <2>1 DEF Present, Tracked
  <2>. QED
    BY <2>3, <2>4
<1>. QED
  BY <1>3, <1>4, <1>5 DEF PresenceInv, Caught

\* A device tracks something else or nothing from now on, and the server says so.
LEMMA DiffStep ==
  ASSUME PresenceInv, NEW d \in Device, NEW n \in 0..MaxRef, NEW j, IsRaw(j),
         NEW m, m = [kind |-> "diff", joins |-> j, leaves |-> Metas({d} \cap Tracked)],
         AllRefs(FromRaw(j)) = {n} \ {0}, DOMAIN j \subseteq {KeyOf[d]},
         At(FromRaw(j), KeyOf[d]) = {n} \ {0}, Settles(m, KeyOf[d]),
         Tells(m), online' = [online EXCEPT ![d] = n],
         nextRef' \in 0..MaxRef, UNCHANGED <<clientVars, joined, drops>>
  PROVE  PresenceInv'
<1>. USE PresenceAssumption
<1>1. IsSeq(wire) /\ TypeOK /\ IsFun(state) /\ HeardFirst /\ Shape
  BY DEF PresenceInv, Shape
<1>2. /\ UNCHANGED <<state, heard, gone, joined, drops>>
      /\ joined => wire' = Append(wire, m)
      /\ ~joined => wire' = wire
  BY DEF clientVars, Tells
<1>3. /\ online \in [Device -> 0..MaxRef] /\ online' \in [Device -> 0..MaxRef]
      /\ online'[d] = n /\ \A e \in Device : e # d => online'[e] = online[e]
  BY <1>1 DEF TypeOK
<1>4. {d} \cap Tracked \in SUBSET Tracked
  OBVIOUS
<1>5. /\ WellFormed(m) /\ Brings(m) = {n} \ {0} /\ TakesAway(m) = RefsOf({d} \cap Tracked)
      /\ \A k : Settles(m, k) => k = KeyOf[d]
      /\ Gives(m, KeyOf[d]) = {n} \ {0}
  BY <1>1, <1>4, ServerMessages
<1>6. /\ IsSeq(wire') /\ \A x \in Range(wire') : WellFormed(x)
  BY <1>1, <1>2, <1>5, AppendShape DEF TypeOK, WellFormed
<1>7. Shape'
  BY <1>1, <1>2, <1>3, <1>6 DEF Shape, TypeOK, WellFormed
<1>8. Tracked' \subseteq Tracked \cup {d} /\ (d \in Tracked' <=> n # 0)
  BY <1>3 DEF Tracked
<1>9. HeardFirst'
  <2>1. CASE joined
    <3>1. \A r \in TakesAway(m) : HeardBy(r, Len(wire))
      BY <1>1, <1>5, <2>1 DEF RefsOf, HeardFirst
    <3>2. /\ gone' \subseteq heard'
          /\ \A i \in DOMAIN wire' : \A r \in TakesAway(wire'[i]) : HeardBy(r, i)'
          /\ \A r : HeardBy(r, Len(wire)) \/ r \in Brings(m) => HeardBy(r, Len(wire))'
      BY <1>1, <1>2, <2>1, <3>1, AppendHeard
    <3>3. ASSUME NEW e \in Tracked' PROVE HeardBy(online[e], Len(wire))'
      <4>1. PICK r : r = online'[e]
        OBVIOUS
      <4>2. CASE e = d
        <5>1. r \in Brings(m)
          BY <1>3, <1>5, <1>8, <3>3, <4>1, <4>2
        <5>2. HeardBy(r, Len(wire))'
          BY <3>2, <5>1
        <5>. QED
          BY <4>1, <5>2
      <4>3. CASE e # d
        <5>1. r = online[e] /\ e \in Tracked
          BY <1>3, <1>8, <3>3, <4>1, <4>3
        <5>2. HeardBy(r, Len(wire))
          BY <1>1, <2>1, <5>1 DEF HeardFirst
        <5>3. HeardBy(r, Len(wire))'
          BY <3>2, <5>2
        <5>. QED
          BY <4>1, <5>3
      <4>. QED
        BY <4>2, <4>3
    <3>. QED
      BY <3>2, <3>3 DEF HeardFirst
  <2>2. CASE ~joined
    BY <1>1, <1>2, <2>2 DEF HeardFirst, HeardBy
  <2>. QED
    BY <2>1, <2>2
<1>10. ASSUME Injective, joined', NEW k \in Key PROVE Becomes(k, Present(k))'
  <2>1. joined /\ wire' = Append(wire, m)
    BY <1>2, <1>10
  <2>2. CASE k = KeyOf[d]
    <3>1. Present(k)' = {n} \ {0}
      <4>1. \A e \in Device : KeyOf[e] = k => e = d
        BY <1>10, <2>2 DEF Injective
      <4>2. Present(k)' = {online'[e] : e \in {x \in Tracked' : KeyOf[x] = k}}
        BY DEF Present
      <4>3. {x \in Tracked' : KeyOf[x] = k} = IF n = 0 THEN {} ELSE {d}
        BY <1>8, <2>2, <4>1 DEF Tracked
      <4>. QED
        BY <1>3, <4>2, <4>3
    <3>2. Becomes(k, Gives(m, k))'
      BY <1>1, <2>1, <2>2, AppendBecomes
    <3>. QED
      BY <1>5, <2>2, <3>1, <3>2
  <2>3. CASE k # KeyOf[d]
    <3>1. PICK v : v = Present(k)
      OBVIOUS
    <3>2. Becomes(k, v)
      BY <1>10, <2>1, <3>1 DEF PresenceInv, Caught
    <3>3. ~Settles(m, k)
      BY <1>5, <2>3
    <3>4. Becomes(k, v)'
      BY <1>1, <1>2, <2>1, <3>2, <3>3, AppendBecomes
    <3>5. Present(k)' = v
      <4>1. \A e \in Device : KeyOf[e] = k => e # d
        BY <2>3
      <4>2. {e \in Tracked' : KeyOf[e] = k} = {e \in Tracked : KeyOf[e] = k}
        BY <1>3, <4>1 DEF Tracked
      <4>3. \A e \in {x \in Tracked : KeyOf[x] = k} : online'[e] = online[e]
        BY <1>3, <4>1 DEF Tracked
      <4>. QED
        BY <3>1, <4>2, <4>3 DEF Present
    <3>. QED
      BY <3>4, <3>5
  <2>. QED
    BY <2>2, <2>3
<1>. QED
  BY <1>7, <1>9, <1>10 DEF PresenceInv, Caught

\* A device tracks a new ref: the diff gives its id that ref, and takes the old one away.
LEMMA TrackStep ==
  ASSUME PresenceInv, NEW d \in Device, Track(d)
  PROVE  PresenceInv'
<1>. USE PresenceAssumption
<1>1. nextRef \in 0..MaxRef /\ nextRef < MaxRef /\ nextRef' = nextRef + 1
  BY DEF Track, PresenceInv, Shape, TypeOK
<1>2. PICK n : n = nextRef'
  OBVIOUS
<1>3. n \in 0..MaxRef /\ n \in Refs /\ n # 0
  BY <1>1, <1>2 DEF Refs
<1>. DEFINE j == [k \in {KeyOf[d]} |-> <<n>>]
<1>4. Range(<<n>>) = {n} /\ <<n>> \in Seq(Refs) \ {<<>>}
  BY <1>3 DEF Range
<1>5. DOMAIN j = {KeyOf[d]} /\ j[KeyOf[d]] = <<n>> /\ KeyOf[d] \in Key
  OBVIOUS
<1>. HIDE DEF j
<1>6. IsRaw(j)
  BY <1>4, <1>5 DEF IsRaw
<1>7. DOMAIN FromRaw(j) = {KeyOf[d]} /\ FromRaw(j)[KeyOf[d]] = {n}
  BY <1>4, <1>5 DEF FromRaw
<1>8. AllRefs(FromRaw(j)) = {n} \ {0} /\ At(FromRaw(j), KeyOf[d]) = {n} \ {0}
  BY <1>3, <1>7 DEF AllRefs, At
<1>9. PICK m : m = [kind |-> "diff", joins |-> j, leaves |-> Metas({d} \cap Tracked)]
  OBVIOUS
<1>10. Settles(m, KeyOf[d])
  BY <1>5, <1>9 DEF Settles
<1>11. /\ Tells(m) /\ online' = [online EXCEPT ![d] = n]
       /\ nextRef' \in 0..MaxRef /\ UNCHANGED <<clientVars, joined, drops>>
  BY <1>2, <1>3, <1>9 DEF Track, j
<1>. QED
  BY <1>3, <1>5, <1>6, <1>8, <1>9, <1>10, <1>11, DiffStep

\* A device stops tracking: the diff only takes its ref away.
LEMMA UntrackStep ==
  ASSUME PresenceInv, NEW d \in Device, Untrack(d)
  PROVE  PresenceInv'
<1>. USE PresenceAssumption
<1>1. d \in Tracked /\ {d} \cap Tracked = {d} /\ TypeOK
  BY DEF Untrack, PresenceInv, Shape
<1>2. IsRaw(<<>>) /\ DOMAIN <<>> = {} /\ DOMAIN FromRaw(<<>>) = {}
  BY EmptyMap DEF IsRaw, FromRaw
<1>3. AllRefs(FromRaw(<<>>)) = {0} \ {0} /\ At(FromRaw(<<>>), KeyOf[d]) = {0} \ {0}
  BY <1>2 DEF AllRefs, At
<1>4. PICK m : m = [kind |-> "diff", joins |-> <<>>, leaves |-> Metas({d} \cap Tracked)]
  OBVIOUS
<1>5. Settles(m, KeyOf[d])
  <2>1. DOMAIN Metas({d} \cap Tracked) = {KeyOf[e] : e \in {d} \cap Tracked}
    BY <1>1, MetasRaw
  <2>. QED
    BY <1>1, <1>4, <2>1 DEF Settles
<1>6. /\ online' = [online EXCEPT ![d] = 0] /\ 0 \in 0..MaxRef
      /\ nextRef' \in 0..MaxRef /\ UNCHANGED <<clientVars, joined, drops>>
  BY <1>1 DEF Untrack, TypeOK
<1>7. Tells(m)
  BY <1>1, <1>4 DEF Untrack
<1>. QED
  BY <1>2, <1>3, <1>4, <1>5, <1>6, <1>7, DiffStep

\* The server takes the channel in, and tells the whole presence last.
LEMMA AdmitsStep ==
  ASSUME PresenceInv, NEW first, first = <<>> \/ \E q : Quiet(q) /\ first = <<q>>,
         Admits(first)
  PROVE  PresenceInv'
<1>1. IsSeq(wire) /\ TypeOK /\ IsFun(state) /\ HeardFirst /\ Shape
  BY DEF PresenceInv, Shape
<1>2. PICK m : m = [kind |-> "state", joins |-> Metas(Tracked), leaves |-> <<>>]
  OBVIOUS
<1>3. /\ wire' = wire \o first \o <<m>> /\ joined'
      /\ UNCHANGED <<state, heard, gone, online, nextRef, drops>>
  BY <1>2 DEF Admits, clientVars
<1>4. /\ WellFormed(m) /\ Brings(m) = RefsOf(Tracked) /\ TakesAway(m) = {}
      /\ \A k : Settles(m, k) /\ Gives(m, k) = Present(k)
  BY <1>1, <1>2, ServerMessages
<1>5. PICK w : /\ IsSeq(w) /\ wire' = Append(w, m)
               /\ \A i \in DOMAIN wire : i \in DOMAIN w /\ w[i] = wire[i]
               /\ \A i \in DOMAIN w \ DOMAIN wire : Quiet(w[i])
  <2>1. CASE first = <<>>
    BY <1>1, <1>3, <2>1, WireConcat
  <2>2. ASSUME NEW q, Quiet(q), first = <<q>>
        PROVE  \E w : /\ IsSeq(w) /\ wire' = Append(w, m)
                      /\ \A i \in DOMAIN wire : i \in DOMAIN w /\ w[i] = wire[i]
                      /\ \A i \in DOMAIN w \ DOMAIN wire : Quiet(w[i])
    <3>1. wire' = Append(Append(wire, q), m)
      BY <1>1, <1>3, <2>2, WireConcat
    <3>2. /\ IsSeq(Append(wire, q)) /\ DOMAIN Append(wire, q) = 1..(Len(wire) + 1)
          /\ \A i \in DOMAIN wire : Append(wire, q)[i] = wire[i]
          /\ Append(wire, q)[Len(wire) + 1] = q
          /\ Len(wire) \in Nat /\ DOMAIN wire = 1..Len(wire)
      BY <1>1, WireAppend, SeqDomain
    <3>3. \A i \in DOMAIN Append(wire, q) \ DOMAIN wire : i = Len(wire) + 1
      BY <3>2
    <3>4. \A i \in DOMAIN wire : i \in DOMAIN Append(wire, q)
      BY <3>2
    <3>5. \A i \in DOMAIN Append(wire, q) \ DOMAIN wire : Quiet(Append(wire, q)[i])
      BY <2>2, <3>2, <3>3
    <3>. WITNESS Append(wire, q)
    <3>. QED
      BY <3>1, <3>2, <3>4, <3>5
  <2>. QED
    BY <2>1, <2>2
<1>6. /\ IsSeq(wire') /\ DOMAIN wire' = 1..(Len(w) + 1) /\ wire'[Len(w) + 1] = m
      /\ Len(wire') = Len(w) + 1 /\ Len(w) \in Nat /\ DOMAIN w = 1..Len(w)
      /\ \A i \in DOMAIN w : wire'[i] = w[i]
  BY <1>5, WireAppend, SeqDomain
<1>7. \A i \in DOMAIN wire' : \/ i \in DOMAIN wire /\ wire'[i] = wire[i]
                              \/ Quiet(wire'[i])
                              \/ i = Len(w) + 1
  BY <1>5, <1>6
<1>8. Shape'
  <2>1. \A i \in DOMAIN wire' : WellFormed(wire'[i])
    BY <1>1, <1>4, <1>6, <1>7 DEF WellFormed, Quiet, TypeOK, Range
  <2>. QED
    BY <1>1, <1>3, <1>6, <2>1 DEF Shape, TypeOK, WellFormed, Range
<1>9. HeardFirst'
  <2>1. \A r, i : HeardBy(r, i) => HeardBy(r, i)'
    BY <1>3, <1>5, <1>6 DEF HeardBy
  <2>2. ASSUME NEW i \in DOMAIN wire', NEW r \in TakesAway(wire'[i]) PROVE HeardBy(r, i)'
    <3>1. i \in DOMAIN wire /\ wire'[i] = wire[i]
      BY <1>4, <1>6, <1>7, <2>2 DEF Quiet, TakesAway
    <3>2. HeardBy(r, i)
      BY <1>1, <2>2, <3>1 DEF HeardFirst
    <3>. QED
      BY <2>1, <3>2
  <2>3. ASSUME NEW d \in Tracked' PROVE HeardBy(online[d], Len(wire))'
    <3>1. online'[d] \in Brings(m)
      BY <1>3, <1>4, <2>3 DEF RefsOf, Tracked
    <3>2. Len(wire') \in DOMAIN wire' /\ Len(wire') <= Len(wire') /\ wire'[Len(wire')] = m
      BY <1>6
    <3>. QED
      BY <3>1, <3>2 DEF HeardBy
  <2>4. gone' \subseteq heard'
    BY <1>1, <1>3 DEF HeardFirst
  <2>. QED
    BY <2>2, <2>3, <2>4 DEF HeardFirst
<1>10. ASSUME NEW k \in Key PROVE Becomes(k, Present(k))'
  <2>1. /\ Len(w) + 1 \in DOMAIN wire' /\ Settles(wire'[Len(w) + 1], k)
        /\ Gives(wire'[Len(w) + 1], k) = Present(k)
        /\ \A i \in DOMAIN wire' : ~(i > Len(w) + 1)
    BY <1>4, <1>6
  <2>2. Present(k)' = Present(k)
    BY <1>3 DEF Present, Tracked
  <2>. QED
    BY <2>1, <2>2 DEF Becomes
<1>. QED
  BY <1>8, <1>9, <1>10 DEF PresenceInv, Caught

\* The connection is lost with what was not read from it.
LEMMA DropStep ==
  ASSUME PresenceInv, Drop
  PROVE  PresenceInv'
<1>1. IsSeq(wire) /\ TypeOK /\ IsFun(state) /\ HeardFirst
  BY DEF PresenceInv, Shape
<1>2. PICK n \in 0..Len(wire) : wire' = SubSeq(wire, 1, n)
  BY DEF Drop
<1>3. /\ joined' = FALSE /\ drops < MaxDrops /\ drops' = drops + 1
      /\ UNCHANGED <<state, heard, gone, online, nextRef>>
  BY DEF Drop, clientVars
<1>4. /\ IsSeq(wire') /\ DOMAIN wire' = 1..n /\ n \in Nat
      /\ \A i \in 1..n : wire'[i] = wire[i] /\ i \in DOMAIN wire
  BY <1>1, <1>2, WirePrefix, SeqDomain
<1>5. Shape'
  <2>1. drops' \in 0..MaxDrops
    BY <1>1, <1>3, PresenceAssumption DEF TypeOK
  <2>2. Range(wire') \subseteq Range(wire)
    BY <1>4 DEF Range
  <2>. QED
    BY <1>1, <1>3, <1>4, <2>1, <2>2 DEF Shape, TypeOK
<1>6. HeardFirst'
  <2>1. ASSUME NEW i \in DOMAIN wire', NEW r \in TakesAway(wire'[i]) PROVE HeardBy(r, i)'
    <3>1. HeardBy(r, i)
      BY <1>1, <1>4, <2>1 DEF HeardFirst
    <3>2. ASSUME NEW j \in DOMAIN wire, j <= i PROVE j \in DOMAIN wire'
      <4>1. j \in Nat \ {0} /\ i \in Nat /\ i <= n
        BY <1>1, <1>4, <2>1, SeqDomain
      <4>. QED
        BY <1>4, <3>2, <4>1
    <3>. QED
      BY <1>3, <1>4, <3>1, <3>2 DEF HeardBy
  <2>. QED
    BY <1>1, <1>3, <2>1 DEF HeardFirst
<1>. QED
  BY <1>3, <1>5, <1>6 DEF PresenceInv, Caught

-----------------------------------------------------------------------------
(* The theorems.                                                           *)

\* At first nothing is tracked, heard of or on the wire.
LEMMA PresenceStarts == Init => PresenceInv
<1>. SUFFICES ASSUME Init PROVE PresenceInv
  OBVIOUS
<1>. USE PresenceAssumption
<1>1. IsSeq(wire) /\ IsFun(state) /\ DOMAIN wire = {} /\ DOMAIN state = {}
  BY EmptyMap DEF Init
<1>2. Range(wire) = {}
  BY <1>1 DEF Range
<1>3. IsPresence(state)
  BY <1>1 DEF IsPresence
<1>4. /\ heard \subseteq Refs /\ gone \subseteq Refs /\ online \in [Device -> 0..MaxRef]
      /\ joined \in BOOLEAN /\ nextRef \in 0..MaxRef /\ drops \in 0..MaxDrops
  <2>1. /\ heard = {} /\ gone = {} /\ online = [d \in Device |-> 0]
        /\ joined = FALSE /\ nextRef = 0 /\ drops = 0
    BY Zenon DEF Init
  <2>2. 0 \in 0..MaxRef /\ 0 \in 0..MaxDrops
    OBVIOUS
  <2>. QED
    BY <2>1, <2>2
<1>5. Shape
  BY <1>1, <1>2, <1>3, <1>4 DEF Shape, TypeOK
<1>. QED
  BY <1>1, <1>5 DEF PresenceInv, HeardFirst, Caught, Init

\* A stutter.
LEMMA UnchangedStep == PresenceInv /\ UNCHANGED vars => PresenceInv'
<1>. SUFFICES ASSUME PresenceInv, UNCHANGED vars PROVE PresenceInv'
  OBVIOUS
<1>1. UNCHANGED <<state, heard, gone, wire, online, joined, nextRef, drops>>
  BY DEF vars, clientVars, serverVars
<1>2. Shape'
  BY <1>1 DEF PresenceInv, Shape, TypeOK
<1>3. HeardFirst'
  BY <1>1 DEF PresenceInv, HeardFirst, HeardBy, Tracked
<1>4. Caught => Caught'
  <2>1. \A k, v : Becomes(k, v) => Becomes(k, v)'
    BY <1>1 DEF Becomes
  <2>2. \A k : Present(k)' = Present(k)
    BY <1>1 DEF Present, Tracked
  <2>3. ASSUME Caught, joined', NEW k \in Key PROVE Becomes(k, Present(k))'
    <3>1. PICK v : v = Present(k)
      OBVIOUS
    <3>2. Becomes(k, v)'
      BY <1>1, <2>1, <2>3, <3>1 DEF Caught
    <3>. QED
      BY <2>2, <3>1, <3>2
  <2>. QED
    BY <2>3 DEF Caught
<1>. QED
  BY <1>2, <1>3, <1>4 DEF PresenceInv

\* Every step: one case per action.
LEMMA PresenceStep == PresenceInv /\ [Next]_vars => PresenceInv'
<1>. SUFFICES ASSUME PresenceInv, [Next]_vars PROVE PresenceInv'
  OBVIOUS
<1>1. CASE HandlePresenceState
  <2>1. Handled
    BY <1>1, StateHandled DEF HandlePresenceState, Takes, PresenceInv
  <2>. QED
    BY <2>1, HandledStep
<1>2. CASE HandlePresenceDiff
  <2>1. Handled
    BY <1>2, DiffHandled DEF HandlePresenceDiff, Takes, PresenceInv
  <2>. QED
    BY <2>1, HandledStep
<1>3. ASSUME NEW d \in Device, Track(d) \/ Untrack(d) PROVE PresenceInv'
  BY <1>3, TrackStep, UntrackStep
<1>4. CASE Join
  BY <1>4, AdmitsStep DEF Join
<1>5. CASE Drop
  BY <1>5, DropStep
<1>6. CASE UNCHANGED vars
  BY <1>6, UnchangedStep
<1>. QED
  BY <1>1, <1>2, <1>3, <1>4, <1>5, <1>6 DEF Next

\* TypeOK: every id of the presence has something tracked under it.
THEOREM PresenceTypeCorrect == Spec => []TypeOK
<1>1. PresenceInv => TypeOK
  BY DEF PresenceInv, Shape
<1>. QED
  BY <1>1, PresenceStarts, PresenceStep, PTL DEF Spec

\* LeavesWereJoined: no Leave callback names what no Join callback has named.
THEOREM LeavesAreOfJoined == Spec => []LeavesWereJoined
<1>1. PresenceInv => LeavesWereJoined
  BY DEF PresenceInv, HeardFirst, LeavesWereJoined
<1>. QED
  BY <1>1, PresenceStarts, PresenceStep, PTL DEF Spec

\* Mirrors: as long as no two devices share an id, a joined channel that has handled
\* every message lists what the server lists.  The run presence_shared_key shows
\* that the condition is needed.
THEOREM OwnIdsMirror == Injective => (Spec => []Mirrors)
<1>. SUFFICES ASSUME Injective PROVE Spec => []Mirrors
  OBVIOUS
<1>1. PresenceInv => Mirrors
  BY CaughtMirrors DEF PresenceInv
<1>. QED
  BY <1>1, PresenceStarts, PresenceStep, PTL DEF Spec
=============================================================================
