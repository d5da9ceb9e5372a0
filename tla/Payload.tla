------------------------------ MODULE Payload ------------------------------
(***************************************************************************)
(* Payload of src/src/message/payload.rs is an untagged enum: the event of *)
(* a message plays no part, and its payload becomes the first variant that *)
(* can be read from it.  A JSON object is abstracted to the function from  *)
(* its fields to what their values look like:                              *)
(*   "text" a string, "ok" and "error" the strings of PayloadStatus, the   *)
(*   strings of PresenceEvent under their names, "ids" a list of numbers,  *)
(*   "map" an object, "changes" an object with a list of postgres_changes, *)
(*   "config" a join configuration, "data" and "keyless" a row change      *)
(*   whose old record has, or lacks, a numeric id, "metas" an object with  *)
(*   a list of metas, "presence" an object of them.                        *)
(***************************************************************************)
EXTENDS Sequences, Functions

\* The variants in the order they are tried.
Variants == <<"Join", "Response", "System", "AccessToken", "PostgresChanges", "Broadcast",
              "PresenceState", "PresenceDiff", "Reply", "PresenceTrack", "Empty">>

Object   == {"map", "changes", "config", "data", "keyless", "metas", "presence"}
Status   == {"ok", "error"}
Named    == {"track", "untrack", "join", "leave", "sync"}
Text     == {"text"} \cup Status \cup Named

\* What the fields of a variant may look like, all of them required; serde ignores
\* other fields. PresenceState is no struct, and Empty has no fields.
Fields ==
  [Join            |-> [config |-> {"config"}, access_token |-> Text],
   Response        |-> [response |-> {"changes"}, status |-> Status],
   System          |-> [channel |-> Text, extension |-> Text, message |-> Text,
                        status |-> Status],
   AccessToken     |-> [access_token |-> Text],
   PostgresChanges |-> [data |-> {"data"}, ids |-> {"ids"}],
   Broadcast       |-> [event |-> Text, payload |-> Object, type |-> Text],
   PresenceDiff    |-> [joins |-> {"presence"}, leaves |-> {"presence"}],
   Reply           |-> [response |-> Object \cup Text \cup {"ids"}, status |-> Text],
   PresenceTrack   |-> [event |-> Named, payload |-> Object],
   Empty           |-> <<>>]

\* A map of presence ids is read from any object whose values all have metas: the
\* empty object is one.
Reads(variant, p) ==
  \/ variant = "PresenceState" /\ Range(p) \subseteq {"metas"}
  \/ /\ variant # "PresenceState"
     /\ \A f \in DOMAIN Fields[variant] : f \in DOMAIN p /\ p[f] \in Fields[variant][f]

FirstOf(order, p) ==
  order[CHOOSE i \in DOMAIN order :
          Reads(order[i], p) /\ \A j \in 1..(i - 1) : ~Reads(order[j], p)]

\* Mutant: a response needs no list of changes.
VariantOf_AnyResponse(p) ==
  IF {"response", "status"} \subseteq DOMAIN p THEN "Response" ELSE FirstOf(Variants, p)
\* Mutant: Empty, which reads everything, is tried before the presence.
VariantOf_EmptyEarly(p) ==
  FirstOf(SubSeq(Variants, 1, 6) \o <<"Empty">> \o SubSeq(Variants, 7, 10), p)
VariantOf(p) == FirstOf(Variants, p)

=============================================================================
