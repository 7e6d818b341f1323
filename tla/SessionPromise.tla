--------------------------- MODULE SessionPromise ---------------------------
(***************************************************************************)
(* What the session handler promises to requests that share a store.  A    *)
(* session id was last left new, saved, lost (a save that could not be     *)
(* encoded) or touched by someone else.  What a request then finds follows *)
(* from that, and from the key it has: never an empty session in place of  *)
(* a lost one, never another id's data, never data of another key.  Data   *)
(* it may see can still fail to be restored by their own classes, hooks or *)
(* autoloaders; no other data get that far.                                *)
(***************************************************************************)
EXTENDS SealTerms

CONSTANTS Request

VARIABLES
  config,   \* the key requests that start now have
  last,     \* SessionId -> how the id was left
  signed,   \* ids, keys and values of all saves
  view      \* Request -> what it found

MaybeKey == Key \cup {Unset}
Value    == Frame \ Malformed

NewLeft        == [how |-> "new"]
LostLeft       == [how |-> "lost"]
UnknownLeft    == [how |-> "unknown"]
SavedLeft(k, v) == [how |-> "saved", key |-> k, value |-> v]

FoundNothing == [found |-> "new"]
Rejected     == [found |-> "rejected"]
NotRestored  == [found |-> "not restored"]
Found(v)     == [found |-> "data", value |-> v]

(* What a request with key k may find. *)
MayFind(s, k) ==
  IF k \in ShortKeys THEN {Rejected}
  ELSE CASE last[s].how = "new"   -> {FoundNothing}
         [] last[s].how = "lost"  -> {Rejected}
         [] last[s].how = "saved" -> {IF SameKey(last[s].key, k) THEN Found(last[s].value) ELSE Rejected}
         [] last[s].how = "unknown" ->
              {FoundNothing, Rejected}
                \cup IF k = Unset THEN {Found(v) : v \in Value}
                     ELSE {Found(v) : v \in {w \in Value : \E l \in Key :
                                                SameKey(l, k) /\ <<s, l, w>> \in signed}}

Init ==
  /\ config \in MaybeKey
  /\ last = [s \in SessionId |-> NewLeft]
  /\ signed = {}
  /\ view = [r \in Request |-> FoundNothing]

MayFindData(s, k) == ~ MayFind(s, k) \subseteq {FoundNothing, Rejected}

(* A session that is rejected or cannot be restored is destroyed. *)
Open(r, s) ==
  /\ \E x \in MayFind(s, config) \cup {NotRestored} :
       /\ view' = [view EXCEPT ![r] = x]
       /\ x = NotRestored => MayFindData(s, config)
       /\ last' = IF x \in {Rejected, NotRestored} THEN [last EXCEPT ![s] = NewLeft] ELSE last
  /\ UNCHANGED <<config, signed>>

Save(s, k, v) ==
  /\ last' = [last EXCEPT ![s] = SavedLeft(k, v)]
  /\ signed' = signed \cup {<<s, k, v>>}
  /\ UNCHANGED <<config, view>>

Leave(s, how) ==
  /\ last' = [last EXCEPT ![s] = how]
  /\ UNCHANGED <<config, signed, view>>

Configure == config' \in MaybeKey /\ UNCHANGED <<last, signed, view>>

Next ==
  \/ \E s \in SessionId :
       \/ \E r \in Request : Open(r, s)
       \/ \E k \in MaybeKey, v \in Value : Save(s, k, v)
       \/ \E how \in {NewLeft, LostLeft, UnknownLeft} : Leave(s, how)
  \/ Configure

Spec == Init /\ [][Next]_<<config, last, signed, view>>
=============================================================================
