---------------------------- MODULE SessionStore ----------------------------
(***************************************************************************)
(* The session serializer (phpser_session.c) between ext/session and a     *)
(* store it does not control.  Requests overlap; the key they have is      *)
(* fixed when they start and may differ from one to the next.  Hooks run   *)
(* inside an encode and may change the data, the session id, or end the    *)
(* session.                                                                *)
(*                                                                         *)
(* Tags are those of SealTerms: that the caches below them are transparent *)
(* is KeyedStore's subject.                                                *)
(***************************************************************************)
EXTENDS SealTerms

CONSTANTS
  Request,
  Scalars,     \* frames that decode to something other than an array
  NoSid,       \* PS(id) of a request that has none
  MaxSaves,    \* bound: saves begun
  MaxEvents    \* bound: changes of key, of id, and damage

ASSUME SessionAssumption ==
  /\ Scalars \subseteq Frame \ Malformed
  /\ \E v \in Frame : v \notin Malformed \cup Scalars
  /\ NoSid \notin SessionId

VARIABLES
  config, last, signed, view,   \* as in SessionPromise; last and signed are history
  engine,     \* "8.5" stores "" for an encoder that returns NULL, "8.6" nothing
  store,      \* SessionId -> bytes
  key,        \* the key of a request under way, fixed when it starts
  phase,      \* "none", "active" or "encoding"
  sid, data,  \* PS(id) and $_SESSION of a request
  saves, events

vars == <<config, last, signed, view, engine, store, key, phase, sid, data, saves, events>>

Promise == INSTANCE SessionPromise

MaybeKey == Key \cup {Unset}
Arrays   == Frame \ (Malformed \cup Scalars)
EmptyArray == CHOOSE v \in Arrays : TRUE   \* array_init

(* Stored bytes: nothing, the marker, or a frame and the tag that follows it. *)
NoBytes   == [kind |-> "none"]
Tombstone == [kind |-> "tombstone"]
Blob(f, t) == [kind |-> "frame", frame |-> f, tag |-> t]
SealOf(k, s) == IF k = Unset THEN PlainSeal ELSE SessionSeal(k, s)

AnyTag == {Tag(SealOf(k, s), f) : k \in MaybeKey, s \in SessionId, f \in Frame}

TypeOK ==
  /\ config \in MaybeKey /\ key \in [Request -> MaybeKey]
  /\ engine \in {"8.5", "8.6"}
  /\ phase \in [Request -> {"none", "active", "encoding"}]
  /\ sid \in [Request -> SessionId \cup {NoSid}]
  /\ data \in [Request -> Arrays]
  /\ store \in [SessionId -> {NoBytes, Tombstone} \cup [kind : {"frame"}, frame : Frame, tag : AnyTag]]
  /\ last \in [SessionId -> [how : {"new", "lost", "unknown"}]
                              \cup [how : {"saved"}, key : MaybeKey, value : Arrays]]
  /\ signed \subseteq SessionId \X MaybeKey \X Arrays

-----------------------------------------------------------------------------
(* PS_SERIALIZER_DECODE_FUNC(phpser): what a request with key k gets from   *)
(* bytes b under id s.  Bytes that carry the right tag, or need none, reach *)
(* phpser_decode_buf; it fails for a malformed frame, and also when a hook  *)
(* or an autoloader throws, a class does not take its data or memory runs   *)
(* out (restores is FALSE).                                                 *)
Failure == [ok |-> FALSE, verified |-> FALSE]
Unrestored == [ok |-> FALSE, verified |-> TRUE]
Success(v) == [ok |-> TRUE, verified |-> TRUE, value |-> v]

(* Mutant: the tag is checked without the session id. *)
TagFitsAny(b, k, s) == \E i \in SessionId : b.tag = Tag(SessionSeal(k, i), b.frame)

TagFits(b, k, s) == b.tag = Tag(SessionSeal(k, s), b.frame)

Verified(b, k, s) == IF k = Unset THEN b.tag = NoTag ELSE TagFits(b, k, s)

DecodeBuf(f, restores) ==
  IF ~ restores THEN Unrestored ELSE IF f \in Arrays THEN Success(f) ELSE Failure

Decode(b, k, s, restores) ==
  IF k \in ShortKeys THEN Failure
  ELSE CASE b.kind = "none"      -> Success(EmptyArray)
         [] b.kind = "tombstone" -> Failure       \* recognised, or not a frame
         [] b.kind = "frame"     ->
              IF Verified(b, k, s) THEN DecodeBuf(b.frame, restores) ELSE Failure

(* PS_SERIALIZER_ENCODE_FUNC(phpser): the bytes for value v, or Null, when  *)
(* the walk ended with that outcome and PS(id) is s by then.                *)
Null == [kind |-> "null"]

(* Mutant: a walk that hit a limit returns NULL like one that threw. *)
EncodedLimitNull(k, s, v, outcome) ==
  CASE k \in ShortKeys -> Tombstone
    [] k \notin ShortKeys /\ outcome = "ok" ->
         IF k # Unset /\ s = NoSid THEN Tombstone ELSE Blob(v, Tag(SealOf(k, s), v))
    [] OTHER -> Null

Encoded(k, s, v, outcome) ==
  CASE k \in ShortKeys -> Tombstone
    [] k \notin ShortKeys /\ outcome = "ok" ->
         IF k # Unset /\ s = NoSid THEN Tombstone ELSE Blob(v, Tag(SealOf(k, s), v))
    [] k \notin ShortKeys /\ outcome = "limit" -> Tombstone
    [] OTHER -> Null

-----------------------------------------------------------------------------
Event == events < MaxEvents /\ events' = events + 1

(* session_start: ext/session reads the bytes and has them decoded; a       *)
(* failure destroys the session.  Not every save handler locks the id.      *)
Start(r, s, restores) ==
  /\ phase[r] = "none" /\ saves < MaxSaves
  /\ LET res == Decode(store[s], config, s, restores) IN
     IF res.ok
     THEN /\ phase' = [phase EXCEPT ![r] = "active"]
          /\ key' = [key EXCEPT ![r] = config]
          /\ sid' = [sid EXCEPT ![r] = s]
          /\ data' = [data EXCEPT ![r] = res.value]
          /\ view' = [view EXCEPT ![r] = IF store[s] = NoBytes THEN Promise!FoundNothing
                                         ELSE Promise!Found(res.value)]
          /\ UNCHANGED <<store, last>>
     ELSE /\ store' = [store EXCEPT ![s] = NoBytes]
          /\ last' = [last EXCEPT ![s] = Promise!NewLeft]
          /\ view' = [view EXCEPT ![r] = IF res.verified THEN Promise!NotRestored
                                         ELSE Promise!Rejected]
          /\ UNCHANGED <<phase, key, sid, data>>
  /\ UNCHANGED <<config, signed, engine, saves, events>>

(* User code, also in a hook of an encode under way: the walk holds the     *)
(* arrays it meets, but a hook may change the objects in them.              *)
Assign(r, v) ==
  /\ phase[r] # "none"
  /\ data' = [data EXCEPT ![r] = v]
  /\ UNCHANGED <<config, last, signed, view, engine, store, key, phase, sid, saves, events>>

(* session_regenerate_id, to an id nobody uses. *)
ChangeId(r, s) ==
  /\ Event
  /\ phase[r] = "encoding" /\ sid[r] # NoSid
  /\ store[s] = NoBytes
  /\ sid' = [sid EXCEPT ![r] = s]
  /\ UNCHANGED <<config, last, signed, view, engine, store, key, phase, data, saves>>

(* session_destroy: what is stored goes and the request has no id.          *)
Destroy(r) ==
  /\ Event
  /\ phase[r] = "encoding" /\ sid[r] # NoSid
  /\ sid' = [sid EXCEPT ![r] = NoSid]
  /\ store' = [store EXCEPT ![sid[r]] = NoBytes]
  /\ last' = [last EXCEPT ![sid[r]] = Promise!NewLeft]
  /\ UNCHANGED <<config, signed, view, engine, key, phase, data, saves>>

(* session_write_close: the key is looked up and the walk begins. *)
BeginSave(r) ==
  /\ phase[r] = "active" /\ saves < MaxSaves
  /\ phase' = [phase EXCEPT ![r] = "encoding"]
  /\ saves' = saves + 1
  /\ UNCHANGED <<config, last, signed, view, engine, store, key, sid, data, events>>

(* The walk ends, the frame is tagged for the id there is now, and the      *)
(* engine stores what it is given under that id.  The request is over.      *)
FinishSave(r, outcome) ==
  /\ phase[r] = "encoding"
  /\ phase' = [phase EXCEPT ![r] = "none"]
  /\ sid' = [sid EXCEPT ![r] = NoSid]
  /\ data' = [data EXCEPT ![r] = EmptyArray]
  /\ key' = [key EXCEPT ![r] = Unset]
  /\ LET bytes == Encoded(key[r], sid[r], data[r], outcome)
         s == sid[r]
     IN \/ /\ s = NoSid
           /\ UNCHANGED <<store, last, signed>>
        \/ /\ s # NoSid /\ outcome = "exception" /\ engine = "8.6" /\ bytes = Null
           /\ UNCHANGED <<store, last, signed>>
        \/ /\ s # NoSid /\ ~ (outcome = "exception" /\ engine = "8.6")
           /\ store' = [store EXCEPT ![s] = IF bytes = Null THEN NoBytes ELSE bytes]
           /\ last' = [last EXCEPT ![s] =
                CASE outcome = "ok"        -> Promise!SavedLeft(key[r], data[r])
                  [] outcome = "limit"     -> Promise!LostLeft
                  [] outcome = "exception" -> Promise!NewLeft]
           /\ signed' = IF outcome = "ok" THEN signed \cup {<<s, key[r], data[r]>>} ELSE signed
  /\ UNCHANGED <<config, view, engine, saves, events>>

(* The configuration changes for requests that start later. *)
Configure(k) ==
  /\ Event
  /\ config' = k
  /\ UNCHANGED <<last, signed, view, engine, store, key, phase, sid, data, saves>>

(* The store loses, damages or mixes up what it keeps, or brings back what  *)
(* was there before.                                                        *)
Damage(s) ==
  /\ Event
  /\ \/ \E t \in SessionId : store' = [store EXCEPT ![s] = store[t]]
     \/ \E f \in Frame : store' = [store EXCEPT ![s] = Blob(f, NoTag)]
     \/ \E f \in Frame, t \in SessionId :
          store[t].kind = "frame" /\ store' = [store EXCEPT ![s] = Blob(f, store[t].tag)]
     \/ \E save \in signed :
          store' = [store EXCEPT ![s] =
                      Blob(save[3], Tag(SealOf(save[2], save[1]), save[3]))]
     \/ store' = [store EXCEPT ![s] = NoBytes]
  /\ last' = [last EXCEPT ![s] = Promise!UnknownLeft]
  /\ UNCHANGED <<config, signed, view, engine, key, phase, sid, data, saves>>

Init ==
  /\ Promise!Init
  /\ engine \in {"8.5", "8.6"}
  /\ store = [s \in SessionId |-> NoBytes]
  /\ key = [r \in Request |-> Unset]
  /\ phase = [r \in Request |-> "none"]
  /\ sid = [r \in Request |-> NoSid]
  /\ data = [r \in Request |-> EmptyArray]
  /\ saves = 0 /\ events = 0

Next ==
  \/ \E r \in Request, s \in SessionId, restores \in BOOLEAN : Start(r, s, restores)
  \/ \E r \in Request, v \in Arrays : Assign(r, v)
  \/ \E r \in Request, s \in SessionId : ChangeId(r, s)
  \/ \E r \in Request : BeginSave(r) \/ Destroy(r)
  \/ \E r \in Request, outcome \in {"ok", "limit", "exception"} : FinishSave(r, outcome)
  \/ \E k \in MaybeKey : Configure(k)
  \/ \E s \in SessionId : Damage(s)

Spec == Init /\ [][Next]_vars

-----------------------------------------------------------------------------
(* Properties.                                                              *)

(* Whatever the requests, their hooks, the rotation of keys and the store   *)
(* do, a request finds what the id was left with: a saved session under its *)
(* own key, unless its hooks, classes or memory fail to restore it (then it *)
(* is destroyed), a rejection for a lost save, and data of another id or    *)
(* key in no case.  Under a key no hook or autoloader runs before the data  *)
(* are known to be this id's.                                               *)
ImplementsSessionPromise == Promise!Spec

(* How an id was left and what the store has for it belong together, also   *)
(* while hooks of a save under way change the id: nothing is stored under   *)
(* an id that is not tagged for it.                                         *)
StoreMatches ==
  \A s \in SessionId :
    CASE last[s].how = "new"     -> store[s] = NoBytes
      [] last[s].how = "lost"    -> store[s] = Tombstone
      [] last[s].how = "saved"   ->
           /\ last[s].key \in MaybeKey \ ShortKeys
           /\ last[s].value \in Arrays
           /\ <<s, last[s].key, last[s].value>> \in signed
           /\ store[s] = Blob(last[s].value, Tag(SealOf(last[s].key, s), last[s].value))
      [] last[s].how = "unknown" ->
           store[s].kind = "frame" =>
             /\ store[s].frame \in Frame
             /\ store[s].tag = NoTag \/ \E save \in signed :
                  store[s].tag = Tag(SealOf(save[2], save[1]), save[3])

(* A request that got as far as a session has a usable key, or none.        *)
KeysUsable ==
  \A r \in Request : phase[r] # "none" => key[r] \notin ShortKeys

SessionInv == TypeOK /\ KeysUsable /\ StoreMatches
=============================================================================
