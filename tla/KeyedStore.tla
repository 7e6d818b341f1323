----------------------------- MODULE KeyedStore -----------------------------
(***************************************************************************)
(* Tagged frames: the C API and APCu callbacks, the keyed and the signed   *)
(* functions and the session handler's tag (phpser_api.c, phpser_module.c, *)
(* phpser_session.c), over the two per-thread caches they share: the       *)
(* derived subkey of phpser_api.c and the HMAC midstates of phpser_hmac.c. *)
(*                                                                         *)
(* User code runs between the lookup of a key and the computation of the   *)
(* tag (encode hooks; __toString of an option), and may make further       *)
(* calls: calls is the stack of those under way in a thread.  What a       *)
(* decode hook calls comes after the last use of the caches, as a call     *)
(* that follows.                                                           *)
(***************************************************************************)
EXTENDS SealedStore, Sequences

CONSTANTS
  Worker,     \* threads, each with its own caches and configuration
  Configs,    \* bound: the configurations tried
  MaxNested,  \* bound: calls under way at once in a thread
  MaxCalls,   \* bound: calls
  MaxEvents   \* bound: changes of configuration and damage to the store

VARIABLES
  ini,        \* phpser.key and phpser.session_key, per thread
  ops,        \* whether the SHA-256 operations were found
  subkeyCache, hmacState,
  calls,
  issued,     \* seals and frames phpser put in the store
  derived,    \* whether a thread asked for phpser.key's subkey, or found no
              \* key, since its configuration changed
  made, events

caches == <<subkeyCache, hmacState, derived>>
vars == <<store, answer, ini, ops, subkeyCache, hmacState, calls, issued,
          derived, made, events>>

MaybeKey == Key \cup {Unset}

EmptySubkey   == [valid |-> FALSE]
EmptyMidstate == [valid |-> FALSE]
Subkey        == {Mac(RawBlock(k), l) : k \in Key, l \in Label}
CachedSubkey  == [valid : {TRUE}, key : Key \ LongKeys, label : Label, subkey : Subkey]
KeyBlocks     == {RawBlock(k) : k \in Key} \cup Subkey
Midstate      == [valid : {TRUE}, block : KeyBlocks, mid : KeyBlocks]

Call == [op : {"serialize"}, via : {"api", "keyed"}, key : MaybeKey, label : KeyedLabel]
   \cup [op : {"serialize"}, via : {"signed", "session"}, key : MaybeKey]
   \cup [op : {"unserialize"}, key : Key, label : KeyedLabel, slot : Slot]

ASSUME ConfigsAssumption ==
  Configs \subseteq [key : Key \cup {Unset}, session : Key \cup {Unset}]

TypeOK ==
  /\ ini \in [Worker -> [key : MaybeKey, session : MaybeKey]]
  /\ ops \in BOOLEAN
  /\ subkeyCache \in [Worker -> CachedSubkey \cup {EmptySubkey}]
  /\ hmacState \in [Worker -> Midstate \cup {EmptyMidstate}]
  /\ calls \in [Worker -> Seq(Call)]
  /\ derived \in [Worker -> BOOLEAN]

Idle(w) == calls[w] = <<>>

-----------------------------------------------------------------------------
(* HMAC over cached midstates: what phpser_hmac_sha256 leaves behind, and   *)
(* the tag it computes from it.                                             *)

(* Mutant: the midstates of the last key are used for every key. *)
LoadKeyOnce(hs, block) ==
  IF hs.valid THEN hs ELSE [valid |-> TRUE, block |-> block, mid |-> block]

LoadKey(hs, block) ==
  IF hs.valid /\ hs.block = block THEN hs
  ELSE [valid |-> TRUE, block |-> block, mid |-> block]

Resume(hs, msg) == Mac(hs.mid, msg)

Cacheable(key) == key \notin LongKeys

(* Mutant: a hit compares the key but not the context. *)
HitByKey(c, key, label) == Cacheable(key) /\ c.valid /\ c.key = key

(* The subkey of a context comes from the cache when the cache has it. *)
Hit(c, key, label) ==
  Cacheable(key) /\ c.valid /\ c.key = key /\ c.label = label

(* The midstates after the derivation, and the subkey. *)
AfterDerivation(c, hs, key, label) ==
  IF Hit(c, key, label) THEN hs ELSE LoadKey(hs, RawBlock(key))
SubkeyOf(c, hs, key, label) ==
  IF Hit(c, key, label) THEN c.subkey
  ELSE Resume(AfterDerivation(c, hs, key, label), label)

(* Mutant: an entry is only replaced, never emptied. *)
CacheReplaced(c, hs, key, label) ==
  IF ~ Hit(c, key, label) /\ ops /\ Cacheable(key)
  THEN [valid |-> TRUE, key |-> key, label |-> label,
        subkey |-> SubkeyOf(c, hs, key, label)]
  ELSE c

(* A miss empties the entry before it derives, and fills it afterwards. *)
CacheAfter(c, hs, key, label) ==
  CASE Hit(c, key, label)  -> c
    [] ~ Hit(c, key, label) /\ ops /\ Cacheable(key) ->
         [valid |-> TRUE, key |-> key, label |-> label,
          subkey |-> SubkeyOf(c, hs, key, label)]
    [] OTHER -> EmptySubkey

(* The midstates after a tag under a label, and the tag. *)
AfterDerivedTag(c, hs, key, label) ==
  LoadKey(AfterDerivation(c, hs, key, label), SubkeyOf(c, hs, key, label))
DerivedTag(c, hs, key, label, f) ==
  Resume(AfterDerivedTag(c, hs, key, label), f)

(* phpser_keyed_tag, phpser_session_tag and the tag of the signed functions: *)
(* their effect on the caches, when the operations are there.                *)
TagKeyed(w, key, label) ==
  /\ subkeyCache' = [subkeyCache EXCEPT ![w] = CacheAfter(@, hmacState[w], key, label)]
  /\ hmacState' = IF ops
       THEN [hmacState EXCEPT ![w] = AfterDerivedTag(subkeyCache[w], @, key, label)]
       ELSE hmacState
  /\ derived' = [derived EXCEPT ![w] = TRUE]
TagSession(w, key, label) ==
  /\ hmacState' = IF ops
       THEN [hmacState EXCEPT ![w] = AfterDerivedTag(EmptySubkey, @, key, label)]
       ELSE hmacState
  /\ UNCHANGED <<subkeyCache, derived>>
TagSigned(w, key) ==
  /\ hmacState' = IF ops
       THEN [hmacState EXCEPT ![w] = LoadKey(@, RawBlock(key))] ELSE hmacState
  /\ UNCHANGED <<subkeyCache, derived>>

-----------------------------------------------------------------------------
(* Keys and contexts.                                                       *)

(* Mutant: "session" is a context like any other. *)
AnyWord(c) == c \notin BadContexts

ContextValid(c) == c \notin BadContexts /\ c # SessionWord

(* phpser_key_lookup: no usable key empties the subkey cache. *)
Lookup(w) ==
  IF KeyOK(ini[w].key)
  THEN UNCHANGED caches
  ELSE /\ subkeyCache' = [subkeyCache EXCEPT ![w] = EmptySubkey]
       /\ derived' = [derived EXCEPT ![w] = TRUE]
       /\ UNCHANGED hmacState

Push(w, call) == calls' = [calls EXCEPT ![w] = Append(@, call)]
Pop(w)        == calls' = [calls EXCEPT ![w] = SubSeq(@, 1, Len(@) - 1)]
Top(w)        == calls[w][Len(calls[w])]

MayCall(w) == made < MaxCalls /\ Len(calls[w]) < MaxNested /\ made' = made + 1

(* A payload is the caller's string for as long as the call has it. *)
Reading(s) == \E w \in Worker : \E i \in 1 .. Len(calls[w]) :
                calls[w][i].op = "unserialize" /\ calls[w][i].slot = s

-----------------------------------------------------------------------------
(* Serializing: the key is looked up, the value encoded (hooks run), the    *)
(* frame tagged.                                                            *)

(* phpser_api_serialize and phpser_serialize_keyed, which wants a key. *)
SerializeKeyed(w, via, c) ==
  /\ MayCall(w)
  /\ answer' = Refused
  /\ IF ContextValid(c) THEN Lookup(w) ELSE UNCHANGED caches
  /\ LET key == ini[w].key IN
     IF ContextValid(c) /\ (KeyOK(key) \/ (via = "api" /\ key = Unset))
     THEN Push(w, [op |-> "serialize", via |-> via, key |-> key,
                   label |-> ContextLabel(c)])
     ELSE UNCHANGED calls
  /\ UNCHANGED <<store, ini, ops, issued, events>>

(* phpser_serialize_signed; the empty key is refused. *)
SerializeSigned(w, key) ==
  /\ MayCall(w)
  /\ answer' = Refused
  /\ IF key = Unset THEN UNCHANGED calls
     ELSE Push(w, [op |-> "serialize", via |-> "signed", key |-> key])
  /\ UNCHANGED <<store, caches, ini, ops, issued, events>>

(* The session encoder; without a usable key it writes the marker, below. *)
SerializeSession(w) ==
  /\ MayCall(w)
  /\ answer' = Refused
  /\ IF ini[w].session \in ShortKeys THEN UNCHANGED calls
     ELSE Push(w, [op |-> "serialize", via |-> "session", key |-> ini[w].session])
  /\ UNCHANGED <<store, caches, ini, ops, issued, events>>

(* The encode fails: an exception, a limit. *)
EncodeFails(w) ==
  /\ ~ Idle(w) /\ Top(w).op = "serialize"
  /\ Pop(w)
  /\ answer' = Refused
  /\ UNCHANGED <<store, caches, ini, ops, issued, made, events>>

(* The encode returns a frame, which gets its tag and goes to the store; a  *)
(* memory error queued by then (phpser_api_serialize) discards it.          *)
Seals(w, call, sid) ==
  CASE call.key = Unset                -> PlainSeal
    [] call.key # Unset /\ call.via = "signed" -> SignedSeal(call.key)
    [] call.key # Unset /\ call.via = "session" ->
         SessionSeal(call.key, sid)
    [] OTHER -> KeyedSeal(call.key, call.label)

TagComputed(w, call, sid, f) ==
  CASE call.key = Unset -> NoTag
    [] call.key # Unset /\ call.via = "signed" ->
         Resume(LoadKey(hmacState[w], RawBlock(call.key)), f)
    [] call.key # Unset /\ call.via = "session" ->
         DerivedTag(EmptySubkey, hmacState[w], call.key, SessionLabel(sid), f)
    [] OTHER -> DerivedTag(subkeyCache[w], hmacState[w], call.key, call.label, f)

SealFrame(w, sid, s, f) ==
  /\ ~ Idle(w) /\ Top(w).op = "serialize"
  /\ ~ Reading(s)
  /\ Pop(w)
  /\ answer' = Refused
  /\ LET call == Top(w) IN
     /\ CASE call.key = Unset        -> UNCHANGED caches
          [] call.key # Unset /\ call.via = "signed"  -> TagSigned(w, call.key)
          [] call.key # Unset /\ call.via = "session" ->
               TagSession(w, call.key, SessionLabel(sid))
          [] OTHER                   -> TagKeyed(w, call.key, call.label)
     /\ \/ /\ ops \/ call.key = Unset
           /\ store' = [store EXCEPT ![s] = Blob(f, TagComputed(w, call, sid, f))]
           /\ issued' = issued \cup {<<Seals(w, call, sid), f>>}
        \/ /\ (~ ops /\ call.key # Unset) \/ call.via = "api"
           /\ UNCHANGED <<store, issued>>
  /\ UNCHANGED <<ini, ops, made, events>>

-----------------------------------------------------------------------------
(* Unserializing: the tag is checked before anything is decoded.            *)

(* The caller gets the frame of blob b only if its tag is t and it decodes; *)
(* its hooks, autoloaders or classes may still make the decode fail.        *)
Deliver(b, t, seal) ==
  \/ b.tag = t /\ b.frame \notin Malformed /\ answer' = Got(b.frame, seal)
  \/ answer' = Refused

(* phpser_keyed_decode with a key. *)
DecodeKeyed(w, key, label, s) ==
  /\ TagKeyed(w, key, label)
  /\ IF ops
     THEN Deliver(store[s],
                  DerivedTag(subkeyCache[w], hmacState[w], key, label, store[s].frame),
                  KeyedSeal(key, label))
     ELSE answer' = Refused

(* A blob that carries no tag may be too short to hold one, and is refused  *)
(* before the caches are touched; a longer one is compared like any other.  *)
MayBeTooShort(s) == store[s].tag = NoTag

(* phpser_api_unserialize, APCu's fetch. *)
UnserializeApi(w, c, s) ==
  /\ MayCall(w)
  /\ store[s] # NoBlob
  /\ LET key == ini[w].key IN
     \/ /\ ContextValid(c) /\ KeyOK(key)
        /\ DecodeKeyed(w, key, ContextLabel(c), s)
     \/ /\ ContextValid(c) /\ key = Unset
        /\ Lookup(w)
        /\ Deliver(store[s], NoTag, PlainSeal)
     \/ /\ ~ ContextValid(c) /\ UNCHANGED caches /\ answer' = Refused
     \/ /\ ContextValid(c) /\ (key \in ShortKeys \/ (KeyOK(key) /\ MayBeTooShort(s)))
        /\ Lookup(w) /\ answer' = Refused
  /\ UNCHANGED <<store, ini, ops, calls, issued, events>>

(* phpser_unserialize_keyed: between the lookup and the check, the options  *)
(* are read.                                                                *)
UnserializeKeyed(w, c, s) ==
  /\ MayCall(w)
  /\ store[s] # NoBlob
  /\ answer' = Refused
  /\ IF ContextValid(c) THEN Lookup(w) ELSE UNCHANGED caches
  /\ IF ContextValid(c) /\ KeyOK(ini[w].key)
     THEN Push(w, [op |-> "unserialize", key |-> ini[w].key,
                   label |-> ContextLabel(c), slot |-> s])
     ELSE UNCHANGED calls
  /\ UNCHANGED <<store, ini, ops, issued, events>>

OptionsRead(w) ==
  /\ ~ Idle(w) /\ Top(w).op = "unserialize"
  /\ Pop(w)
  /\ LET call == Top(w) IN
     \/ DecodeKeyed(w, call.key, call.label, call.slot)
     \/ UNCHANGED caches /\ answer' = Refused    \* bad options, or no tag
  /\ UNCHANGED <<store, ini, ops, issued, made, events>>

(* phpser_unserialize_signed. *)
UnserializeSigned(w, key, s) ==
  /\ MayCall(w)
  /\ store[s] # NoBlob
  /\ \/ /\ key = Unset \/ MayBeTooShort(s)
        /\ UNCHANGED caches /\ answer' = Refused
     \/ /\ key # Unset
        /\ TagSigned(w, key)
        /\ \/ ops /\ Deliver(store[s],
                              Resume(LoadKey(hmacState[w], RawBlock(key)), store[s].frame),
                              SignedSeal(key))
           \/ answer' = Refused          \* bad options, no operations
  /\ UNCHANGED <<store, ini, ops, calls, issued, events>>

(* The session decoder on a blob that is neither empty nor the marker. *)
UnserializeSession(w, sid, s) ==
  /\ MayCall(w)
  /\ store[s] # NoBlob
  /\ LET key == ini[w].session IN
     \/ /\ KeyOK(key)
        /\ TagSession(w, key, SessionLabel(sid))
        /\ IF ops
           THEN Deliver(store[s],
                        DerivedTag(EmptySubkey, hmacState[w], key, SessionLabel(sid),
                                   store[s].frame),
                        SessionSeal(key, sid))
           ELSE answer' = Refused
     \/ /\ key = Unset /\ UNCHANGED caches
        /\ Deliver(store[s], NoTag, PlainSeal)
     \/ /\ key \in ShortKeys \/ (KeyOK(key) /\ MayBeTooShort(s))
        /\ UNCHANGED caches /\ answer' = Refused
  /\ UNCHANGED <<store, ini, ops, calls, issued, events>>

-----------------------------------------------------------------------------
(* The environment.                                                         *)

Event == events < MaxEvents /\ events' = events + 1

(* PHP_INI_SYSTEM | PHP_INI_PERDIR: only between requests. *)
Configure(w, config) ==
  /\ Event
  /\ Idle(w)
  /\ ini' = [ini EXCEPT ![w] = config]
  /\ derived' = [derived EXCEPT ![w] = FALSE]
  /\ answer' = Refused
  /\ UNCHANGED <<store, ops, subkeyCache, hmacState, calls, issued, made>>

(* MSHUTDOWN wipes both caches; the next process starts with none. *)
Restart(w) ==
  /\ Event
  /\ Idle(w)
  /\ subkeyCache' = [subkeyCache EXCEPT ![w] = EmptySubkey]
  /\ hmacState' = [hmacState EXCEPT ![w] = EmptyMidstate]
  /\ answer' = Refused
  /\ UNCHANGED <<store, ini, ops, calls, issued, derived, made>>

StoreDamaged(s) ==
  /\ Event
  /\ ~ Reading(s)
  /\ Damage(s)
  /\ UNCHANGED <<ini, ops, caches, calls, issued, made>>

InitKeyed ==
  /\ Init
  /\ ini \in [Worker -> Configs]
  /\ ops \in BOOLEAN
  /\ subkeyCache = [w \in Worker |-> EmptySubkey]
  /\ hmacState = [w \in Worker |-> EmptyMidstate]
  /\ calls = [w \in Worker |-> <<>>]
  /\ issued = {}
  /\ derived = [w \in Worker |-> FALSE]
  /\ made = 0 /\ events = 0

NextKeyed ==
  \/ \E w \in Worker, c \in Context :
       \/ \E via \in {"api", "keyed"} : SerializeKeyed(w, via, c)
       \/ \E s \in Slot : UnserializeApi(w, c, s) \/ UnserializeKeyed(w, c, s)
  \/ \E w \in Worker, key \in MaybeKey :
       \/ SerializeSigned(w, key)
       \/ \E s \in Slot : UnserializeSigned(w, key, s)
  \/ \E w \in Worker, sid \in SessionId, s \in Slot :
       \/ UnserializeSession(w, sid, s)
       \/ \E f \in Frame \ Malformed : SealFrame(w, sid, s, f)
  \/ \E w \in Worker, config \in Configs : Configure(w, config)
  \/ \E w \in Worker : SerializeSession(w) \/ EncodeFails(w) \/ OptionsRead(w) \/ Restart(w)
  \/ \E s \in Slot : StoreDamaged(s)

SpecKeyed == InitKeyed /\ [][NextKeyed]_vars

-----------------------------------------------------------------------------
(* Properties.                                                              *)

(* What the caches hold is what a computation would give: a stale entry is  *)
(* never used because no entry is ever stale.                               *)
CachesSound ==
  \A w \in Worker :
    /\ subkeyCache[w].valid =>
         subkeyCache[w].subkey = Mac(RawBlock(subkeyCache[w].key), subkeyCache[w].label)
    /\ hmacState[w].valid => hmacState[w].mid = hmacState[w].block

KeyedInv == TypeOK /\ CachesSound

(* The layer refines the store of sealed frames: through any nesting of     *)
(* calls, change of keys and damage, every tag written and every tag        *)
(* compared is the one of the seal asked for.                               *)
ImplementsSealedStore == Spec

(* What a keyed, signed or session fetch hands out was issued under that    *)
(* very seal: not unsigned, not under another key, not for another context, *)
(* session or purpose.                                                      *)
FetchedWasIssued ==
  answer.ok /\ answer.seal.kind # "plain" => <<answer.seal, answer.frame>> \in issued

(* Once a thread needed the subkey of its configured key, or found none     *)
(* usable, the key configured before is gone from the subkey cache.         *)
RetiredKeyGone ==
  \A w \in Worker :
    derived[w] /\ subkeyCache[w].valid => subkeyCache[w].key = ini[w].key
=============================================================================
