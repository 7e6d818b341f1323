-------------------------- MODULE KeyedStoreProofs --------------------------
(***************************************************************************)
(* The caches of the keyed layer are transparent, for any keys, contexts,  *)
(* threads and nesting: the layer implements the store of sealed frames.   *)
(***************************************************************************)
EXTENDS KeyedStore, TLAPS

SubkeyEntries   == CachedSubkey \cup {EmptySubkey}
MidstateEntries == Midstate \cup {EmptyMidstate}

SoundSubkey(c)    == c.valid => c.subkey = Mac(RawBlock(c.key), c.label)
SoundMidstate(hs) == hs.valid => hs.mid = hs.block

(* The part of the invariant about the caches. *)
CachesOK ==
  /\ subkeyCache \in [Worker -> SubkeyEntries]
  /\ hmacState \in [Worker -> MidstateEntries]
  /\ derived \in [Worker -> BOOLEAN]
  /\ \A w \in Worker : SoundSubkey(subkeyCache[w]) /\ SoundMidstate(hmacState[w])

(* The rest of it. *)
RestOK ==
  /\ ini \in [Worker -> [key : MaybeKey, session : MaybeKey]]
  /\ ops \in BOOLEAN
  /\ calls \in [Worker -> Seq(Call)]

(* The invariant is the conjunction of its two parts. *)
LEMMA KeyedInvParts ==
  /\ KeyedInv <=> CachesOK /\ RestOK
  /\ KeyedInv' <=> CachesOK' /\ RestOK'
BY DEF KeyedInv, TypeOK, CachesSound, CachesOK, RestOK, SoundSubkey, SoundMidstate,
       SubkeyEntries, MidstateEntries

-----------------------------------------------------------------------------
(* Loading a key leaves midstates of that key, whatever was there before.   *)
LEMMA LoadKeyIsExact ==
  ASSUME NEW hs \in MidstateEntries, NEW block \in KeyBlocks, SoundMidstate(hs)
  PROVE  /\ LoadKey(hs, block) \in MidstateEntries
         /\ SoundMidstate(LoadKey(hs, block))
         /\ LoadKey(hs, block).mid = block
BY DEF LoadKey, MidstateEntries, Midstate, EmptyMidstate, SoundMidstate

(* The empty entries are entries, and sound. *)
LEMMA EmptyEntries ==
  /\ EmptySubkey \in SubkeyEntries /\ SoundSubkey(EmptySubkey)
  /\ EmptyMidstate \in MidstateEntries /\ SoundMidstate(EmptyMidstate)
BY DEF SubkeyEntries, MidstateEntries, EmptySubkey, EmptyMidstate, SoundSubkey, SoundMidstate

(* The subkey, from the cache or derived, is the one of key and label.      *)
LEMMA SubkeyIsExact ==
  ASSUME NEW c \in SubkeyEntries, NEW hs \in MidstateEntries,
         NEW key \in Key, NEW label \in Label,
         SoundSubkey(c), SoundMidstate(hs)
  PROVE  /\ AfterDerivation(c, hs, key, label) \in MidstateEntries
         /\ SoundMidstate(AfterDerivation(c, hs, key, label))
         /\ SubkeyOf(c, hs, key, label) = Mac(RawBlock(key), label)
         /\ SubkeyOf(c, hs, key, label) \in Subkey
<1>1. RawBlock(key) \in KeyBlocks
  BY DEF KeyBlocks
<1>2. Mac(RawBlock(key), label) \in Subkey
  BY DEF Subkey
<1>3. CASE Hit(c, key, label)
  BY <1>3, <1>2 DEF Hit, AfterDerivation, SubkeyOf, SoundSubkey
<1>4. CASE ~ Hit(c, key, label)
  <2>1. AfterDerivation(c, hs, key, label) = LoadKey(hs, RawBlock(key))
    BY <1>4 DEF AfterDerivation
  <2>2. SubkeyOf(c, hs, key, label) = Mac(LoadKey(hs, RawBlock(key)).mid, label)
    BY <1>4, <2>1 DEF SubkeyOf, Resume
  <2> QED BY <1>1, <1>2, <2>1, <2>2, LoadKeyIsExact
<1> QED BY <1>3, <1>4

(* So is the tag computed with it.                                          *)
LEMMA DerivedTagIsExact ==
  ASSUME NEW c \in SubkeyEntries, NEW hs \in MidstateEntries,
         NEW key \in Key, NEW label \in Label, NEW f,
         SoundSubkey(c), SoundMidstate(hs)
  PROVE  /\ AfterDerivedTag(c, hs, key, label) \in MidstateEntries
         /\ SoundMidstate(AfterDerivedTag(c, hs, key, label))
         /\ DerivedTag(c, hs, key, label, f) = Mac(Mac(RawBlock(key), label), f)
<1> DEFINE sk == SubkeyOf(c, hs, key, label)
           h1 == AfterDerivation(c, hs, key, label)
<1>1. sk = Mac(RawBlock(key), label) /\ sk \in KeyBlocks
      /\ h1 \in MidstateEntries /\ SoundMidstate(h1)
  BY SubkeyIsExact DEF KeyBlocks
<1>2. /\ LoadKey(h1, sk) \in MidstateEntries
      /\ SoundMidstate(LoadKey(h1, sk))
      /\ LoadKey(h1, sk).mid = sk
  <2> HIDE DEF sk, h1
  <2> QED BY <1>1, LoadKeyIsExact
<1> QED BY <1>1, <1>2 DEF AfterDerivedTag, DerivedTag, Resume

(* What a miss leaves in the subkey cache is an entry, and sound.           *)
LEMMA CacheAfterIsSound ==
  ASSUME NEW c \in SubkeyEntries, NEW hs \in MidstateEntries,
         NEW key \in Key, NEW label \in Label,
         SoundSubkey(c), SoundMidstate(hs)
  PROVE  /\ CacheAfter(c, hs, key, label) \in SubkeyEntries
         /\ SoundSubkey(CacheAfter(c, hs, key, label))
<1> DEFINE sk == SubkeyOf(c, hs, key, label)
<1>1. sk = Mac(RawBlock(key), label) /\ sk \in Subkey
  BY SubkeyIsExact
<1> HIDE DEF sk
<1>2. CASE Hit(c, key, label)
  BY <1>2 DEF CacheAfter
<1>3. CASE ~ Hit(c, key, label) /\ ops /\ Cacheable(key)
  <2>1. CacheAfter(c, hs, key, label)
          = [valid |-> TRUE, key |-> key, label |-> label, subkey |-> sk]
    BY <1>3 DEF CacheAfter, sk
  <2> QED BY <2>1, <1>3, <1>1 DEF Cacheable, SubkeyEntries, CachedSubkey, SoundSubkey
<1>4. CASE ~ Hit(c, key, label) /\ ~ (ops /\ Cacheable(key))
  BY <1>4, EmptyEntries DEF CacheAfter
<1> QED BY <1>2, <1>3, <1>4

-----------------------------------------------------------------------------
(* Each way of using the caches keeps them sound.                           *)

(* A keyed tag.                                                             *)
LEMMA TagKeyedKeeps ==
  ASSUME CachesOK, NEW w \in Worker, NEW key \in Key, NEW label \in Label,
         TagKeyed(w, key, label)
  PROVE  CachesOK'
<1>1. /\ subkeyCache[w] \in SubkeyEntries /\ SoundSubkey(subkeyCache[w])
      /\ hmacState[w] \in MidstateEntries /\ SoundMidstate(hmacState[w])
  BY DEF CachesOK
<1> DEFINE c == CacheAfter(subkeyCache[w], hmacState[w], key, label)
           h == AfterDerivedTag(subkeyCache[w], hmacState[w], key, label)
<1>2. c \in SubkeyEntries /\ SoundSubkey(c)
  BY <1>1, CacheAfterIsSound
<1>3. h \in MidstateEntries /\ SoundMidstate(h)
  BY <1>1, DerivedTagIsExact
<1>4. subkeyCache' = [subkeyCache EXCEPT ![w] = c]
  BY DEF TagKeyed
<1>5. hmacState' = [hmacState EXCEPT ![w] = h] \/ hmacState' = hmacState
  BY DEF TagKeyed
<1>6. derived' = [derived EXCEPT ![w] = TRUE]
  BY DEF TagKeyed
<1> HIDE DEF c, h
<1> QED BY <1>2, <1>3, <1>4, <1>5, <1>6 DEF CachesOK

(* A session tag.                                                           *)
LEMMA TagSessionKeeps ==
  ASSUME CachesOK, NEW w \in Worker, NEW key \in Key, NEW label \in Label,
         TagSession(w, key, label)
  PROVE  CachesOK'
<1>1. hmacState[w] \in MidstateEntries /\ SoundMidstate(hmacState[w])
  BY DEF CachesOK
<1> DEFINE h == AfterDerivedTag(EmptySubkey, hmacState[w], key, label)
<1>2. h \in MidstateEntries /\ SoundMidstate(h)
  BY <1>1, EmptyEntries, DerivedTagIsExact
<1>3. /\ hmacState' = [hmacState EXCEPT ![w] = h] \/ hmacState' = hmacState
      /\ subkeyCache' = subkeyCache /\ derived' = derived
  BY DEF TagSession
<1> HIDE DEF h
<1> QED BY <1>2, <1>3 DEF CachesOK

(* A signed tag.                                                            *)
LEMMA TagSignedKeeps ==
  ASSUME CachesOK, NEW w \in Worker, NEW key \in Key, TagSigned(w, key)
  PROVE  CachesOK'
<1>1. hmacState[w] \in MidstateEntries /\ SoundMidstate(hmacState[w])
  BY DEF CachesOK
<1> DEFINE h == LoadKey(hmacState[w], RawBlock(key))
<1>2. h \in MidstateEntries /\ SoundMidstate(h)
  BY <1>1, LoadKeyIsExact DEF KeyBlocks
<1>3. /\ hmacState' = [hmacState EXCEPT ![w] = h] \/ hmacState' = hmacState
      /\ subkeyCache' = subkeyCache /\ derived' = derived
  BY DEF TagSigned
<1> HIDE DEF h
<1> QED BY <1>2, <1>3 DEF CachesOK

(* A lookup.                                                                *)
LEMMA LookupKeeps ==
  ASSUME CachesOK, NEW w \in Worker, Lookup(w)
  PROVE  CachesOK'
<1>1. CASE UNCHANGED caches
  BY <1>1 DEF caches, CachesOK
<1>2. CASE /\ subkeyCache' = [subkeyCache EXCEPT ![w] = EmptySubkey]
           /\ derived' = [derived EXCEPT ![w] = TRUE]
           /\ UNCHANGED hmacState
  BY <1>2, EmptyEntries DEF CachesOK
<1> QED BY <1>1, <1>2 DEF Lookup

(* And not using them.                                                      *)
LEMMA UnchangedKeeps ==
  ASSUME CachesOK, UNCHANGED caches
  PROVE  CachesOK'
BY DEF caches, CachesOK

-----------------------------------------------------------------------------
(* Every action keeps the invariant.                                        *)

(* The call on top of a stack is a call, and so is what remains.            *)
LEMMA StackTop ==
  ASSUME RestOK, NEW w \in Worker, ~ Idle(w)
  PROVE  Top(w) \in Call /\ (Pop(w) => calls' \in [Worker -> Seq(Call)])
<1> DEFINE q == calls[w]
<1>1. calls \in [Worker -> Seq(Call)] /\ q \in Seq(Call) /\ q # <<>>
  BY DEF RestOK, Idle
<1>2. Len(q) \in Nat \ {0} /\ q[Len(q)] \in Call
  <2> HIDE DEF q
  <2> QED BY <1>1
<1>3. SubSeq(q, 1, Len(q) - 1) \in Seq(Call)
  <2> HIDE DEF q
  <2> QED BY <1>1, <1>2
<1> HIDE DEF q
<1>4. Top(w) = q[Len(q)] BY DEF Top, q
<1>5. Pop(w) => calls' = [calls EXCEPT ![w] = SubSeq(q, 1, Len(q) - 1)]
  BY DEF Pop, q
<1> QED BY <1>1, <1>2, <1>3, <1>4, <1>5

(* Pushing a call keeps the stacks.                                         *)
LEMMA StackPush ==
  ASSUME RestOK, NEW w \in Worker, NEW call \in Call, Push(w, call)
  PROVE  calls' \in [Worker -> Seq(Call)]
<1>1. calls \in [Worker -> Seq(Call)] /\ calls[w] \in Seq(Call)
  BY DEF RestOK
<1>2. Append(calls[w], call) \in Seq(Call)
  BY <1>1
<1> QED BY <1>1, <1>2 DEF Push

(* The fields a call has.                                                   *)
LEMMA CallFields ==
  ASSUME NEW call \in Call
  PROVE  /\ call.key \in MaybeKey
         /\ call.op = "serialize" /\ call.via \notin {"signed", "session"}
              => call.label \in KeyedLabel
         /\ call.op = "unserialize" => call.key \in Key /\ call.label \in KeyedLabel
BY DEF Call, MaybeKey

(* The labels in use are labels.                                            *)
LEMMA Labels ==
  /\ KeyedLabel \subseteq Label
  /\ \A sid \in SessionId : SessionLabel(sid) \in Label
  /\ \A c \in Context : ContextValid(c) => ContextLabel(c) \in KeyedLabel
BY TermsAssumption DEF KeyedLabel, GoodContext, ContextLabel, SessionLabel, Label,
                       ContextValid

(* A usable key is a key.                                                   *)
LEMMA UsableKey ==
  \A k \in MaybeKey : (KeyOK(k) => k \in Key) /\ (k # Unset => k \in Key)
BY DEF MaybeKey, KeyOK

(* The initial states satisfy the invariant.                                *)
LEMMA InitKeepsInv == InitKeyed => KeyedInv
<1> SUFFICES ASSUME InitKeyed PROVE CachesOK /\ RestOK
  BY KeyedInvParts
<1>1. CachesOK
  BY EmptyEntries DEF InitKeyed, CachesOK
<1>2. RestOK
  BY ConfigsAssumption DEF InitKeyed, RestOK, MaybeKey
<1> QED BY <1>1, <1>2

(* An action that uses the caches in one of the five ways keeps them.       *)
LEMMA DecodeKeyedKeeps ==
  ASSUME CachesOK, NEW w \in Worker, NEW key \in Key, NEW label \in Label, NEW s,
         DecodeKeyed(w, key, label, s)
  PROVE  CachesOK'
BY TagKeyedKeeps DEF DecodeKeyed

(* Every step keeps the caches sound and the rest typed.                    *)
LEMMA StepKeepsInv == KeyedInv /\ [NextKeyed]_vars => KeyedInv'
<1> SUFFICES ASSUME CachesOK, RestOK, [NextKeyed]_vars
             PROVE  CachesOK' /\ RestOK'
  BY KeyedInvParts
<1> USE DEF GoodContext
<1>ini. \A w \in Worker : ini[w].key \in MaybeKey /\ ini[w].session \in MaybeKey
  BY DEF RestOK
<1>1. ASSUME NEW w \in Worker, NEW c \in Context, NEW via \in {"api", "keyed"},
             SerializeKeyed(w, via, c)
      PROVE  CachesOK' /\ RestOK'
  <2>1. CachesOK'
    BY <1>1, LookupKeeps, UnchangedKeeps DEF SerializeKeyed
  <2>2. calls' \in [Worker -> Seq(Call)]
    <3> DEFINE call == [op |-> "serialize", via |-> via, key |-> ini[w].key,
                        label |-> ContextLabel(c)]
    <3>1. CASE ContextValid(c)
      <4>1. call \in Call
        BY <3>1, <1>1, <1>ini, Labels DEF Call
      <4>2. Push(w, call) \/ UNCHANGED calls
        BY <1>1 DEF SerializeKeyed
      <4> HIDE DEF call
      <4> QED BY <4>1, <4>2, StackPush DEF RestOK
    <3>2. CASE ~ ContextValid(c)
      BY <3>2, <1>1 DEF SerializeKeyed, RestOK
    <3> QED BY <3>1, <3>2
  <2> QED BY <2>1, <2>2, <1>1 DEF SerializeKeyed, RestOK
<1>2. ASSUME NEW w \in Worker, NEW c \in Context, NEW s \in Slot, UnserializeApi(w, c, s)
      PROVE  CachesOK' /\ RestOK'
  <2>1. CachesOK'
    BY <1>2, <1>ini, Labels, UsableKey, DecodeKeyedKeeps, LookupKeeps, UnchangedKeeps
       DEF UnserializeApi
  <2> QED BY <2>1, <1>2 DEF UnserializeApi, RestOK
<1>3. ASSUME NEW w \in Worker, NEW c \in Context, NEW s \in Slot, UnserializeKeyed(w, c, s)
      PROVE  CachesOK' /\ RestOK'
  <2>1. CachesOK'
    BY <1>3, LookupKeeps, UnchangedKeeps DEF UnserializeKeyed
  <2>2. calls' \in [Worker -> Seq(Call)]
    <3> DEFINE call == [op |-> "unserialize", key |-> ini[w].key,
                        label |-> ContextLabel(c), slot |-> s]
    <3>1. CASE ContextValid(c) /\ KeyOK(ini[w].key)
      <4>1. call \in Call
        BY <3>1, <1>3, <1>ini, Labels, UsableKey DEF Call
      <4>2. Push(w, call)
        BY <1>3, <3>1 DEF UnserializeKeyed
      <4> HIDE DEF call
      <4> QED BY <4>1, <4>2, StackPush
    <3>2. CASE ~ (ContextValid(c) /\ KeyOK(ini[w].key))
      BY <3>2, <1>3 DEF UnserializeKeyed, RestOK
    <3> QED BY <3>1, <3>2
  <2> QED BY <2>1, <2>2, <1>3 DEF UnserializeKeyed, RestOK
<1>4. ASSUME NEW w \in Worker, NEW key \in MaybeKey, SerializeSigned(w, key)
      PROVE  CachesOK' /\ RestOK'
  <2>1. CachesOK'
    BY <1>4, UnchangedKeeps DEF SerializeSigned, caches
  <2>2. calls' \in [Worker -> Seq(Call)]
    <3> DEFINE call == [op |-> "serialize", via |-> "signed", key |-> key]
    <3>1. call \in Call
      BY <1>4 DEF Call
    <3>2. Push(w, call) \/ UNCHANGED calls
      BY <1>4 DEF SerializeSigned
    <3> HIDE DEF call
    <3> QED BY <3>1, <3>2, StackPush DEF RestOK
  <2> QED BY <2>1, <2>2, <1>4 DEF SerializeSigned, RestOK
<1>5. ASSUME NEW w \in Worker, NEW key \in MaybeKey, NEW s \in Slot,
             UnserializeSigned(w, key, s)
      PROVE  CachesOK' /\ RestOK'
  <2>1. CachesOK'
    BY <1>5, UsableKey, TagSignedKeeps, UnchangedKeeps DEF UnserializeSigned
  <2> QED BY <2>1, <1>5 DEF UnserializeSigned, RestOK
<1>6. ASSUME NEW w \in Worker, NEW config \in Configs, Configure(w, config)
      PROVE  CachesOK' /\ RestOK'
  <2>1. CachesOK'
    BY <1>6 DEF Configure, CachesOK
  <2>2. config \in [key : MaybeKey, session : MaybeKey]
    BY ConfigsAssumption DEF MaybeKey
  <2> QED BY <2>1, <2>2, <1>6 DEF Configure, RestOK
<1>7. ASSUME NEW w \in Worker, NEW sid \in SessionId, NEW s \in Slot,
             UnserializeSession(w, sid, s)
      PROVE  CachesOK' /\ RestOK'
  <2>1. CachesOK'
    BY <1>7, <1>ini, Labels, UsableKey, TagSessionKeeps, UnchangedKeeps
       DEF UnserializeSession
  <2> QED BY <2>1, <1>7 DEF UnserializeSession, RestOK
<1>8. ASSUME NEW w \in Worker, NEW sid \in SessionId, NEW s \in Slot, NEW f \in Frame,
             SealFrame(w, sid, s, f)
      PROVE  CachesOK' /\ RestOK'
  <2>1. /\ Top(w) \in Call /\ Top(w).op = "serialize"
        /\ calls' \in [Worker -> Seq(Call)]
    BY <1>8, StackTop DEF SealFrame
  <2>2. CachesOK'
    <3>1. CASE Top(w).key = Unset
      BY <3>1, <1>8, UnchangedKeeps DEF SealFrame
    <3>2. CASE Top(w).key # Unset /\ Top(w).via = "signed"
      BY <3>2, <2>1, <1>8, CallFields, UsableKey, TagSignedKeeps DEF SealFrame
    <3>3. CASE Top(w).key # Unset /\ Top(w).via = "session"
      BY <3>3, <2>1, <1>8, CallFields, UsableKey, Labels, TagSessionKeeps DEF SealFrame
    <3>4. CASE Top(w).key # Unset /\ Top(w).via \notin {"signed", "session"}
      BY <3>4, <2>1, <1>8, CallFields, UsableKey, Labels, TagKeyedKeeps DEF SealFrame
    <3> QED BY <3>1, <3>2, <3>3, <3>4
  <2> QED BY <2>1, <2>2, <1>8 DEF SealFrame, RestOK
<1>9. ASSUME NEW w \in Worker, SerializeSession(w)
      PROVE  CachesOK' /\ RestOK'
  <2>1. CachesOK'
    BY <1>9, UnchangedKeeps DEF SerializeSession, caches
  <2>2. calls' \in [Worker -> Seq(Call)]
    <3> DEFINE call == [op |-> "serialize", via |-> "session", key |-> ini[w].session]
    <3>1. call \in Call
      BY <1>9, <1>ini DEF Call
    <3>2. Push(w, call) \/ UNCHANGED calls
      BY <1>9 DEF SerializeSession
    <3> HIDE DEF call
    <3> QED BY <3>1, <3>2, StackPush DEF RestOK
  <2> QED BY <2>1, <2>2, <1>9 DEF SerializeSession, RestOK
<1>10. ASSUME NEW w \in Worker, EncodeFails(w)
       PROVE  CachesOK' /\ RestOK'
  BY <1>10, StackTop, UnchangedKeeps DEF EncodeFails, RestOK
<1>11. ASSUME NEW w \in Worker, OptionsRead(w)
       PROVE  CachesOK' /\ RestOK'
  <2>1. /\ Top(w) \in Call /\ Top(w).op = "unserialize"
        /\ calls' \in [Worker -> Seq(Call)]
    BY <1>11, StackTop DEF OptionsRead
  <2>2. CachesOK'
    BY <2>1, <1>11, CallFields, Labels, DecodeKeyedKeeps, UnchangedKeeps DEF OptionsRead
  <2> QED BY <2>1, <2>2, <1>11 DEF OptionsRead, RestOK
<1>12. ASSUME NEW w \in Worker, Restart(w)
       PROVE  CachesOK' /\ RestOK'
  BY <1>12, EmptyEntries DEF Restart, CachesOK, RestOK
<1>13. ASSUME NEW s \in Slot, StoreDamaged(s)
       PROVE  CachesOK' /\ RestOK'
  BY <1>13, UnchangedKeeps DEF StoreDamaged, RestOK
<1>14. CASE UNCHANGED vars
  BY <1>14, UnchangedKeeps DEF vars, caches, RestOK
<1> QED BY <1>1, <1>2, <1>3, <1>4, <1>5, <1>6, <1>7, <1>8, <1>9, <1>10, <1>11, <1>12,
           <1>13, <1>14 DEF NextKeyed

(* Nothing in the caches is ever stale: cached subkeys and midstates are    *)
(* those a fresh computation gives (phpser_keyed_subkey, hmac_load_key).    *)
THEOREM CachesAreSound == SpecKeyed => []KeyedInv
BY InitKeepsInv, StepKeepsInv, PTL DEF SpecKeyed

-----------------------------------------------------------------------------
(* The layer implements the store of sealed frames.                         *)

(* Tags, however they are computed, are the tags of their seals.            *)
LEMMA TagsAreOfSeals ==
  ASSUME CachesOK, NEW w \in Worker, NEW key \in Key, NEW f
  PROVE  /\ \A label \in KeyedLabel :
              /\ DerivedTag(subkeyCache[w], hmacState[w], key, label, f)
                   = Tag(KeyedSeal(key, label), f)
              /\ KeyedSeal(key, label) \in Seal
         /\ \A sid \in SessionId :
              /\ DerivedTag(EmptySubkey, hmacState[w], key, SessionLabel(sid), f)
                   = Tag(SessionSeal(key, sid), f)
              /\ SessionSeal(key, sid) \in Seal
         /\ Resume(LoadKey(hmacState[w], RawBlock(key)), f) = Tag(SignedSeal(key), f)
         /\ SignedSeal(key) \in Seal
<1>1. /\ subkeyCache[w] \in SubkeyEntries /\ SoundSubkey(subkeyCache[w])
      /\ hmacState[w] \in MidstateEntries /\ SoundMidstate(hmacState[w])
  BY DEF CachesOK
<1>2. ASSUME NEW label \in KeyedLabel
      PROVE  /\ DerivedTag(subkeyCache[w], hmacState[w], key, label, f)
                  = Tag(KeyedSeal(key, label), f)
             /\ KeyedSeal(key, label) \in Seal
  <2>1. DerivedTag(subkeyCache[w], hmacState[w], key, label, f)
          = Mac(Mac(RawBlock(key), label), f)
    BY <1>1, <1>2, Labels, DerivedTagIsExact
  <2>2. Tag(KeyedSeal(key, label), f) = Mac(Mac(RawBlock(key), label), f)
    BY DEF Tag, KeyedSeal
  <2> QED BY <2>1, <2>2 DEF Seal
<1>3. ASSUME NEW sid \in SessionId
      PROVE  /\ DerivedTag(EmptySubkey, hmacState[w], key, SessionLabel(sid), f)
                  = Tag(SessionSeal(key, sid), f)
             /\ SessionSeal(key, sid) \in Seal
  <2>1. DerivedTag(EmptySubkey, hmacState[w], key, SessionLabel(sid), f)
          = Mac(Mac(RawBlock(key), SessionLabel(sid)), f)
    BY <1>1, <1>3, Labels, EmptyEntries, DerivedTagIsExact
  <2>2. Tag(SessionSeal(key, sid), f) = Mac(Mac(RawBlock(key), SessionLabel(sid)), f)
    BY DEF Tag, SessionSeal
  <2> QED BY <2>1, <2>2 DEF Seal
<1>4. /\ Resume(LoadKey(hmacState[w], RawBlock(key)), f) = Tag(SignedSeal(key), f)
      /\ SignedSeal(key) \in Seal
  <2>1. LoadKey(hmacState[w], RawBlock(key)).mid = RawBlock(key)
    BY <1>1, LoadKeyIsExact DEF KeyBlocks
  <2> QED BY <2>1 DEF Resume, Tag, SignedSeal, Seal
<1> QED BY <1>2, <1>3, <1>4

(* Delivering a blob against the tag of a seal is a fetch or a refusal.     *)
LEMMA DeliverIsFetch ==
  ASSUME NEW s \in Slot, NEW seal \in Seal, store[s] # NoBlob, UNCHANGED store,
         Deliver(store[s], Tag(seal, store[s].frame), seal)
  PROVE  Next
BY DEF Deliver, Next, Fetch, Refuse

(* A plain delivery too.                                                    *)
LEMMA PlainIsFetch ==
  ASSUME NEW s \in Slot, store[s] # NoBlob, UNCHANGED store,
         Deliver(store[s], NoTag, PlainSeal)
  PROVE  Next
<1>1. Tag(PlainSeal, store[s].frame) = NoTag /\ PlainSeal \in Seal
  BY DEF Tag, PlainSeal, Seal
<1> QED BY <1>1, DeliverIsFetch

(* And a keyed one.                                                         *)
LEMMA KeyedIsFetch ==
  ASSUME CachesOK, NEW w \in Worker, NEW key \in Key, NEW label \in KeyedLabel,
         NEW s \in Slot, store[s] # NoBlob, UNCHANGED store,
         DecodeKeyed(w, key, label, s)
  PROVE  Next
<1>1. CASE ops
  <2>1. Deliver(store[s],
                DerivedTag(subkeyCache[w], hmacState[w], key, label, store[s].frame),
                KeyedSeal(key, label))
    BY <1>1 DEF DecodeKeyed
  <2>2. /\ DerivedTag(subkeyCache[w], hmacState[w], key, label, store[s].frame)
             = Tag(KeyedSeal(key, label), store[s].frame)
        /\ KeyedSeal(key, label) \in Seal
    BY TagsAreOfSeals
  <2>3. Deliver(store[s], Tag(KeyedSeal(key, label), store[s].frame), KeyedSeal(key, label))
    BY <2>1, <2>2
  <2> QED BY <2>2, <2>3, DeliverIsFetch
<1>2. CASE ~ ops
  BY <1>2 DEF DecodeKeyed, Next, Refuse
<1> QED BY <1>1, <1>2

(* The tag a frame gets is the one of its seal.                             *)
LEMMA TagComputedIsOfSeal ==
  ASSUME CachesOK, RestOK, NEW w \in Worker, ~ Idle(w), Top(w).op = "serialize",
         NEW sid \in SessionId, NEW f
  PROVE  /\ TagComputed(w, Top(w), sid, f) = Tag(Seals(w, Top(w), sid), f)
         /\ Seals(w, Top(w), sid) \in Seal
<1> DEFINE call == Top(w)
           seal == Seals(w, call, sid)
<1>1. call \in Call /\ call.op = "serialize"
  BY StackTop
<1>2. TagComputed(w, call, sid, f) = Tag(seal, f) /\ seal \in Seal
  <2>1. CASE call.key = Unset
    BY <2>1 DEF TagComputed, Seals, Tag, PlainSeal, Seal
  <2>2. CASE call.key # Unset
    <3>1. call.key \in Key
      BY <2>2, <1>1, CallFields, UsableKey
    <3>2. CASE call.via = "signed"
      BY <3>1, <3>2, <2>2, TagsAreOfSeals DEF TagComputed, Seals
    <3>3. CASE call.via = "session"
      BY <3>1, <3>3, <2>2, TagsAreOfSeals DEF TagComputed, Seals
    <3>4. CASE call.via \notin {"signed", "session"}
      <4>1. call.label \in KeyedLabel
        BY <3>4, <1>1, CallFields
      <4>2. /\ TagComputed(w, call, sid, f)
                 = DerivedTag(subkeyCache[w], hmacState[w], call.key, call.label, f)
            /\ seal = KeyedSeal(call.key, call.label)
        BY <3>4, <2>2 DEF TagComputed, Seals
      <4> QED BY <4>1, <4>2, <3>1, TagsAreOfSeals
    <3> QED BY <3>2, <3>3, <3>4
  <2> QED BY <2>1, <2>2
<1> QED BY <1>2

(* What is stored is put under its seal.                                    *)
LEMMA SealIsPut ==
  ASSUME CachesOK, RestOK, NEW w \in Worker, NEW sid \in SessionId, NEW s \in Slot,
         NEW f \in Frame, SealFrame(w, sid, s, f)
  PROVE  Next
<1> DEFINE call == Top(w)
           seal == Seals(w, call, sid)
<1>2. TagComputed(w, call, sid, f) = Tag(seal, f) /\ seal \in Seal
  BY TagComputedIsOfSeal DEF SealFrame
<1>3. \/ store' = [store EXCEPT ![s] = Blob(f, TagComputed(w, call, sid, f))]
      \/ store' = store
  BY DEF SealFrame
<1>4. answer' = Refused
  BY DEF SealFrame
<1> HIDE DEF seal
<1>5. \/ store' = [store EXCEPT ![s] = Blob(f, Tag(seal, f))]
      \/ store' = store
  BY <1>2, <1>3
<1> QED BY <1>2, <1>4, <1>5 DEF Next, Put, Refuse

(* What the store holds: frames, with no tag or with one that was issued.   *)
StoreIssued ==
  /\ store \in [Slot -> {NoBlob} \cup
                 [frame : Frame, tag : {NoTag} \cup {Tag(p[1], p[2]) : p \in issued}]]
  /\ issued \subseteq Seal \X Frame

(* The payload of every call under way is still there.                      *)
PayloadsHeld ==
  \A w \in Worker : \A i \in 1 .. Len(calls[w]) :
    calls[w][i].op = "unserialize" => store[calls[w][i].slot] # NoBlob

(* A push or a pop changes the stacks so that every call of theirs was one  *)
(* before, or is the one pushed.                                            *)
LEMMA CallsAfter ==
  ASSUME RestOK, NEW w \in Worker,
         NEW call, Push(w, call) \/ (Pop(w) /\ ~ Idle(w)) \/ UNCHANGED calls
  PROVE  \A u \in Worker : \A i \in 1 .. Len(calls'[u]) :
           \/ i \in 1 .. Len(calls[u]) /\ calls'[u][i] = calls[u][i]
           \/ Push(w, call) /\ calls'[u][i] = call
<1> SUFFICES ASSUME NEW u \in Worker, NEW i \in 1 .. Len(calls'[u])
             PROVE  \/ i \in 1 .. Len(calls[u]) /\ calls'[u][i] = calls[u][i]
                    \/ Push(w, call) /\ calls'[u][i] = call
  OBVIOUS
<1>1. calls \in [Worker -> Seq(Call)] /\ calls[u] \in Seq(Call) /\ calls[w] \in Seq(Call)
  BY DEF RestOK
<1>2. CASE UNCHANGED calls
  BY <1>2
<1>3. CASE Push(w, call)
  <2>1. calls' = [calls EXCEPT ![w] = Append(calls[w], call)]
    BY <1>3 DEF Push
  <2>2. CASE u # w
    BY <2>1, <2>2, <1>1
  <2>3. CASE u = w
    <3> DEFINE q == calls[w]
    <3>1. calls'[u] = Append(q, call) /\ q \in Seq(Call)
      BY <2>1, <2>3, <1>1
    <3> HIDE DEF q
    <3>2. \/ i \in 1 .. Len(q) /\ Append(q, call)[i] = q[i]
          \/ Append(q, call)[i] = call
      BY <3>1
    <3> QED BY <3>1, <3>2, <2>3, <1>3 DEF q
  <2> QED BY <2>2, <2>3
<1>4. CASE Pop(w) /\ ~ Idle(w)
  <2>1. calls' = [calls EXCEPT ![w] = SubSeq(calls[w], 1, Len(calls[w]) - 1)]
    BY <1>4 DEF Pop
  <2>2. CASE u # w
    BY <2>1, <2>2, <1>1
  <2>3. CASE u = w
    <3> DEFINE q == calls[w]
    <3>1. calls'[u] = SubSeq(q, 1, Len(q) - 1) /\ q \in Seq(Call) /\ q # <<>>
      BY <2>1, <2>3, <1>1, <1>4 DEF Idle
    <3> HIDE DEF q
    <3>2. Len(q) \in Nat \ {0}
      BY <3>1
    <3>3. i \in 1 .. Len(q) /\ SubSeq(q, 1, Len(q) - 1)[i] = q[i]
      BY <3>1, <3>2
    <3> QED BY <3>1, <3>3, <2>3 DEF q
  <2> QED BY <2>2, <2>3
<1> QED BY <1>2, <1>3, <1>4

(* Payloads stay when the store changes only where nobody reads, and a call *)
(* is pushed on a payload that is there.                                    *)
LEMMA PayloadsStay ==
  ASSUME RestOK, PayloadsHeld, NEW w \in Worker,
         NEW call, Push(w, call) \/ (Pop(w) /\ ~ Idle(w)) \/ UNCHANGED calls,
         call.op = "unserialize" => store'[call.slot] # NoBlob,
         \A s \in Slot : Reading(s) => store'[s] = store[s]
  PROVE  PayloadsHeld'
<1> SUFFICES ASSUME NEW u \in Worker, NEW i \in 1 .. Len(calls'[u]),
                    calls'[u][i].op = "unserialize"
             PROVE  store'[calls'[u][i].slot] # NoBlob
  BY DEF PayloadsHeld
<1>1. CASE i \in 1 .. Len(calls[u]) /\ calls'[u][i] = calls[u][i]
  <2>1. store[calls[u][i].slot] # NoBlob /\ Reading(calls[u][i].slot)
    BY <1>1 DEF PayloadsHeld, Reading
  <2>2. calls[u][i] \in Call
    <3>1. calls[u] \in Seq(Call)
      BY DEF RestOK
    <3> QED BY <3>1, <1>1
  <2>3. calls[u][i].slot \in Slot
    BY <2>2, <1>1 DEF Call
  <2> QED BY <1>1, <2>1, <2>3
<1>2. CASE calls'[u][i] = call
  BY <1>2
<1>3. \/ i \in 1 .. Len(calls[u]) /\ calls'[u][i] = calls[u][i]
      \/ calls'[u][i] = call
  <2>1. Push(w, call) \/ (Pop(w) /\ ~ Idle(w)) \/ UNCHANGED calls
    OBVIOUS
  <2>2. \A v \in Worker : \A j \in 1 .. Len(calls'[v]) :
           \/ j \in 1 .. Len(calls[v]) /\ calls'[v][j] = calls[v][j]
           \/ Push(w, call) /\ calls'[v][j] = call
    BY <2>1, CallsAfter, Zenon
  <2> QED BY <2>2
<1> QED BY <1>1, <1>2, <1>3

(* Every step keeps the payloads.                                           *)
LEMMA StepKeepsPayloads ==
  ASSUME RestOK, StoreIssued, PayloadsHeld, [NextKeyed]_vars
  PROVE  PayloadsHeld'
<1> DEFINE none == [op |-> "none"]
<1>1. ASSUME NEW w \in Worker, NEW c \in Context, NEW via \in {"api", "keyed"},
             SerializeKeyed(w, via, c)
      PROVE  PayloadsHeld'
  <2> DEFINE call == [op |-> "serialize", via |-> via, key |-> ini[w].key,
                      label |-> ContextLabel(c)]
  <2>1. (Push(w, call) \/ UNCHANGED calls) /\ UNCHANGED store
    BY <1>1 DEF SerializeKeyed
  <2>2. call.op # "unserialize"
    OBVIOUS
  <2> HIDE DEF call
  <2> QED BY <2>1, <2>2, PayloadsStay
<1>2. ASSUME NEW w \in Worker, UNCHANGED <<store, calls>>
      PROVE  PayloadsHeld'
  BY <1>2 DEF PayloadsHeld
<1>3. ASSUME NEW w \in Worker, NEW c \in Context, NEW s \in Slot, UnserializeKeyed(w, c, s)
      PROVE  PayloadsHeld'
  <2> DEFINE call == [op |-> "unserialize", key |-> ini[w].key,
                      label |-> ContextLabel(c), slot |-> s]
  <2>1. /\ Push(w, call) \/ UNCHANGED calls
        /\ UNCHANGED store /\ store[s] # NoBlob
    BY <1>3 DEF UnserializeKeyed
  <2>2. call.slot = s
    OBVIOUS
  <2> HIDE DEF call
  <2> QED BY <2>1, <2>2, PayloadsStay
<1>4. ASSUME NEW w \in Worker, NEW key \in MaybeKey, SerializeSigned(w, key)
      PROVE  PayloadsHeld'
  <2> DEFINE call == [op |-> "serialize", via |-> "signed", key |-> key]
  <2>1. (Push(w, call) \/ UNCHANGED calls) /\ UNCHANGED store
    BY <1>4 DEF SerializeSigned
  <2>2. call.op # "unserialize"
    OBVIOUS
  <2> HIDE DEF call
  <2> QED BY <2>1, <2>2, PayloadsStay
<1>5. ASSUME NEW w \in Worker, SerializeSession(w)
      PROVE  PayloadsHeld'
  <2> DEFINE call == [op |-> "serialize", via |-> "session", key |-> ini[w].session]
  <2>1. (Push(w, call) \/ UNCHANGED calls) /\ UNCHANGED store
    BY <1>5 DEF SerializeSession
  <2>2. call.op # "unserialize"
    OBVIOUS
  <2> HIDE DEF call
  <2> QED BY <2>1, <2>2, PayloadsStay
<1>6. ASSUME NEW w \in Worker, EncodeFails(w) \/ OptionsRead(w)
      PROVE  PayloadsHeld'
  <2>1. Pop(w) /\ ~ Idle(w) /\ UNCHANGED store
    BY <1>6 DEF EncodeFails, OptionsRead
  <2> QED BY <2>1, PayloadsStay, none.op # "unserialize"
<1>7. ASSUME NEW w \in Worker, NEW sid \in SessionId, NEW s \in Slot, NEW f \in Frame,
             SealFrame(w, sid, s, f)
      PROVE  PayloadsHeld'
  <2>1. Pop(w) /\ ~ Idle(w) /\ ~ Reading(s)
    BY <1>7 DEF SealFrame
  <2>2. \A t \in Slot : t # s => store'[t] = store[t]
    BY <1>7 DEF SealFrame, StoreIssued
  <2> QED BY <2>1, <2>2, PayloadsStay, none.op # "unserialize"
<1>8. ASSUME NEW s \in Slot, StoreDamaged(s)
      PROVE  PayloadsHeld'
  <2>1. UNCHANGED calls /\ ~ Reading(s)
    BY <1>8 DEF StoreDamaged
  <2>2. \A t \in Slot : t # s => store'[t] = store[t]
    BY <1>8 DEF StoreDamaged, Damage, StoreIssued
  <2>3. \A w \in Worker : PayloadsHeld'
    BY <2>1, <2>2, PayloadsStay, none.op # "unserialize"
  <2>4. CASE Worker = {}
    BY <2>4 DEF PayloadsHeld
  <2> QED BY <2>3, <2>4
<1>9. CASE UNCHANGED vars
  BY <1>9 DEF vars, PayloadsHeld
<1>10. ASSUME NEW w \in Worker, NEW c \in Context, NEW s \in Slot, UnserializeApi(w, c, s)
       PROVE  PayloadsHeld'
  BY <1>10, <1>2 DEF UnserializeApi
<1>11. ASSUME NEW w \in Worker, NEW key \in MaybeKey, NEW s \in Slot,
              UnserializeSigned(w, key, s)
       PROVE  PayloadsHeld'
  BY <1>11, <1>2 DEF UnserializeSigned
<1>12. ASSUME NEW w \in Worker, NEW sid \in SessionId, NEW s \in Slot,
              UnserializeSession(w, sid, s)
       PROVE  PayloadsHeld'
  BY <1>12, <1>2 DEF UnserializeSession
<1>13. ASSUME NEW w \in Worker, NEW config \in Configs, Configure(w, config) \/ Restart(w)
       PROVE  PayloadsHeld'
  BY <1>13, <1>2 DEF Configure, Restart
<1>14. ASSUME NEW w \in Worker, Restart(w)
       PROVE  PayloadsHeld'
  BY <1>14, <1>2 DEF Restart
<1> QED BY <1>1, <1>3, <1>4, <1>5, <1>6, <1>7, <1>8, <1>9, <1>10, <1>11, <1>12, <1>13,
           <1>14 DEF NextKeyed

(* Every step keeps the store to issued tags, and takes nothing back.       *)
LEMMA StepKeepsStore ==
  ASSUME CachesOK, RestOK, StoreIssued, [NextKeyed]_vars
  PROVE  StoreIssued' /\ issued \subseteq issued'
<1>1. ASSUME UNCHANGED <<store, issued>>
      PROVE  StoreIssued' /\ issued \subseteq issued'
  BY <1>1 DEF StoreIssued
<1>2. ASSUME NEW w \in Worker, NEW sid \in SessionId, NEW s \in Slot,
             NEW f \in Frame, SealFrame(w, sid, s, f)
      PROVE  StoreIssued' /\ issued \subseteq issued'
  <2> DEFINE seal == Seals(w, Top(w), sid)
  <2>1. TagComputed(w, Top(w), sid, f) = Tag(seal, f) /\ seal \in Seal
    BY <1>2, TagComputedIsOfSeal DEF SealFrame
  <2>2. \/ /\ store' = [store EXCEPT ![s] = Blob(f, TagComputed(w, Top(w), sid, f))]
           /\ issued' = issued \cup {<<seal, f>>}
        \/ UNCHANGED <<store, issued>>
    BY <1>2 DEF SealFrame
  <2> HIDE DEF seal
  <2>3. CASE UNCHANGED <<store, issued>>
    BY <2>3, <1>1
  <2>4. CASE /\ store' = [store EXCEPT ![s] = Blob(f, TagComputed(w, Top(w), sid, f))]
             /\ issued' = issued \cup {<<seal, f>>}
    <3>1. issued' \subseteq Seal \X Frame
      BY <2>1, <2>4 DEF StoreIssued
    <3> DEFINE Tags == {NoTag} \cup {Tag(p[1], p[2]) : p \in issued}
               TagsAfter == {NoTag} \cup {Tag(p[1], p[2]) : p \in issued'}
    <3>2. Tags \subseteq TagsAfter
      BY <2>4
    <3>3. Tag(seal, f) \in TagsAfter
      <4>1. <<seal, f>> \in issued' /\ <<seal, f>>[1] = seal /\ <<seal, f>>[2] = f
        BY <2>4
      <4> QED BY <4>1
    <3>4. store \in [Slot -> {NoBlob} \cup [frame : Frame, tag : Tags]]
      BY DEF StoreIssued
    <3>5. Blob(f, Tag(seal, f)) \in [frame : Frame, tag : TagsAfter]
      BY <3>3 DEF Blob
    <3> HIDE DEF Tags, TagsAfter
    <3>6. store' = [store EXCEPT ![s] = Blob(f, Tag(seal, f))]
      BY <2>1, <2>4
    <3>7. store' \in [Slot -> {NoBlob} \cup [frame : Frame, tag : TagsAfter]]
      BY <3>2, <3>4, <3>5, <3>6
    <3> QED BY <3>1, <3>7, <2>4 DEF StoreIssued, TagsAfter
  <2> QED BY <2>2, <2>3, <2>4
<1>3. ASSUME NEW s \in Slot, StoreDamaged(s)
      PROVE  StoreIssued' /\ issued \subseteq issued'
  <2> DEFINE Tags == {NoTag} \cup {Tag(p[1], p[2]) : p \in issued}
             Blobs == [frame : Frame, tag : Tags]
  <2>1. store \in [Slot -> {NoBlob} \cup Blobs] /\ issued' = issued
    BY <1>3 DEF StoreIssued, StoreDamaged
  <2>2. ASSUME NEW f \in Frame,
               NEW t \in {NoTag} \cup {store[u].tag : u \in {v \in Slot : store[v] # NoBlob}}
        PROVE  Blob(f, t) \in Blobs
    <3>1. t \in Tags
      BY <2>1, <2>2
    <3> HIDE DEF Tags
    <3> QED BY <3>1 DEF Blob
  <2> HIDE DEF Blobs
  <2>3. \E b \in {NoBlob} \cup Blobs : store' = [store EXCEPT ![s] = b]
    BY <2>1, <2>2, <1>3 DEF StoreDamaged, Damage
  <2>4. store' \in [Slot -> {NoBlob} \cup Blobs]
    BY <2>1, <2>3
  <2>5. StoreIssued'
    BY <2>1, <2>4 DEF StoreIssued, Blobs
  <2> QED BY <2>1, <2>5
<1>4. ASSUME NEW w \in Worker, NEW c \in Context, NEW via \in {"api", "keyed"}, SerializeKeyed(w, via, c)
      PROVE  UNCHANGED <<store, issued>>
  BY <1>4 DEF SerializeKeyed
<1>5. ASSUME NEW w \in Worker, NEW c \in Context, NEW s \in Slot, UnserializeApi(w, c, s)
      PROVE  UNCHANGED <<store, issued>>
  BY <1>5 DEF UnserializeApi
<1>6. ASSUME NEW w \in Worker, NEW c \in Context, NEW s \in Slot, UnserializeKeyed(w, c, s)
      PROVE  UNCHANGED <<store, issued>>
  BY <1>6 DEF UnserializeKeyed
<1>7. ASSUME NEW w \in Worker, NEW key \in MaybeKey, SerializeSigned(w, key)
      PROVE  UNCHANGED <<store, issued>>
  BY <1>7 DEF SerializeSigned
<1>8. ASSUME NEW w \in Worker, NEW key \in MaybeKey, NEW s \in Slot, UnserializeSigned(w, key, s)
      PROVE  UNCHANGED <<store, issued>>
  BY <1>8 DEF UnserializeSigned
<1>9. ASSUME NEW w \in Worker, NEW sid \in SessionId, NEW s \in Slot, UnserializeSession(w, sid, s)
      PROVE  UNCHANGED <<store, issued>>
  BY <1>9 DEF UnserializeSession
<1>10. ASSUME NEW w \in Worker, NEW config \in Configs, Configure(w, config)
      PROVE  UNCHANGED <<store, issued>>
  BY <1>10 DEF Configure
<1>11. ASSUME NEW w \in Worker,
              SerializeSession(w) \/ EncodeFails(w) \/ OptionsRead(w) \/ Restart(w)
       PROVE  UNCHANGED <<store, issued>>
  BY <1>11 DEF SerializeSession, EncodeFails, OptionsRead, Restart
<1>12. CASE UNCHANGED vars
  BY <1>12, <1>1 DEF vars
<1> QED BY <1>1, <1>2, <1>3, <1>4, <1>5, <1>6, <1>7, <1>8, <1>9, <1>10, <1>11, <1>12 DEF NextKeyed

(* Every step is a step of the store, or leaves it alone.                   *)
LEMMA StepImplements ==
  ASSUME CachesOK, RestOK, PayloadsHeld, [NextKeyed]_vars
  PROVE  [Next]_<<store, answer>>
<1>0. CachesOK /\ RestOK
  OBVIOUS
<1>ini. \A w \in Worker : ini[w].key \in MaybeKey /\ ini[w].session \in MaybeKey
  BY <1>0 DEF RestOK
<1>1. ASSUME NEW w \in Worker, NEW c \in Context, NEW via \in {"api", "keyed"},
             SerializeKeyed(w, via, c)
      PROVE  Next
  BY <1>1 DEF SerializeKeyed, Next, Refuse
<1>2. ASSUME NEW w \in Worker, NEW c \in Context, NEW s \in Slot, UnserializeApi(w, c, s)
      PROVE  Next
  <2>1. store[s] # NoBlob /\ UNCHANGED store
    BY <1>2 DEF UnserializeApi
  <2>2. CASE /\ ContextValid(c) /\ KeyOK(ini[w].key)
             /\ DecodeKeyed(w, ini[w].key, ContextLabel(c), s)
    BY <2>2, <2>1, <1>0, <1>2, <1>ini, Labels, UsableKey, KeyedIsFetch
  <2>3. CASE Deliver(store[s], NoTag, PlainSeal)
    BY <2>3, <2>1, PlainIsFetch
  <2>4. CASE answer' = Refused
    BY <2>4, <2>1 DEF Next, Refuse
  <2> QED BY <1>2, <2>2, <2>3, <2>4 DEF UnserializeApi
<1>3. ASSUME NEW w \in Worker, NEW c \in Context, NEW s \in Slot, UnserializeKeyed(w, c, s)
      PROVE  Next
  BY <1>3 DEF UnserializeKeyed, Next, Refuse
<1>4. ASSUME NEW w \in Worker, NEW key \in MaybeKey, SerializeSigned(w, key)
      PROVE  Next
  BY <1>4 DEF SerializeSigned, Next, Refuse
<1>5. ASSUME NEW w \in Worker, NEW key \in MaybeKey, NEW s \in Slot,
             UnserializeSigned(w, key, s)
      PROVE  Next
  <2>1. store[s] # NoBlob /\ UNCHANGED store
    BY <1>5 DEF UnserializeSigned
  <2>2. CASE answer' = Refused
    BY <2>2, <2>1 DEF Next, Refuse
  <2>3. CASE key # Unset /\ Deliver(store[s],
                    Resume(LoadKey(hmacState[w], RawBlock(key)), store[s].frame),
                    SignedSeal(key))
    <3>1. key \in Key
      BY <2>3, UsableKey
    <3>2. /\ Resume(LoadKey(hmacState[w], RawBlock(key)), store[s].frame)
               = Tag(SignedSeal(key), store[s].frame)
          /\ SignedSeal(key) \in Seal
      BY <3>1, <1>0, TagsAreOfSeals
    <3>3. Deliver(store[s], Tag(SignedSeal(key), store[s].frame), SignedSeal(key))
      BY <2>3, <3>2
    <3> QED BY <2>1, <3>2, <3>3, DeliverIsFetch
  <2> QED BY <1>5, <2>2, <2>3 DEF UnserializeSigned
<1>6. ASSUME NEW w \in Worker, NEW config \in Configs, Configure(w, config)
      PROVE  Next
  BY <1>6 DEF Configure, Next, Refuse
<1>7. ASSUME NEW w \in Worker, NEW sid \in SessionId, NEW s \in Slot,
             UnserializeSession(w, sid, s)
      PROVE  Next
  <2> DEFINE key == ini[w].session
             t == DerivedTag(EmptySubkey, hmacState[w], key, SessionLabel(sid), store[s].frame)
  <2>1. store[s] # NoBlob /\ UNCHANGED store
    BY <1>7 DEF UnserializeSession
  <2>2. CASE answer' = Refused
    BY <2>2, <2>1 DEF Next, Refuse
  <2>3. CASE Deliver(store[s], NoTag, PlainSeal)
    BY <2>3, <2>1, PlainIsFetch
  <2>4. CASE KeyOK(key) /\ Deliver(store[s], t, SessionSeal(key, sid))
    <3>1. key \in Key
      BY <2>4, <1>ini, UsableKey
    <3>2. t = Tag(SessionSeal(key, sid), store[s].frame) /\ SessionSeal(key, sid) \in Seal
      BY <3>1, <1>0, TagsAreOfSeals
    <3>3. Deliver(store[s], Tag(SessionSeal(key, sid), store[s].frame), SessionSeal(key, sid))
      BY <2>4, <3>2
    <3> QED BY <2>1, <3>2, <3>3, DeliverIsFetch
  <2> QED BY <1>7, <2>2, <2>3, <2>4 DEF UnserializeSession
<1>8. ASSUME NEW w \in Worker, NEW sid \in SessionId, NEW s \in Slot, NEW f \in Frame,
             SealFrame(w, sid, s, f)
      PROVE  Next
  BY <1>0, <1>8, SealIsPut
<1>9. ASSUME NEW w \in Worker, SerializeSession(w) \/ EncodeFails(w) \/ Restart(w)
      PROVE  Next
  BY <1>9 DEF SerializeSession, EncodeFails, Restart, Next, Refuse
<1>11. ASSUME NEW w \in Worker, OptionsRead(w)
       PROVE  Next
  <2>1. Top(w) \in Call /\ Top(w).op = "unserialize" /\ UNCHANGED store
    BY <1>11, <1>0, StackTop DEF OptionsRead
  <2>a. Top(w).slot \in Slot /\ store[Top(w).slot] # NoBlob
    <3>1. calls[w] \in Seq(Call) /\ calls[w] # <<>>
      BY <1>0, <1>11 DEF RestOK, OptionsRead, Idle
    <3>2. Len(calls[w]) \in 1 .. Len(calls[w])
      BY <3>1
    <3> QED BY <2>1, <3>2 DEF PayloadsHeld, Top, Call
  <2>2. CASE answer' = Refused
    BY <2>1, <2>2 DEF Next, Refuse
  <2>3. CASE DecodeKeyed(w, Top(w).key, Top(w).label, Top(w).slot)
    BY <2>1, <2>a, <2>3, <1>0, CallFields, KeyedIsFetch
  <2> QED BY <1>11, <2>2, <2>3 DEF OptionsRead
<1>13. ASSUME NEW s \in Slot, StoreDamaged(s)
       PROVE  Next
  BY <1>13 DEF StoreDamaged, Next
<1>14. CASE UNCHANGED vars
  BY <1>14 DEF vars
<1> QED BY <1>1, <1>2, <1>3, <1>4, <1>5, <1>6, <1>7, <1>8, <1>9, <1>11, <1>13, <1>14
        DEF NextKeyed

(* Through any calls, nesting, change of keys, restart and damage, the      *)
(* layer behaves as a store of sealed frames.                               *)
THEOREM KeyedStoreImplements == SpecKeyed => ImplementsSealedStore
<1>1. InitKeyed => Init /\ StoreIssued /\ PayloadsHeld
  BY DEF InitKeyed, Init, StoreIssued, PayloadsHeld
<1>2. KeyedInv /\ StoreIssued /\ PayloadsHeld /\ [NextKeyed]_vars
        => StoreIssued' /\ PayloadsHeld'
  BY KeyedInvParts, StepKeepsStore, StepKeepsPayloads
<1>3. KeyedInv /\ PayloadsHeld /\ [NextKeyed]_vars => [Next]_<<store, answer>>
  BY KeyedInvParts, StepImplements
<1> QED BY <1>1, <1>2, <1>3, CachesAreSound, PTL DEF SpecKeyed, Spec, ImplementsSealedStore

-----------------------------------------------------------------------------
(* Nothing is handed out under a seal it was not issued under.              *)

(* Two seals that give the same tag are the same, on the same frame.        *)
LEMMA TagsAreInjective ==
  ASSUME NEW seal \in Seal, NEW other \in Seal, NEW f, NEW g,
         Tag(seal, f) = Tag(other, g), seal.kind # "plain"
  PROVE  seal = other /\ f = g
<1>1. \A l \in KeyedLabel, sid \in SessionId : l # SessionLabel(sid)
  BY DEF KeyedLabel, GoodContext, ContextLabel, SessionLabel
<1> QED BY <1>1 DEF Seal, PlainSeal, SignedSeal, KeyedSeal, SessionSeal, Tag, NoTag, Mac, RawBlock

(* A fetch of the store of sealed frames, when its tags were issued.        *)
LEMMA FetchIsOfIssued ==
  ASSUME StoreIssued, FetchedWasIssued, [Next]_<<store, answer>>, issued \subseteq issued'
  PROVE  FetchedWasIssued'
<1>1. CASE UNCHANGED answer
  BY <1>1 DEF FetchedWasIssued
<1>2. CASE answer' = Refused
  BY <1>2 DEF FetchedWasIssued, Refused
<1>3. ASSUME NEW s \in Slot, NEW seal \in Seal, Fetch(s, seal)
      PROVE  FetchedWasIssued'
  <2> DEFINE f == store[s].frame
  <2>1. answer' = Got(f, seal) /\ store[s].tag = Tag(seal, f) /\ store[s] # NoBlob
    BY <1>3 DEF Fetch
  <2>2. SUFFICES ASSUME seal.kind # "plain" PROVE <<seal, f>> \in issued
    BY <2>1 DEF FetchedWasIssued, Got
  <2>3. store[s].tag \in {NoTag} \cup {Tag(p[1], p[2]) : p \in issued}
    BY <2>1 DEF StoreIssued
  <2>4. Tag(seal, f) # NoTag
    BY <2>2 DEF Seal, PlainSeal, SignedSeal, KeyedSeal, SessionSeal, Tag, NoTag, Mac
  <2>5. PICK p \in issued : Tag(p[1], p[2]) = Tag(seal, f)
    BY <2>1, <2>3, <2>4
  <2>6. p[1] \in Seal /\ p = <<p[1], p[2]>>
    BY DEF StoreIssued
  <2>7. seal = p[1] /\ f = p[2]
    <3> HIDE DEF f
    <3> QED BY <2>2, <2>5, <2>6, TagsAreInjective
  <2> QED BY <2>6, <2>7
<1> QED BY <1>1, <1>2, <1>3 DEF Next, Put, Damage, Refuse

(* A frame fetched under a key, a context, a session or a signing key was   *)
(* issued under it.                                                         *)
THEOREM FetchedFramesWereIssued == SpecKeyed => []FetchedWasIssued
<1>1. InitKeyed => StoreIssued /\ PayloadsHeld /\ FetchedWasIssued
  BY DEF InitKeyed, Init, StoreIssued, PayloadsHeld, FetchedWasIssued, Refused
<1>2. KeyedInv /\ StoreIssued /\ PayloadsHeld /\ FetchedWasIssued /\ [NextKeyed]_vars
        => StoreIssued' /\ PayloadsHeld' /\ FetchedWasIssued'
  BY KeyedInvParts, StepKeepsStore, StepKeepsPayloads, StepImplements, FetchIsOfIssued
<1> QED BY <1>1, <1>2, CachesAreSound, PTL DEF SpecKeyed

-----------------------------------------------------------------------------
(* A retired key does not stay in the cache.                                *)

(* The calls of a thread that will derive a subkey use the key the thread   *)
(* has configured: no configuration changes while a call is under way.      *)
Derives(call) == call.op = "unserialize" \/ call.via \in {"api", "keyed"}

ConfiguredKeys ==
  \A w \in Worker : \A i \in 1 .. Len(calls[w]) :
    Derives(calls[w][i]) => calls[w][i].key = ini[w].key

RetiredInv == ConfiguredKeys /\ RetiredKeyGone

(* Calls stay with the configured key when one that has it is pushed.       *)
LEMMA ConfiguredKeysStay ==
  ASSUME RestOK, ConfiguredKeys, UNCHANGED ini, NEW w \in Worker, NEW call,
         Push(w, call) \/ (Pop(w) /\ ~ Idle(w)) \/ UNCHANGED calls,
         Derives(call) => call.key = ini[w].key
  PROVE  ConfiguredKeys'
<1> SUFFICES ASSUME NEW u \in Worker, NEW i \in 1 .. Len(calls'[u]),
                    Derives(calls'[u][i])
             PROVE  calls'[u][i].key = ini[u].key
  BY DEF ConfiguredKeys, Derives
<1>1. CASE i \in 1 .. Len(calls[u]) /\ calls'[u][i] = calls[u][i]
  BY <1>1 DEF ConfiguredKeys
<1>2. CASE calls'[u][i] = call /\ u = w
  BY <1>2
<1>3. CASE u # w
  <2>1. calls'[u] = calls[u]
    BY <1>3 DEF RestOK, Push, Pop
  <2> QED BY <2>1 DEF ConfiguredKeys
<1>4. \/ i \in 1 .. Len(calls[u]) /\ calls'[u][i] = calls[u][i]
      \/ calls'[u][i] = call
  <2>1. Push(w, call) \/ (Pop(w) /\ ~ Idle(w)) \/ UNCHANGED calls
    OBVIOUS
  <2>2. \A v \in Worker : \A j \in 1 .. Len(calls'[v]) :
           \/ j \in 1 .. Len(calls[v]) /\ calls'[v][j] = calls[v][j]
           \/ Push(w, call) /\ calls'[v][j] = call
    BY <2>1, CallsAfter, Zenon
  <2> QED BY <2>2
<1> QED BY <1>1, <1>2, <1>3, <1>4

(* The call on top of a stack, if it derives, uses the configured key.      *)
LEMMA TopIsConfigured ==
  ASSUME RestOK, ConfiguredKeys, NEW w \in Worker, ~ Idle(w), Derives(Top(w))
  PROVE  Top(w).key = ini[w].key
<1>1. calls[w] \in Seq(Call) /\ calls[w] # <<>>
  BY DEF RestOK, Idle
<1>2. Len(calls[w]) \in 1 .. Len(calls[w])
  BY <1>1
<1> QED BY <1>2 DEF Top, ConfiguredKeys

(* A tag under the configured key leaves that key in the cache, or none.    *)
LEMMA TagKeyedRetires ==
  ASSUME CachesOK, RetiredKeyGone, UNCHANGED ini, NEW w \in Worker, NEW label,
         TagKeyed(w, ini[w].key, label)
  PROVE  RetiredKeyGone'
<1> DEFINE key == ini[w].key
           c == CacheAfter(subkeyCache[w], hmacState[w], key, label)
<1>1. c.valid => c.key = key
  BY DEF CacheAfter, Hit, EmptySubkey
<1>2. subkeyCache' = [subkeyCache EXCEPT ![w] = c] /\ derived' = [derived EXCEPT ![w] = TRUE]
  BY DEF TagKeyed
<1> HIDE DEF c
<1> SUFFICES ASSUME NEW u \in Worker, derived'[u], subkeyCache'[u].valid
             PROVE  subkeyCache'[u].key = ini[u].key
  BY DEF RetiredKeyGone
<1>3. CASE u = w
  BY <1>1, <1>2, <1>3 DEF CachesOK
<1>4. CASE u # w
  BY <1>2, <1>4 DEF CachesOK, RetiredKeyGone
<1> QED BY <1>3, <1>4

(* A lookup that finds no usable key empties the cache.                     *)
LEMMA LookupRetires ==
  ASSUME CachesOK, RetiredKeyGone, UNCHANGED ini, NEW w \in Worker, Lookup(w)
  PROVE  RetiredKeyGone'
<1>1. CASE UNCHANGED caches
  BY <1>1 DEF caches, RetiredKeyGone
<1>2. CASE /\ subkeyCache' = [subkeyCache EXCEPT ![w] = EmptySubkey]
           /\ derived' = [derived EXCEPT ![w] = TRUE]
  BY <1>2 DEF CachesOK, RetiredKeyGone, EmptySubkey
<1> QED BY <1>1, <1>2 DEF Lookup

(* The session's and the signed functions' tags leave that cache alone.     *)
LEMMA OthersRetire ==
  ASSUME RetiredKeyGone, UNCHANGED <<ini, subkeyCache, derived>>
  PROVE  RetiredKeyGone'
BY DEF RetiredKeyGone

(* Every step keeps calls with their key and the cache without a stale one. *)
LEMMA StepRetires ==
  ASSUME CachesOK, RestOK, RetiredInv, [NextKeyed]_vars
  PROVE  RetiredInv'
<1> USE DEF RetiredInv
<1> DEFINE none == [op |-> "none", via |-> "none"]
<1>0. ~ Derives(none)
  BY DEF Derives
<1> HIDE DEF none
<1>1. ASSUME NEW w \in Worker, NEW c \in Context, NEW via \in {"api", "keyed"},
             SerializeKeyed(w, via, c)
      PROVE  RetiredInv'
  <2> DEFINE call == [op |-> "serialize", via |-> via, key |-> ini[w].key,
                      label |-> ContextLabel(c)]
  <2>1. (Push(w, call) \/ UNCHANGED calls) /\ UNCHANGED ini
        /\ (Lookup(w) \/ UNCHANGED caches)
    BY <1>1 DEF SerializeKeyed
  <2>2. call.key = ini[w].key
    OBVIOUS
  <2> HIDE DEF call
  <2>3. ConfiguredKeys'
    BY <2>1, <2>2, ConfiguredKeysStay
  <2>4. RetiredKeyGone'
    BY <2>1, LookupRetires, OthersRetire DEF caches
  <2> QED BY <2>3, <2>4
<1>2. ASSUME NEW w \in Worker, NEW c \in Context, NEW s \in Slot, UnserializeApi(w, c, s)
      PROVE  RetiredInv'
  <2>1. UNCHANGED <<ini, calls>>
    BY <1>2 DEF UnserializeApi
  <2>2. ConfiguredKeys'
    BY <2>1 DEF ConfiguredKeys
  <2>3. \/ TagKeyed(w, ini[w].key, ContextLabel(c))
        \/ Lookup(w)
        \/ UNCHANGED caches
    BY <1>2 DEF UnserializeApi, DecodeKeyed
  <2>4. RetiredKeyGone'
    BY <2>1, <2>3, TagKeyedRetires, LookupRetires, OthersRetire DEF caches
  <2> QED BY <2>2, <2>4
<1>3. ASSUME NEW w \in Worker, NEW c \in Context, NEW s \in Slot, UnserializeKeyed(w, c, s)
      PROVE  RetiredInv'
  <2> DEFINE call == [op |-> "unserialize", key |-> ini[w].key,
                      label |-> ContextLabel(c), slot |-> s]
  <2>1. (Push(w, call) \/ UNCHANGED calls) /\ UNCHANGED ini
        /\ (Lookup(w) \/ UNCHANGED caches)
    BY <1>3 DEF UnserializeKeyed
  <2>2. call.key = ini[w].key
    OBVIOUS
  <2> HIDE DEF call
  <2>3. ConfiguredKeys'
    BY <2>1, <2>2, ConfiguredKeysStay
  <2>4. RetiredKeyGone'
    BY <2>1, LookupRetires, OthersRetire DEF caches
  <2> QED BY <2>3, <2>4
<1>4. ASSUME NEW w \in Worker, NEW key \in MaybeKey, SerializeSigned(w, key)
      PROVE  RetiredInv'
  <2> DEFINE call == [op |-> "serialize", via |-> "signed", key |-> key]
  <2>1. (Push(w, call) \/ UNCHANGED calls) /\ UNCHANGED <<ini, caches>>
    BY <1>4 DEF SerializeSigned
  <2>2. ~ Derives(call)
    BY DEF Derives
  <2> HIDE DEF call
  <2>3. ConfiguredKeys'
    BY <2>1, <2>2, ConfiguredKeysStay
  <2> QED BY <2>1, <2>3, OthersRetire DEF caches
<1>5. ASSUME NEW w \in Worker, SerializeSession(w)
      PROVE  RetiredInv'
  <2> DEFINE call == [op |-> "serialize", via |-> "session", key |-> ini[w].session]
  <2>1. (Push(w, call) \/ UNCHANGED calls) /\ UNCHANGED <<ini, caches>>
    BY <1>5 DEF SerializeSession
  <2>2. ~ Derives(call)
    BY DEF Derives
  <2> HIDE DEF call
  <2>3. ConfiguredKeys'
    BY <2>1, <2>2, ConfiguredKeysStay
  <2> QED BY <2>1, <2>3, OthersRetire DEF caches
<1>6. ASSUME NEW w \in Worker, EncodeFails(w)
      PROVE  RetiredInv'
  <2>1. Pop(w) /\ ~ Idle(w) /\ UNCHANGED <<ini, caches>>
    BY <1>6 DEF EncodeFails
  <2>2. ConfiguredKeys'
    BY <2>1, <1>0, ConfiguredKeysStay
  <2> QED BY <2>1, <2>2, OthersRetire DEF caches
<1>7. ASSUME NEW w \in Worker, OptionsRead(w)
      PROVE  RetiredInv'
  <2>1. Pop(w) /\ ~ Idle(w) /\ UNCHANGED ini /\ Top(w).op = "unserialize"
    BY <1>7 DEF OptionsRead
  <2>2. ConfiguredKeys'
    BY <2>1, <1>0, ConfiguredKeysStay
  <2>3. Top(w).key = ini[w].key
    BY <2>1, TopIsConfigured DEF Derives
  <2>4. TagKeyed(w, ini[w].key, Top(w).label) \/ UNCHANGED caches
    BY <1>7, <2>3 DEF OptionsRead, DecodeKeyed
  <2>5. RetiredKeyGone'
    BY <2>1, <2>4, TagKeyedRetires, OthersRetire DEF caches
  <2> QED BY <2>2, <2>5
<1>8. ASSUME NEW w \in Worker, NEW sid \in SessionId, NEW s \in Slot, NEW f \in Frame,
             SealFrame(w, sid, s, f)
      PROVE  RetiredInv'
  <2>1. /\ Pop(w) /\ ~ Idle(w) /\ UNCHANGED ini /\ Top(w).op = "serialize"
        /\ Top(w) \in Call
    BY <1>8, StackTop DEF SealFrame
  <2>2. ConfiguredKeys'
    BY <2>1, <1>0, ConfiguredKeysStay
  <2>3. CASE Top(w).key = Unset \/ Top(w).via \in {"signed", "session"}
    <3>1. UNCHANGED <<subkeyCache, derived>>
      BY <2>3, <1>8 DEF SealFrame, TagSigned, TagSession, caches
    <3> QED BY <2>1, <2>2, <3>1, OthersRetire
  <2>4. CASE Top(w).key # Unset /\ Top(w).via \notin {"signed", "session"}
    <3>1. Derives(Top(w))
      BY <2>1, <2>4 DEF Derives, Call
    <3>2. TagKeyed(w, Top(w).key, Top(w).label)
      BY <2>4, <1>8 DEF SealFrame
    <3> QED BY <2>1, <2>2, <3>1, <3>2, TopIsConfigured, TagKeyedRetires
  <2> QED BY <2>3, <2>4
<1>9. ASSUME NEW w \in Worker, NEW key \in MaybeKey, NEW s \in Slot,
             UnserializeSigned(w, key, s)
      PROVE  RetiredInv'
  <2>1. UNCHANGED <<ini, calls, subkeyCache, derived>>
    BY <1>9 DEF UnserializeSigned, TagSigned, caches
  <2> QED BY <2>1, OthersRetire DEF ConfiguredKeys
<1>10. ASSUME NEW w \in Worker, NEW sid \in SessionId, NEW s \in Slot,
              UnserializeSession(w, sid, s)
       PROVE  RetiredInv'
  <2>1. UNCHANGED <<ini, calls, subkeyCache, derived>>
    BY <1>10 DEF UnserializeSession, TagSession, caches
  <2> QED BY <2>1, OthersRetire DEF ConfiguredKeys
<1>11. ASSUME NEW w \in Worker, NEW config \in Configs, Configure(w, config)
       PROVE  RetiredInv'
  <2>1. /\ calls[w] = <<>> /\ UNCHANGED <<calls, subkeyCache>>
        /\ ini' = [ini EXCEPT ![w] = config]
        /\ derived' = [derived EXCEPT ![w] = FALSE]
    BY <1>11 DEF Configure, Idle
  <2>2. ConfiguredKeys'
    <3> SUFFICES ASSUME NEW u \in Worker, NEW i \in 1 .. Len(calls[u]),
                        Derives(calls[u][i])
                 PROVE  calls[u][i].key = ini'[u].key
      BY <2>1 DEF ConfiguredKeys
    <3>1. u # w
      BY <2>1
    <3> QED BY <3>1, <2>1 DEF RestOK, ConfiguredKeys
  <2>3. RetiredKeyGone'
    BY <2>1 DEF RestOK, CachesOK, RetiredKeyGone
  <2> QED BY <2>2, <2>3
<1>12. ASSUME NEW w \in Worker, Restart(w)
       PROVE  RetiredInv'
  <2>1. /\ UNCHANGED <<ini, calls, derived>>
        /\ subkeyCache' = [subkeyCache EXCEPT ![w] = EmptySubkey]
    BY <1>12 DEF Restart
  <2>2. RetiredKeyGone'
    BY <2>1 DEF CachesOK, RetiredKeyGone, EmptySubkey
  <2> QED BY <2>1, <2>2 DEF ConfiguredKeys
<1>13. ASSUME NEW s \in Slot, StoreDamaged(s)
       PROVE  RetiredInv'
  BY <1>13 DEF StoreDamaged, caches, ConfiguredKeys, RetiredKeyGone
<1>14. CASE UNCHANGED vars
  BY <1>14 DEF vars, caches, ConfiguredKeys, RetiredKeyGone
<1> QED BY <1>1, <1>2, <1>3, <1>4, <1>5, <1>6, <1>7, <1>8, <1>9, <1>10, <1>11, <1>12,
           <1>13, <1>14 DEF NextKeyed

(* Once a thread asked for the subkey of its configured key, or found none  *)
(* usable, no other key is in its cache (phpser_key_lookup, keyed_subkey).  *)
THEOREM RetiredKeysAreGone == SpecKeyed => []RetiredKeyGone
<1>1. InitKeyed => RetiredInv
  BY DEF InitKeyed, RetiredInv, ConfiguredKeys, RetiredKeyGone
<1>2. KeyedInv /\ RetiredInv /\ [NextKeyed]_vars => RetiredInv'
  BY KeyedInvParts, StepRetires
<1>3. RetiredInv => RetiredKeyGone
  BY DEF RetiredInv
<1> QED BY <1>1, <1>2, <1>3, CachesAreSound, PTL DEF SpecKeyed
=============================================================================
