------------------------- MODULE SessionStoreProofs -------------------------
(***************************************************************************)
(* The session handler keeps its promise for any keys, ids, values and     *)
(* requests.                                                               *)
(***************************************************************************)
EXTENDS SessionStore, TLAPS

Bytes == {NoBytes, Tombstone} \cup [kind : {"frame"}, frame : Frame, tag : AnyTag]
Left  == [how : {"new", "lost", "unknown"}]
           \cup [how : {"saved"}, key : MaybeKey, value : Arrays]

(* What StoreMatches says of one id, as an operator.                        *)
Matches(s, b, l, saves_) ==
  CASE l.how = "new"     -> b = NoBytes
    [] l.how = "lost"    -> b = Tombstone
    [] l.how = "saved"   ->
         /\ l.key \in MaybeKey \ ShortKeys
         /\ l.value \in Arrays
         /\ <<s, l.key, l.value>> \in saves_
         /\ b = Blob(l.value, Tag(SealOf(l.key, s), l.value))
    [] l.how = "unknown" ->
         b.kind = "frame" =>
           /\ b.frame \in Frame
           /\ b.tag = NoTag \/ \E save \in saves_ :
                b.tag = Tag(SealOf(save[2], save[1]), save[3])

(* StoreMatches, id by id.                                                  *)
LEMMA MatchesEach ==
  /\ StoreMatches <=> \A s \in SessionId : Matches(s, store[s], last[s], signed)
  /\ StoreMatches' <=> \A s \in SessionId : Matches(s, store'[s], last'[s], signed')
BY DEF StoreMatches, Matches

(* Matching survives more saves.                                            *)
LEMMA MatchesMore ==
  ASSUME NEW s, NEW b, NEW l \in Left, NEW old, NEW new, old \subseteq new,
         Matches(s, b, l, old)
  PROVE  Matches(s, b, l, new)
BY DEF Matches, Left

(* The empty array is an array.                                             *)
LEMMA EmptyIsArray == EmptyArray \in Arrays
BY SessionAssumption DEF EmptyArray, Arrays

(* Arrays are frames that decode.                                           *)
LEMMA ArraysAreFrames == Arrays \subseteq Frame /\ Arrays \subseteq Frame \ Malformed
BY DEF Arrays

(* The tags of plain and session seals, spelled out.                        *)
LEMMA SessionTags ==
  /\ \A s, f : Tag(SealOf(Unset, s), f) = <<>>
  /\ \A k \in Key : \A s, f :
       /\ SealOf(k, s) = SessionSeal(k, s)
       /\ Tag(SessionSeal(k, s), f) = <<<<<<KeyBlock[k]>>, <<SessionWord, s>>>>, f>>
<1>1. \A s, f : Tag(SealOf(Unset, s), f) = <<>>
  BY DEF SealOf, Tag, PlainSeal, NoTag
<1>2. ASSUME NEW k \in Key, NEW s, NEW f
      PROVE  /\ SealOf(k, s) = SessionSeal(k, s)
             /\ Tag(SessionSeal(k, s), f) = <<<<<<KeyBlock[k]>>, <<SessionWord, s>>>>, f>>
  <2>1. k # Unset
    BY TermsAssumption
  <2>2. Tag(SessionSeal(k, s), f) = Mac(Mac(RawBlock(k), SessionLabel(s)), f)
    BY DEF Tag, SessionSeal
  <2> QED BY <2>1, <2>2 DEF SealOf, Mac, RawBlock, SessionLabel
<1> QED BY <1>1, <1>2

(* A tag that fits a key and an id was made under that key and id.          *)
LEMMA FitMeansSame ==
  \A k \in Key, l \in MaybeKey : \A s, f, i, g :
    Tag(SessionSeal(k, s), f) = Tag(SealOf(l, i), g)
      <=> l \in Key /\ KeyBlock[k] = KeyBlock[l] /\ s = i /\ f = g
<1> TAKE k \in Key, l \in MaybeKey
<1> TAKE s, f, i, g
<1>1. CASE l = Unset
  BY <1>1, SessionTags, TermsAssumption
<1>2. CASE l \in Key
  <2>1. /\ Tag(SessionSeal(k, s), f) = <<<<<<KeyBlock[k]>>, <<SessionWord, s>>>>, f>>
        /\ Tag(SealOf(l, i), g) = <<<<<<KeyBlock[l]>>, <<SessionWord, i>>>>, g>>
    BY <1>2, SessionTags
  <2> QED BY <2>1, <1>2
<1> QED BY <1>1, <1>2 DEF MaybeKey

(* The outcomes of a decode.                                                *)
LEMMA Outcomes ==
  /\ ~ Failure.ok /\ ~ Failure.verified
  /\ ~ Unrestored.ok /\ Unrestored.verified
  /\ \A v : Success(v).ok /\ Success(v).value = v
BY DEF Failure, Unrestored, Success

(* The names the promise uses mean the same here.                           *)
LEMMA SameNames ==
  /\ Promise!MaybeKey = MaybeKey
  /\ Promise!Value = Frame \ Malformed
  /\ \A k, l : Promise!SameKey(k, l) <=> SameKey(k, l)
BY DEF Promise!MaybeKey, MaybeKey, Promise!Value, Promise!SameKey, SameKey

(* What is found is told apart.                                             *)
LEMMA ViewsDiffer ==
  /\ \A v : /\ Promise!Found(v) # Promise!Rejected /\ Promise!Found(v) # Promise!FoundNothing
            /\ Promise!Found(v) # Promise!NotRestored
  /\ Promise!FoundNothing # Promise!Rejected /\ Promise!FoundNothing # Promise!NotRestored
BY DEF Promise!Found, Promise!Rejected, Promise!FoundNothing, Promise!NotRestored

(* A decode by how its bytes are.                                           *)
LEMMA DecodeCases ==
  ASSUME NEW b \in Bytes, NEW k, NEW s, NEW restores \in BOOLEAN
  PROVE  /\ k \in ShortKeys => Decode(b, k, s, restores) = Failure
         /\ k \notin ShortKeys /\ b.kind = "none" =>
              Decode(b, k, s, restores) = Success(EmptyArray)
         /\ b.kind = "tombstone" => Decode(b, k, s, restores) = Failure
         /\ b.kind = "frame" /\ ~ Verified(b, k, s) => Decode(b, k, s, restores) = Failure
         /\ k \notin ShortKeys /\ b.kind = "frame" /\ Verified(b, k, s) =>
              /\ ~ restores => Decode(b, k, s, restores) = Unrestored
              /\ restores /\ b.frame \in Arrays => Decode(b, k, s, restores) = Success(b.frame)
              /\ restores /\ b.frame \notin Arrays => Decode(b, k, s, restores) = Failure
<1>1. CASE k \in ShortKeys
  BY <1>1 DEF Decode
<1>2. CASE k \notin ShortKeys /\ b.kind = "none"
  BY <1>2 DEF Decode
<1>3. CASE k \notin ShortKeys /\ b.kind = "tombstone"
  BY <1>3 DEF Decode
<1>4. CASE k \notin ShortKeys /\ b.kind = "frame"
  BY <1>4 DEF Decode, DecodeBuf
<1>5. b.kind \in {"none", "tombstone", "frame"}
  BY DEF Bytes, NoBytes, Tombstone
<1> QED BY <1>1, <1>2, <1>3, <1>4, <1>5

(* A decode fails, or gives an array.                                       *)
LEMMA DecodeGivesArray ==
  ASSUME NEW b \in Bytes, NEW k, NEW s, NEW restores \in BOOLEAN
  PROVE  \/ Decode(b, k, s, restores) = Failure
         \/ Decode(b, k, s, restores) = Unrestored /\ b.kind = "frame" /\ Verified(b, k, s)
         \/ \E v \in Arrays : Decode(b, k, s, restores) = Success(v)
<1>1. b.kind \in {"none", "tombstone", "frame"}
  BY DEF Bytes, NoBytes, Tombstone
<1> QED BY <1>1, DecodeCases, EmptyIsArray

(* What a request with key k finds under id s: see Start.                   *)
Finds(k, s, restores) ==
  LET res == Decode(store[s], k, s, restores) IN
  IF ~ res.ok THEN IF res.verified THEN Promise!NotRestored ELSE Promise!Rejected
  ELSE IF store[s] = NoBytes THEN Promise!FoundNothing
  ELSE Promise!Found(res.value)

(* What may be found, by how the id was left.                               *)
LEMMA MayFindCases ==
  ASSUME NEW s, NEW k
  PROVE  /\ k \in ShortKeys => Promise!MayFind(s, k) = {Promise!Rejected}
         /\ k \notin ShortKeys /\ last[s].how = "new" =>
              Promise!MayFind(s, k) = {Promise!FoundNothing}
         /\ k \notin ShortKeys /\ last[s].how = "lost" =>
              Promise!MayFind(s, k) = {Promise!Rejected}
         /\ k \notin ShortKeys /\ last[s].how = "saved" =>
              Promise!MayFind(s, k) =
                {IF Promise!SameKey(last[s].key, k) THEN Promise!Found(last[s].value)
                 ELSE Promise!Rejected}
<1> DEFINE how == last[s].how
<1>1. CASE k \in ShortKeys
  BY <1>1 DEF Promise!MayFind
<1>2. CASE k \notin ShortKeys /\ how = "new"
  BY <1>2 DEF Promise!MayFind
<1>3. CASE k \notin ShortKeys /\ how = "lost"
  BY <1>3 DEF Promise!MayFind
<1>4. CASE k \notin ShortKeys /\ how = "saved"
  BY <1>4 DEF Promise!MayFind
<1> QED BY <1>1, <1>2, <1>3, <1>4

(* Of an id somebody else touched: bytes that verify are ones that may be   *)
(* found, because only saves make tags.                                     *)
LEMMA VerifiedMayBeFound ==
  ASSUME TypeOK, NEW s \in SessionId, NEW k \in MaybeKey, k \notin ShortKeys,
         NEW b \in Bytes, b.kind = "frame", Verified(b, k, s),
         last[s].how = "unknown", Matches(s, b, last[s], signed)
  PROVE  /\ b.frame \in Arrays => Promise!Found(b.frame) \in Promise!MayFind(s, k)
         /\ \E v \in Promise!Value : Promise!Found(v) \in Promise!MayFind(s, k)
<1>1. CASE k = Unset
  <2>1. Promise!MayFind(s, k) = {Promise!FoundNothing, Promise!Rejected}
                                  \cup {Promise!Found(w) : w \in Promise!Value}
    BY <1>1 DEF Promise!MayFind
  <2>2. Arrays \subseteq Promise!Value /\ EmptyArray \in Promise!Value
    BY ArraysAreFrames, EmptyIsArray DEF Promise!Value
  <2>3. \A v \in Promise!Value : Promise!Found(v) \in Promise!MayFind(s, k)
    BY <2>1
  <2> QED BY <2>2, <2>3
<1>2. CASE k # Unset
  <2>1. k \in Key /\ b.tag = Tag(SessionSeal(k, s), b.frame)
    BY <1>2 DEF Verified, TagFits, MaybeKey
  <2>2. b.tag # NoTag
    <3>1. b.tag = <<<<<<KeyBlock[k]>>, <<SessionWord, s>>>>, b.frame>>
      BY <2>1, SessionTags
    <3> QED BY <3>1 DEF NoTag
  <2>3. PICK save \in signed : b.tag = Tag(SealOf(save[2], save[1]), save[3])
    BY <2>2 DEF Matches
  <2>4. save \in SessionId \X MaybeKey \X Arrays
    BY DEF TypeOK
  <2>5. /\ save[2] \in Key /\ KeyBlock[k] = KeyBlock[save[2]]
        /\ s = save[1] /\ b.frame = save[3]
    <3>1. save[2] \in MaybeKey
      BY <2>4
    <3>2. Tag(SessionSeal(k, s), b.frame) = Tag(SealOf(save[2], save[1]), save[3])
      BY <2>1, <2>3
    <3> QED BY <2>1, <3>1, <3>2, FitMeansSame
  <2>6. <<s, save[2], b.frame>> \in signed /\ b.frame \in Promise!Value
    BY <2>4, <2>5, ArraysAreFrames DEF Promise!Value
  <2>7. SameKey(save[2], k)
    BY <2>5, <2>1 DEF SameKey
  <2> DEFINE v == b.frame
             May == {w \in Promise!Value : \E key_ \in Key :
                       Promise!SameKey(key_, k) /\ <<s, key_, w>> \in signed}
  <2>8. v \in May
    BY <2>5, <2>6, <2>7, SameNames
  <2>9. Promise!MayFind(s, k) = {Promise!FoundNothing, Promise!Rejected}
                                  \cup {Promise!Found(w) : w \in May}
    BY <1>2 DEF Promise!MayFind
  <2>10. v \in Promise!Value
    BY <2>6
  <2> HIDE DEF May
  <2>11. Promise!Found(v) \in Promise!MayFind(s, k)
    <3> HIDE DEF v
    <3> QED BY <2>8, <2>9
  <2> QED BY <2>10, <2>11
<1> QED BY <1>1, <1>2

(* A view the promise allows: see Open.                                     *)
Allowed(x, s, k) ==
  \/ x \in Promise!MayFind(s, k)
  \/ x = Promise!NotRestored /\ Promise!MayFindData(s, k)

(* Where data may be found, they may fail to be restored.                   *)
LEMMA DataMayFail ==
  ASSUME NEW s, NEW k, NEW v, Promise!Found(v) \in Promise!MayFind(s, k)
  PROVE  Allowed(Promise!NotRestored, s, k)
BY ViewsDiffer DEF Allowed, Promise!MayFindData

(* It is what the promise allows.                                           *)
LEMMA FindsWhatMayBeFound ==
  ASSUME TypeOK, NEW s \in SessionId, NEW k \in MaybeKey, NEW restores \in BOOLEAN,
         Matches(s, store[s], last[s], signed)
  PROVE  /\ Allowed(Finds(k, s, restores), s, k)
         /\ Decode(store[s], k, s, restores).ok => Decode(store[s], k, s, restores).value \in Arrays
<1> DEFINE b == store[s]
           l == last[s]
           res == Decode(b, k, s, restores)
<1>1. b \in Bytes /\ l \in Left
  BY DEF TypeOK, Bytes, Left
<1>2. Matches(s, b, l, signed)
  OBVIOUS
<1>3. \/ res = Failure
      \/ res = Unrestored /\ b.kind = "frame" /\ Verified(b, k, s)
      \/ \E v \in Arrays : res = Success(v)
  BY <1>1, DecodeGivesArray
<1>4. res.ok => res.value \in Arrays
  <2> HIDE DEF res
  <2> QED BY <1>3, Outcomes
<1> SUFFICES Allowed(Finds(k, s, restores), s, k)
  BY <1>4
<1>5. CASE k \in ShortKeys
  <2>1. res = Failure
    BY <1>1, <1>5, DecodeCases
  <2>2. Finds(k, s, restores) = Promise!Rejected
    BY <2>1, Outcomes DEF Finds
  <2> QED BY <2>2, <1>5, MayFindCases DEF Allowed
<1>6. CASE k \notin ShortKeys /\ l.how = "new"
  <2>1. b = NoBytes
    BY <1>2, <1>6 DEF Matches
  <2>2. res = Success(EmptyArray)
    BY <1>1, <1>6, <2>1, DecodeCases DEF NoBytes
  <2>3. Finds(k, s, restores) = Promise!FoundNothing
    BY <2>1, <2>2, Outcomes DEF Finds
  <2> QED BY <2>3, <1>6, MayFindCases DEF Allowed
<1>7. CASE k \notin ShortKeys /\ l.how = "lost"
  <2>1. b = Tombstone
    BY <1>2, <1>7 DEF Matches
  <2>2. res = Failure
    BY <1>1, <2>1, DecodeCases DEF Tombstone
  <2>3. Finds(k, s, restores) = Promise!Rejected
    BY <2>2, Outcomes DEF Finds
  <2> QED BY <2>3, <1>7, MayFindCases DEF Allowed
<1>8. CASE k \notin ShortKeys /\ l.how = "saved"
  <2>1. /\ l.key \in MaybeKey /\ l.value \in Arrays
        /\ b = Blob(l.value, Tag(SealOf(l.key, s), l.value))
    BY <1>2, <1>8 DEF Matches
  <2>2. /\ b.kind = "frame" /\ b.frame = l.value /\ b # NoBytes
        /\ b.tag = Tag(SealOf(l.key, s), l.value)
    BY <2>1 DEF Blob, NoBytes
  <2> HIDE DEF b, l
  <2>3. Verified(b, k, s) <=> SameKey(l.key, k)
    <3>1. CASE k = Unset
      <4>1. SameKey(l.key, k) <=> l.key = Unset
        BY <3>1, TermsAssumption DEF SameKey
      <4>2. b.tag = NoTag <=> l.key = Unset
        <5>1. CASE l.key = Unset
          BY <5>1, <2>2, SessionTags DEF NoTag
        <5>2. CASE l.key \in Key
          <6>1. SealOf(l.key, s) = SessionSeal(l.key, s)
            BY <5>2, SessionTags
          <6>2. b.tag = <<<<<<KeyBlock[l.key]>>, <<SessionWord, s>>>>, l.value>>
            BY <5>2, <6>1, <2>2, SessionTags
          <6> QED BY <6>2, <5>2, TermsAssumption DEF NoTag
        <5> QED BY <5>1, <5>2, <2>1 DEF MaybeKey
      <4> QED BY <3>1, <4>1, <4>2 DEF Verified
    <3>2. CASE k \in Key
      BY <3>2, <2>1, <2>2, FitMeansSame, TermsAssumption DEF SameKey, TagFits, Verified
    <3> QED BY <3>1, <3>2 DEF MaybeKey
  <2>4. Promise!MayFind(s, k) = {IF SameKey(l.key, k) THEN Promise!Found(l.value)
                                 ELSE Promise!Rejected}
    BY <1>8, SameNames, MayFindCases DEF l
  <2>5. CASE ~ SameKey(l.key, k)
    <3>1. res = Failure
      BY <1>1, <2>2, <2>3, <2>5, DecodeCases
    <3>2. Finds(k, s, restores) = Promise!Rejected
      BY <3>1, Outcomes DEF Finds, b
    <3> QED BY <3>2, <2>4, <2>5 DEF Allowed
  <2>6. CASE SameKey(l.key, k) /\ restores
    <3>1. res = Success(l.value)
      BY <1>1, <1>8, <2>1, <2>2, <2>3, <2>6, DecodeCases
    <3>2. Finds(k, s, restores) = Promise!Found(l.value)
      BY <3>1, <2>2, Outcomes DEF Finds, b
    <3> QED BY <3>2, <2>4, <2>6 DEF Allowed
  <2>7. CASE SameKey(l.key, k) /\ ~ restores
    <3>1. res = Unrestored
      BY <1>1, <1>8, <2>2, <2>3, <2>7, DecodeCases
    <3>2. Finds(k, s, restores) = Promise!NotRestored
      BY <3>1, Outcomes DEF Finds, b
    <3>3. Promise!Found(l.value) \in Promise!MayFind(s, k)
      BY <2>4, <2>7
    <3> QED BY <3>2, <3>3, DataMayFail
  <2> QED BY <2>5, <2>6, <2>7
<1>9. CASE k \notin ShortKeys /\ l.how = "unknown"
  <2>1. /\ Promise!FoundNothing \in Promise!MayFind(s, k)
        /\ Promise!Rejected \in Promise!MayFind(s, k)
    BY <1>9 DEF Promise!MayFind
  <2>2. CASE res = Failure
    <3>1. Finds(k, s, restores) = Promise!Rejected
      BY <2>2, Outcomes DEF Finds
    <3> QED BY <2>1, <3>1 DEF Allowed
  <2>3. CASE res = Unrestored /\ b.kind = "frame" /\ Verified(b, k, s)
    <3>1. Finds(k, s, restores) = Promise!NotRestored
      BY <2>3, Outcomes DEF Finds
    <3>2. PICK v \in Promise!Value : Promise!Found(v) \in Promise!MayFind(s, k)
      BY <1>1, <1>2, <1>9, <2>3, VerifiedMayBeFound
    <3> QED BY <3>1, <3>2, DataMayFail
  <2>4. CASE \E v \in Arrays : res = Success(v)
    <3>1. res.ok
      BY <2>4, Outcomes
    <3>2. CASE b = NoBytes
      <4>1. Finds(k, s, restores) = Promise!FoundNothing
        BY <3>1, <3>2 DEF Finds
      <4> QED BY <2>1, <4>1 DEF Allowed
    <3>3. CASE b # NoBytes
      <4>1. b.kind = "frame"
        <5>1. b.kind # "tombstone"
          BY <1>1, <3>1, DecodeCases, Outcomes
        <5> QED BY <1>1, <3>3, <5>1 DEF Bytes, NoBytes, Tombstone
      <4>2. Verified(b, k, s)
        BY <1>1, <3>1, <4>1, DecodeCases, Outcomes
      <4>3. b.frame \in Arrays /\ res = Success(b.frame)
        <5>1. restores
          BY <1>1, <1>9, <3>1, <4>1, <4>2, DecodeCases, Outcomes
        <5>2. b.frame \in Arrays
          BY <1>1, <1>9, <3>1, <4>1, <4>2, <5>1, DecodeCases, Outcomes
        <5> QED BY <1>1, <1>9, <4>1, <4>2, <5>1, <5>2, DecodeCases
      <4>4. Finds(k, s, restores) = Promise!Found(b.frame)
        BY <3>3, <4>3, Outcomes DEF Finds
      <4>5. Promise!Found(b.frame) \in Promise!MayFind(s, k)
        BY <1>1, <1>2, <1>9, <4>1, <4>2, <4>3, VerifiedMayBeFound
      <4> QED BY <4>4, <4>5 DEF Allowed
    <3> QED BY <3>2, <3>3
  <2> QED BY <1>3, <2>2, <2>3, <2>4
<1>10. l.how \in {"new", "lost", "saved", "unknown"}
  BY <1>1 DEF Left
<1> QED BY <1>5, <1>6, <1>7, <1>8, <1>9, <1>10

(* What is left of an id, and what is stored under it.                      *)
LEMMA Constructors ==
  /\ Promise!NewLeft \in Left /\ Promise!LostLeft \in Left /\ Promise!UnknownLeft \in Left
  /\ Promise!NewLeft.how = "new" /\ Promise!LostLeft.how = "lost"
  /\ Promise!UnknownLeft.how = "unknown"
  /\ \A k \in MaybeKey, v \in Arrays :
       /\ Promise!SavedLeft(k, v) \in Left /\ Promise!SavedLeft(k, v).how = "saved"
       /\ Promise!SavedLeft(k, v).key = k /\ Promise!SavedLeft(k, v).value = v
  /\ NoBytes \in Bytes /\ Tombstone \in Bytes
  /\ \A k \in MaybeKey, s \in SessionId, f \in Frame :
       Tag(SealOf(k, s), f) \in AnyTag
  /\ \A f \in Frame, t \in AnyTag :
       /\ Blob(f, t) \in Bytes /\ Blob(f, t).kind = "frame"
       /\ Blob(f, t).frame = f /\ Blob(f, t).tag = t
  /\ \A v : Promise!Found(v) # Promise!Rejected
  /\ Promise!FoundNothing # Promise!Rejected
<1>1. \A k \in MaybeKey, s \in SessionId, f \in Frame : Tag(SealOf(k, s), f) \in AnyTag
  BY DEF AnyTag
<1>2. /\ Promise!NewLeft \in Left /\ Promise!LostLeft \in Left /\ Promise!UnknownLeft \in Left
      /\ Promise!NewLeft.how = "new" /\ Promise!LostLeft.how = "lost"
      /\ Promise!UnknownLeft.how = "unknown"
  BY DEF Left, Promise!NewLeft, Promise!LostLeft, Promise!UnknownLeft
<1>3. \A k \in MaybeKey, v \in Arrays :
       /\ Promise!SavedLeft(k, v) \in Left /\ Promise!SavedLeft(k, v).how = "saved"
       /\ Promise!SavedLeft(k, v).key = k /\ Promise!SavedLeft(k, v).value = v
  BY DEF Left, Promise!SavedLeft
<1>4. NoBytes \in Bytes /\ Tombstone \in Bytes
  BY DEF Bytes
<1>5. \A f \in Frame, t \in AnyTag :
       /\ Blob(f, t) \in Bytes /\ Blob(f, t).kind = "frame"
       /\ Blob(f, t).frame = f /\ Blob(f, t).tag = t
  BY DEF Bytes, Blob
<1>6. /\ \A v : Promise!Found(v) # Promise!Rejected
      /\ Promise!FoundNothing # Promise!Rejected
  BY DEF Promise!Found, Promise!Rejected, Promise!FoundNothing
<1> QED BY <1>1, <1>2, <1>3, <1>4, <1>5, <1>6

(* The types of the store and of the history, in this module's names.       *)
LEMMA Typed ==
  /\ TypeOK => store \in [SessionId -> Bytes] /\ last \in [SessionId -> Left]
  /\ TypeOK' => store' \in [SessionId -> Bytes] /\ last' \in [SessionId -> Left]
BY DEF TypeOK, Bytes, Left

(* A start keeps the invariant and finds what the promise allows.           *)
LEMMA StartStep ==
  ASSUME SessionInv, NEW r \in Request, NEW s \in SessionId, NEW restores \in BOOLEAN,
         Start(r, s, restores)
  PROVE  SessionInv' /\ Promise!Open(r, s)
<1> DEFINE res == Decode(store[s], config, s, restores)
           x == Finds(config, s, restores)
<1>1. TypeOK /\ KeysUsable /\ StoreMatches /\ config \in MaybeKey
  BY DEF SessionInv, TypeOK
<1>2. \A t \in SessionId : Matches(t, store[t], last[t], signed)
  BY <1>1, MatchesEach
<1>3. /\ Allowed(x, s, config)
      /\ res.ok => res.value \in Arrays
  BY <1>1, <1>2, FindsWhatMayBeFound
<1>4. config \in ShortKeys => ~ res.ok
  BY Outcomes DEF Decode
<1>5. /\ phase[r] = "none"
      /\ UNCHANGED <<config, signed, engine, saves, events>>
  BY DEF Start
<1>6. CASE res.ok
  <2>1. /\ phase' = [phase EXCEPT ![r] = "active"]
        /\ key' = [key EXCEPT ![r] = config]
        /\ sid' = [sid EXCEPT ![r] = s]
        /\ data' = [data EXCEPT ![r] = res.value]
        /\ view' = [view EXCEPT ![r] = IF store[s] = NoBytes THEN Promise!FoundNothing
                                         ELSE Promise!Found(res.value)]
        /\ UNCHANGED <<store, last>>
    BY <1>6 DEF Start
  <2> HIDE DEF res
  <2>2. TypeOK'
    BY <1>1, <1>3, <1>5, <1>6, <2>1 DEF TypeOK
  <2>3. KeysUsable'
    BY <1>1, <1>4, <1>5, <1>6, <2>1 DEF KeysUsable, TypeOK
  <2>4. StoreMatches'
    BY <1>2, <1>5, <2>1, MatchesEach
  <2>5. x = IF store[s] = NoBytes THEN Promise!FoundNothing ELSE Promise!Found(res.value)
    BY <1>6 DEF Finds, res
  <2> HIDE DEF x
  <2>6. x # Promise!Rejected /\ x # Promise!NotRestored
    BY <2>5, ViewsDiffer
  <2>7. view' = [view EXCEPT ![r] = x]
    BY <2>1, <2>5
  <2>8. x \in Promise!MayFind(s, config)
    BY <1>3, <2>6 DEF Allowed
  <2> QED BY <1>5, <2>1, <2>2, <2>3, <2>4, <2>6, <2>7, <2>8 DEF SessionInv, Promise!Open
<1>7. CASE ~ res.ok
  <2>1. /\ store' = [store EXCEPT ![s] = NoBytes]
        /\ last' = [last EXCEPT ![s] = Promise!NewLeft]
        /\ view' = [view EXCEPT ![r] = IF res.verified THEN Promise!NotRestored
                                       ELSE Promise!Rejected]
        /\ UNCHANGED <<phase, key, sid, data>>
    BY <1>7 DEF Start
  <2>2. TypeOK'
    <3>1. store' \in [SessionId -> Bytes] /\ last' \in [SessionId -> Left]
      BY <1>1, <2>1, Typed, Constructors
    <3> QED BY <1>1, <1>5, <2>1, <3>1 DEF TypeOK, Bytes, Left
  <2>3. KeysUsable'
    BY <1>1, <1>5, <2>1 DEF KeysUsable, TypeOK
  <2>4. StoreMatches'
    <3>1. \A t \in SessionId : Matches(t, store'[t], last'[t], signed')
      <4>1. ASSUME NEW t \in SessionId PROVE Matches(t, store'[t], last'[t], signed')
        <5>1. CASE t = s
          <6>1. store'[t] = NoBytes /\ last'[t] = Promise!NewLeft
            BY <5>1, <2>1, <1>1, Typed
          <6> QED BY <6>1, Constructors DEF Matches
        <5>2. CASE t # s
          BY <5>2, <2>1, <1>1, <1>2, <1>5, Typed
        <5> QED BY <5>1, <5>2
      <4> QED BY <4>1
    <3> QED BY <3>1, MatchesEach
  <2>5. x = IF res.verified THEN Promise!NotRestored ELSE Promise!Rejected
    BY <1>7 DEF Finds
  <2>6. view' = [view EXCEPT ![r] = x]
    BY <2>1, <2>5
  <2>7. x \in {Promise!Rejected, Promise!NotRestored}
    BY <2>5
  <2> HIDE DEF x
  <2>8. x \in Promise!MayFind(s, config) \cup {Promise!NotRestored}
    BY <1>3 DEF Allowed
  <2>9. Promise!Open(r, s)
    <3>1. CASE x \in Promise!MayFind(s, config) /\ x # Promise!NotRestored
      BY <3>1, <1>5, <2>1, <2>6, <2>7 DEF Promise!Open
    <3>2. CASE x = Promise!NotRestored /\ Promise!MayFindData(s, config)
      BY <3>2, <1>5, <2>1, <2>6, <2>7 DEF Promise!Open
    <3>3. CASE x = Promise!NotRestored /\ x \in Promise!MayFind(s, config)
      <4>1. Promise!MayFindData(s, config)
        BY <3>3 DEF Promise!MayFindData, Promise!NotRestored, Promise!Rejected, Promise!FoundNothing
      <4> QED BY <3>3, <4>1, <1>5, <2>1, <2>6, <2>7 DEF Promise!Open
    <3> QED BY <1>3, <3>1, <3>2, <3>3 DEF Allowed
  <2> QED BY <2>2, <2>3, <2>4, <2>9 DEF SessionInv
<1> QED BY <1>6, <1>7

(* Steps of one request that leave the store and its history alone.         *)
LEMMA OwnStep ==
  ASSUME SessionInv, NEW r \in Request,
         \/ \E v \in Arrays : Assign(r, v)
         \/ \E s \in SessionId : ChangeId(r, s)
         \/ BeginSave(r)
  PROVE  SessionInv' /\ UNCHANGED <<config, last, signed, view>>
<1>1. UNCHANGED <<config, last, signed, view, engine, store, key>>
  BY DEF Assign, ChangeId, BeginSave
<1>2. TypeOK'
  BY <1>1 DEF SessionInv, TypeOK, Assign, ChangeId, BeginSave
<1>3. KeysUsable'
  BY <1>1 DEF SessionInv, TypeOK, KeysUsable, Assign, ChangeId, BeginSave
<1>4. StoreMatches'
  BY <1>1, MatchesEach DEF SessionInv
<1> QED BY <1>1, <1>2, <1>3, <1>4 DEF SessionInv

(* A session that is destroyed is new again.                                *)
LEMMA DestroyStep ==
  ASSUME SessionInv, NEW r \in Request, Destroy(r)
  PROVE  SessionInv' /\ \E s \in SessionId : Promise!Leave(s, Promise!NewLeft)
<1>1. /\ TypeOK /\ KeysUsable /\ StoreMatches
      /\ store \in [SessionId -> Bytes] /\ last \in [SessionId -> Left]
  BY Typed DEF SessionInv
<1>2. PICK s \in SessionId :
        /\ s = sid[r] /\ sid' = [sid EXCEPT ![r] = NoSid]
        /\ store' = [store EXCEPT ![s] = NoBytes]
        /\ last' = [last EXCEPT ![s] = Promise!NewLeft]
        /\ UNCHANGED <<config, signed, view, engine, key, phase, data, saves>>
  BY <1>1 DEF Destroy, TypeOK
<1>3. TypeOK' /\ KeysUsable'
  <2>1. store' \in [SessionId -> Bytes] /\ last' \in [SessionId -> Left]
    BY <1>1, <1>2, Constructors
  <2> QED BY <1>1, <1>2, <2>1 DEF TypeOK, KeysUsable, Bytes, Left
<1>4. StoreMatches'
  <2>1. ASSUME NEW t \in SessionId PROVE Matches(t, store'[t], last'[t], signed')
    <3>1. CASE t = s
      <4>1. store'[t] = NoBytes /\ last'[t] = Promise!NewLeft
        BY <3>1, <1>1, <1>2
      <4> QED BY <4>1, Constructors DEF Matches
    <3>2. CASE t # s
      BY <3>2, <1>1, <1>2, MatchesEach
    <3> QED BY <3>1, <3>2
  <2> QED BY <2>1, MatchesEach
<1> QED BY <1>2, <1>3, <1>4 DEF SessionInv, Promise!Leave

(* What is stored at the end of a walk belongs to how the id is left.       *)
LEMMA FinishStep ==
  ASSUME SessionInv, NEW r \in Request, NEW outcome \in {"ok", "limit", "exception"},
         FinishSave(r, outcome)
  PROVE  /\ SessionInv'
         /\ \/ UNCHANGED <<config, last, signed, view>>
            \/ \E s \in SessionId :
                 \/ \E k \in MaybeKey, v \in Promise!Value : Promise!Save(s, k, v)
                 \/ \E how \in {Promise!NewLeft, Promise!LostLeft, Promise!UnknownLeft} :
                      Promise!Leave(s, how)
<1> DEFINE s == sid[r]
           k == key[r]
           v == data[r]
           bytes == Encoded(k, s, v, outcome)
<1>1. /\ TypeOK /\ KeysUsable /\ StoreMatches
      /\ s \in SessionId \cup {NoSid} /\ k \in MaybeKey /\ v \in Arrays
  BY DEF SessionInv, TypeOK
<1>2. \A t \in SessionId : Matches(t, store[t], last[t], signed)
  BY <1>1, MatchesEach
<1>3. /\ phase[r] = "encoding" /\ phase' = [phase EXCEPT ![r] = "none"]
      /\ sid' = [sid EXCEPT ![r] = NoSid] /\ data' = [data EXCEPT ![r] = EmptyArray]
      /\ key' = [key EXCEPT ![r] = Unset]
      /\ UNCHANGED <<config, view, engine, saves, events>>
  BY DEF FinishSave
<1>4. k \notin ShortKeys
  BY <1>1, <1>3 DEF KeysUsable
<1>5. KeysUsable'
  BY <1>1, <1>3 DEF KeysUsable, TypeOK
<1>6. CASE UNCHANGED <<store, last, signed>>
  <2>1. TypeOK'
    BY <1>1, <1>3, <1>6, EmptyIsArray DEF TypeOK, MaybeKey
  <2>2. StoreMatches'
    BY <1>2, <1>6, MatchesEach
  <2> QED BY <1>3, <1>5, <1>6, <2>1, <2>2 DEF SessionInv
<1>7. CASE /\ s # NoSid
           /\ store' = [store EXCEPT ![s] = IF bytes = Null THEN NoBytes ELSE bytes]
           /\ last' = [last EXCEPT ![s] =
                CASE outcome = "ok"        -> Promise!SavedLeft(k, v)
                  [] outcome = "limit"     -> Promise!LostLeft
                  [] outcome = "exception" -> Promise!NewLeft]
           /\ signed' = IF outcome = "ok" THEN signed \cup {<<s, k, v>>} ELSE signed
  <2> DEFINE b == IF bytes = Null THEN NoBytes ELSE bytes
             l == CASE outcome = "ok"        -> Promise!SavedLeft(k, v)
                    [] outcome = "limit"     -> Promise!LostLeft
                    [] outcome = "exception" -> Promise!NewLeft
  <2>1. s \in SessionId /\ v \in Frame
    BY <1>1, <1>7, ArraysAreFrames
  <2>2. /\ Tag(SealOf(k, s), v) \in AnyTag
        /\ Blob(v, Tag(SealOf(k, s), v)) \in Bytes
    BY <1>1, <2>1, Constructors
  <2>3. /\ b \in Bytes /\ l \in Left /\ Matches(s, b, l, signed')
    <3>1. CASE outcome = "ok"
      <4>1. bytes = Blob(v, Tag(SealOf(k, s), v))
        BY <3>1, <1>4, <1>7 DEF Encoded
      <4>2. b = bytes
        BY <4>1 DEF Blob, Null
      <4>3. l = Promise!SavedLeft(k, v)
        BY <3>1
      <4>4. <<s, k, v>> \in signed'
        BY <3>1, <1>7
      <4> HIDE DEF b, l, bytes, s, k, v
      <4>5. b \in Bytes
        BY <4>1, <4>2, <2>2
      <4>6. l \in Left /\ l.how = "saved" /\ l.key = k /\ l.value = v
        BY <4>3, <1>1, Constructors
      <4>7. Matches(s, b, l, signed')
        BY <4>1, <4>2, <4>4, <4>6, <1>1, <1>4 DEF Matches
      <4> QED BY <4>5, <4>6, <4>7
    <3>2. CASE outcome = "limit"
      <4>1. bytes = Tombstone
        BY <3>2, <1>4 DEF Encoded
      <4>2. b = Tombstone
        BY <4>1 DEF Tombstone, Null
      <4>3. l = Promise!LostLeft
        BY <3>2
      <4> HIDE DEF b, l, bytes
      <4> QED BY <4>2, <4>3, Constructors DEF Matches
    <3>3. CASE outcome = "exception"
      <4>1. bytes = Null
        BY <3>3, <1>4 DEF Encoded
      <4>2. b = NoBytes
        BY <4>1
      <4>3. l = Promise!NewLeft
        BY <3>3
      <4> HIDE DEF b, l, bytes
      <4> QED BY <4>2, <4>3, Constructors DEF Matches
    <3> QED BY <3>1, <3>2, <3>3
  <2>4. store' = [store EXCEPT ![s] = b] /\ last' = [last EXCEPT ![s] = l]
    BY <1>7
  <2>5. /\ outcome = "ok" => l = Promise!SavedLeft(k, v)
        /\ outcome = "limit" => l = Promise!LostLeft
        /\ outcome = "exception" => l = Promise!NewLeft
    OBVIOUS
  <2>6. signed \subseteq signed' /\ signed' \subseteq SessionId \X MaybeKey \X Arrays
    BY <1>1, <1>7, <2>1 DEF TypeOK
  <2> HIDE DEF b, l
  <2>7. TypeOK'
    <3>1. store' \in [SessionId -> Bytes] /\ last' \in [SessionId -> Left]
      BY <1>1, <2>1, <2>3, <2>4, Typed
    <3> QED BY <1>1, <1>3, <2>6, <3>1, EmptyIsArray DEF TypeOK, Bytes, Left, MaybeKey
  <2>8. StoreMatches'
    <3>1. \A t \in SessionId : Matches(t, store'[t], last'[t], signed')
      <4>1. ASSUME NEW t \in SessionId PROVE Matches(t, store'[t], last'[t], signed')
        <5>1. CASE t = s
          <6>1. store'[t] = b /\ last'[t] = l
            BY <5>1, <2>1, <2>4, <1>1, Typed
          <6> QED BY <6>1, <5>1, <2>3
        <5>2. CASE t # s
          <6>1. store'[t] = store[t] /\ last'[t] = last[t] /\ last[t] \in Left
            BY <5>2, <2>4, <1>1, Typed
          <6> QED BY <6>1, <1>2, <2>6, MatchesMore
        <5> QED BY <5>1, <5>2
      <4> QED BY <4>1
    <3> QED BY <3>1, MatchesEach
  <2>9. \/ \E k_ \in MaybeKey, v_ \in Promise!Value : Promise!Save(s, k_, v_)
        \/ \E how \in {Promise!NewLeft, Promise!LostLeft, Promise!UnknownLeft} :
             Promise!Leave(s, how)
    <3>1. CASE outcome = "ok"
      <4>1. Promise!Save(s, k, v)
        BY <3>1, <2>4, <2>5, <1>3, <1>7 DEF Promise!Save
      <4>2. v \in Promise!Value
        BY <1>1, ArraysAreFrames DEF Promise!Value
      <4> QED BY <4>1, <4>2, <1>1
    <3>2. CASE outcome # "ok"
      BY <3>2, <2>4, <2>5, <1>3, <1>7 DEF Promise!Leave
    <3> QED BY <3>1, <3>2
  <2> QED BY <1>5, <2>1, <2>7, <2>8, <2>9 DEF SessionInv
<1>8. \/ UNCHANGED <<store, last, signed>>
      \/ /\ s # NoSid
         /\ store' = [store EXCEPT ![s] = IF bytes = Null THEN NoBytes ELSE bytes]
         /\ last' = [last EXCEPT ![s] =
              CASE outcome = "ok"        -> Promise!SavedLeft(k, v)
                [] outcome = "limit"     -> Promise!LostLeft
                [] outcome = "exception" -> Promise!NewLeft]
         /\ signed' = IF outcome = "ok" THEN signed \cup {<<s, k, v>>} ELSE signed
  BY DEF FinishSave
<1> QED BY <1>6, <1>7, <1>8

(* New configurations reach requests that start later.                      *)
LEMMA ConfigureStep ==
  ASSUME SessionInv, NEW k \in MaybeKey, Configure(k)
  PROVE  SessionInv' /\ Promise!Configure
<1>1. /\ config' = k
      /\ UNCHANGED <<last, signed, view, engine, store, key, phase, sid, data, saves>>
  BY DEF Configure
<1>2. TypeOK' /\ KeysUsable'
  BY <1>1 DEF SessionInv, TypeOK, KeysUsable
<1>3. StoreMatches'
  BY <1>1, MatchesEach DEF SessionInv
<1> QED BY <1>1, <1>2, <1>3, SameNames DEF SessionInv, Promise!Configure

(* Bytes some store might have: their tags are made by saves, or missing.   *)
Plausible(b) ==
  b.kind = "frame" =>
    /\ b.frame \in Frame
    /\ b.tag = NoTag \/ \E save \in signed :
         b.tag = Tag(SealOf(save[2], save[1]), save[3])

(* What matches is plausible.                                               *)
LEMMA MatchingIsPlausible ==
  ASSUME NEW s \in SessionId, NEW b \in Bytes, NEW l \in Left, Matches(s, b, l, signed)
  PROVE  Plausible(b)
<1>1. CASE l.how = "new" \/ l.how = "lost"
  <2>1. b = NoBytes \/ b = Tombstone
    <3>1. CASE l.how = "new"
      BY <3>1 DEF Matches
    <3>2. CASE l.how = "lost"
      BY <3>2 DEF Matches
    <3> QED BY <1>1, <3>1, <3>2
  <2>2. b.kind # "frame"
    BY <2>1 DEF NoBytes, Tombstone
  <2> QED BY <2>2 DEF Plausible
<1>2. CASE l.how = "unknown"
  BY <1>2 DEF Matches, Plausible
<1>3. CASE l.how = "saved"
  <2>1. /\ l.value \in Arrays /\ b = Blob(l.value, Tag(SealOf(l.key, s), l.value))
        /\ <<s, l.key, l.value>> \in signed
    BY <1>3 DEF Matches
  <2>2. b.frame = l.value /\ b.tag = Tag(SealOf(l.key, s), l.value)
    BY <2>1 DEF Blob
  <2> QED BY <2>1, <2>2, ArraysAreFrames DEF Plausible
<1> QED BY <1>1, <1>2, <1>3 DEF Left

(* Damage is not told from the outside, but makes no tag.                   *)
LEMMA DamageStep ==
  ASSUME SessionInv, NEW s \in SessionId, Damage(s)
  PROVE  SessionInv' /\ Promise!Leave(s, Promise!UnknownLeft)
<1>1. /\ TypeOK /\ KeysUsable /\ StoreMatches
      /\ store \in [SessionId -> Bytes] /\ last \in [SessionId -> Left]
      /\ signed \subseteq SessionId \X MaybeKey \X Arrays
  BY Typed DEF SessionInv, TypeOK
<1>2. \A t \in SessionId : Matches(t, store[t], last[t], signed)
  BY <1>1, MatchesEach
<1>3. \A t \in SessionId : store[t] \in Bytes /\ Plausible(store[t])
  <2>1. ASSUME NEW t \in SessionId PROVE store[t] \in Bytes /\ Plausible(store[t])
    <3>1. store[t] \in Bytes /\ last[t] \in Left
      BY <1>1
    <3> QED BY <3>1, <1>2, MatchingIsPlausible
  <2> QED BY <2>1
<1>4. /\ last' = [last EXCEPT ![s] = Promise!UnknownLeft]
      /\ UNCHANGED <<config, signed, view, engine, key, phase, sid, data, saves>>
  BY DEF Damage
<1>5. PICK b \in Bytes : Plausible(b) /\ store' = [store EXCEPT ![s] = b]
  <2>1. CASE \E t \in SessionId : store' = [store EXCEPT ![s] = store[t]]
    BY <2>1, <1>3
  <2>2. CASE \E f \in Frame : store' = [store EXCEPT ![s] = Blob(f, NoTag)]
    <3>1. PICK f \in Frame : store' = [store EXCEPT ![s] = Blob(f, NoTag)]
      BY <2>2
    <3>2. NoTag \in AnyTag
      <4>1. Tag(SealOf(Unset, s), f) = NoTag
        BY SessionTags DEF NoTag
      <4> QED BY <4>1, Constructors DEF MaybeKey
    <3>3. Blob(f, NoTag) \in Bytes /\ Plausible(Blob(f, NoTag))
      BY <3>2, Constructors DEF Plausible
    <3> QED BY <3>1, <3>3
  <2>3. CASE \E f \in Frame, t \in SessionId :
          store[t].kind = "frame" /\ store' = [store EXCEPT ![s] = Blob(f, store[t].tag)]
    <3>1. PICK f \in Frame, t \in SessionId :
            store[t].kind = "frame" /\ store' = [store EXCEPT ![s] = Blob(f, store[t].tag)]
      BY <2>3
    <3>2. store[t].tag \in AnyTag
      <4>1. store[t] \in Bytes
        BY <1>3
      <4> QED BY <4>1, <3>1 DEF Bytes, NoBytes, Tombstone
    <3>3. Blob(f, store[t].tag) \in Bytes /\ Plausible(Blob(f, store[t].tag))
      BY <3>1, <3>2, <1>3, Constructors DEF Plausible
    <3> QED BY <3>1, <3>3
  <2>4. CASE \E save \in signed :
          store' = [store EXCEPT ![s] =
                      Blob(save[3], Tag(SealOf(save[2], save[1]), save[3]))]
    <3>1. PICK save \in signed :
            store' = [store EXCEPT ![s] =
                        Blob(save[3], Tag(SealOf(save[2], save[1]), save[3]))]
      BY <2>4
    <3> DEFINE t == Tag(SealOf(save[2], save[1]), save[3])
    <3>2. save[1] \in SessionId /\ save[2] \in MaybeKey /\ save[3] \in Frame
      BY <1>1, ArraysAreFrames
    <3>3. t \in AnyTag
      BY <3>2, Constructors
    <3> HIDE DEF t
    <3>4. /\ Blob(save[3], t) \in Bytes
          /\ Blob(save[3], t).frame = save[3] /\ Blob(save[3], t).tag = t
      BY <3>2, <3>3, Constructors
    <3>5. Plausible(Blob(save[3], t))
      BY <3>2, <3>4 DEF Plausible, t
    <3> QED BY <3>1, <3>4, <3>5 DEF t
  <2>5. CASE store' = [store EXCEPT ![s] = NoBytes]
    BY <2>5, Constructors DEF Plausible, NoBytes
  <2> QED BY <2>1, <2>2, <2>3, <2>4, <2>5 DEF Damage
<1>6. TypeOK' /\ KeysUsable'
  <2>1. store' \in [SessionId -> Bytes] /\ last' \in [SessionId -> Left]
    BY <1>1, <1>4, <1>5, Constructors
  <2> QED BY <1>1, <1>4, <2>1 DEF TypeOK, KeysUsable, Bytes, Left
<1>7. StoreMatches'
  <2>1. ASSUME NEW t \in SessionId PROVE Matches(t, store'[t], last'[t], signed')
    <3>1. CASE t = s
      <4>1. store'[t] = b /\ last'[t] = Promise!UnknownLeft
        BY <3>1, <1>1, <1>4, <1>5
      <4> QED BY <4>1, <1>4, <1>5, Constructors DEF Matches, Plausible
    <3>2. CASE t # s
      BY <3>2, <1>1, <1>2, <1>4, <1>5
    <3> QED BY <3>1, <3>2
  <2> QED BY <2>1, MatchesEach
<1> QED BY <1>4, <1>6, <1>7 DEF SessionInv, Promise!Leave

(* At first nothing is stored and every id is new.                          *)
LEMMA StartsKept == Init => SessionInv
<1> SUFFICES ASSUME Init PROVE SessionInv
  OBVIOUS
<1>1. /\ config \in MaybeKey /\ last = [s \in SessionId |-> Promise!NewLeft]
      /\ signed = {} /\ store = [s \in SessionId |-> NoBytes]
  BY SameNames DEF Init, Promise!Init
<1>2. store \in [SessionId -> Bytes] /\ last \in [SessionId -> Left]
  BY <1>1, Constructors
<1>3. TypeOK
  BY <1>1, <1>2, EmptyIsArray DEF Init, TypeOK, Bytes, Left, MaybeKey
<1>4. KeysUsable
  BY DEF Init, KeysUsable
<1>5. \A s \in SessionId : Matches(s, store[s], last[s], signed)
  BY <1>1, Constructors DEF Matches
<1> QED BY <1>3, <1>4, <1>5, MatchesEach DEF SessionInv

(* Every step keeps the invariant, and is a step of the promise or none.    *)
LEMMA StepKept ==
  SessionInv /\ [Next]_vars =>
    SessionInv' /\ [Promise!Next]_<<config, last, signed, view>>
<1> SUFFICES ASSUME SessionInv, [Next]_vars
             PROVE  SessionInv' /\ [Promise!Next]_<<config, last, signed, view>>
  OBVIOUS
<1>1. ASSUME NEW r \in Request, NEW s \in SessionId, NEW restores \in BOOLEAN,
             Start(r, s, restores)
      PROVE  SessionInv' /\ Promise!Next
  BY <1>1, StartStep DEF Promise!Next
<1>2. ASSUME NEW r \in Request,
             \/ \E v \in Arrays : Assign(r, v)
             \/ \E s \in SessionId : ChangeId(r, s)
             \/ BeginSave(r)
      PROVE  SessionInv' /\ UNCHANGED <<config, last, signed, view>>
  BY <1>2, OwnStep
<1>3. ASSUME NEW r \in Request, NEW outcome \in {"ok", "limit", "exception"},
             FinishSave(r, outcome)
      PROVE  /\ SessionInv'
             /\ UNCHANGED <<config, last, signed, view>> \/ Promise!Next
  <2>1. CASE UNCHANGED <<config, last, signed, view>>
    BY <1>3, <2>1, FinishStep
  <2>2. CASE ~ UNCHANGED <<config, last, signed, view>>
    <3>1. PICK s \in SessionId :
            \/ \E k \in MaybeKey, v \in Promise!Value : Promise!Save(s, k, v)
            \/ \E how \in {Promise!NewLeft, Promise!LostLeft, Promise!UnknownLeft} :
                 Promise!Leave(s, how)
      BY <1>3, <2>2, FinishStep
    <3>2. Promise!Next
      BY <3>1, SameNames DEF Promise!Next
    <3> QED BY <1>3, <3>2, FinishStep
  <2> QED BY <2>1, <2>2
<1>4. ASSUME NEW k \in MaybeKey, Configure(k)
      PROVE  SessionInv' /\ Promise!Next
  BY <1>4, ConfigureStep DEF Promise!Next
<1>5. ASSUME NEW s \in SessionId, Damage(s)
      PROVE  SessionInv' /\ Promise!Next
  BY <1>5, DamageStep DEF Promise!Next
<1>6. ASSUME NEW r \in Request, Destroy(r)
      PROVE  SessionInv' /\ Promise!Next
  BY <1>6, DestroyStep DEF Promise!Next
<1>7. CASE UNCHANGED vars
  <2>1. UNCHANGED <<config, last, signed, view, engine, store, key, phase, sid, data>>
    BY <1>7 DEF vars
  <2>2. TypeOK' /\ KeysUsable'
    BY <2>1 DEF SessionInv, TypeOK, KeysUsable
  <2>3. StoreMatches'
    BY <2>1, MatchesEach DEF SessionInv
  <2> QED BY <2>1, <2>2, <2>3 DEF SessionInv
<1> QED BY <1>1, <1>2, <1>3, <1>4, <1>5, <1>6, <1>7 DEF Next

(* For every set of keys, ids, values and requests, whatever hooks, other   *)
(* requests and the store do: an id holds what the history says it holds.   *)
THEOREM StoreMatchesHistory == Spec => []SessionInv
<1>1. Init => SessionInv
  BY StartsKept
<1>2. SessionInv /\ [Next]_vars => SessionInv'
  BY StepKept
<1> QED BY <1>1, <1>2, PTL DEF Spec

(* The handler implements its promise: a request finds what the id was left *)
(* with, and never another id's or another key's data; a saved session is   *)
(* not found under its own key only if its hooks, classes or memory fail to *)
(* restore it.                                                              *)
THEOREM SessionKeepsPromise == Spec => ImplementsSessionPromise
<1>1. Init => Promise!Init
  BY DEF Init
<1>2. SessionInv /\ [Next]_vars => [Promise!Next]_<<config, last, signed, view>>
  BY StepKept
<1> QED BY <1>1, <1>2, StoreMatchesHistory, PTL DEF Spec, ImplementsSessionPromise, Promise!Spec
=============================================================================
