---------------------------- MODULE FrameProofs ----------------------------
(***************************************************************************)
(* What both ends of a frame agree about beside its values: the strings    *)
(* of its dictionary (StringIntern), what it may cost (Budgets), and how   *)
(* its numbers are spelled (WireNumbers).                                  *)
(*                                                                         *)
(* Strings: IInv is inductive; WireFidelity follows from it, and with      *)
(* WireFidelity the refinement of StringStream is one appended element per *)
(* answered call.                                                          *)
(*                                                                         *)
(* Budgets: the decoder affords every frame of the encoder, for any sizes  *)
(* of tables and any allowances, as long as no object is decoded without   *)
(* its hook.                                                               *)
(*                                                                         *)
(* Numbers: the reader keeps the bits it knows of a number, which with the *)
(* ones still unread make up its zigzag; of a run it has stored a prefix.  *)
(***************************************************************************)
EXTENDS StringIntern, Budgets, WireNumbers, WellFoundedInduction, NaturalsInduction, TLAPS

(* A set of naturals that is not empty has a least element.                *)
LEMMA LeastNat ==
  ASSUME NEW T \in SUBSET Nat, T # {}
  PROVE  \E x \in T : \A y \in T : x <= y
<1>1. PICK x \in T : \A y \in T : <<y, x>> \notin OpToRel(<, Nat)
  BY WFMin, NatLessThanWellFounded, Zenon
<1>2. \A y \in T : ~ (y < x)
  BY <1>1, Zenon DEF OpToRel
<1> QED
  BY <1>2

(* FirstIndexIn is 0 or an index of an entry with those bytes.             *)
LEMMA FirstIndex ==
  ASSUME NEW entries \in Seq(Addr), NEW c
  PROVE  \/ FirstIndexIn(entries, c) = 0
         \/ /\ FirstIndexIn(entries, c) \in DOMAIN entries
            /\ heap[entries[FirstIndexIn(entries, c)]] = c
<1>1. CASE ~ \E i \in DOMAIN entries : heap[entries[i]] = c
  BY <1>1 DEF FirstIndexIn
<1>2. CASE \E i \in DOMAIN entries : heap[entries[i]] = c
  <2> DEFINE T == {i \in DOMAIN entries : heap[entries[i]] = c}
  <2>1. T \in SUBSET Nat /\ T # {}
    BY <1>2
  <2>2. PICK x \in T : \A y \in T : x <= y
    BY <2>1, LeastNat
  <2>3. \E i \in DOMAIN entries :
          /\ heap[entries[i]] = c
          /\ \A j \in DOMAIN entries : heap[entries[j]] = c => i <= j
    BY <2>2
  <2> QED
    BY <1>2, <2>3 DEF FirstIndexIn
<1> QED
  BY <1>1, <1>2

-----------------------------------------------------------------------------

(* The four ways a call can leave the encoder, as far as the invariant can *)
(* tell: a reference to an entry the string already equals, the string     *)
(* appended to the dictionary, inline bytes, and the oversize flag.        *)
RefToEntry(zs, idx) ==
  /\ idx \in DOMAIN dict
  /\ heap[dict[idx]] = heap[zs]
  /\ icache' = icache \/ (zs \in Interned /\ icache' = [icache EXCEPT ![zs] = idx])
  /\ stream' = Append(stream, DictRef(idx, zs))
  /\ UNCHANGED <<dict, contentMap, mapState, sizeExceeded>>

NewEntry(zs) ==
  /\ DictAppend(zs)
  /\ icache' = [icache EXCEPT ![zs] = Len(dict) + 1]
  /\ stream' = Append(stream, DictRef(Len(dict) + 1, zs))

(* A write is one of six steps of the tagged emit, intern or probe.        *)
LEMMA WriteCases ==
  ASSUME IInv, NEW zs \in Addr, Write(zs)
  PROVE  \/ \E idx \in Nat : RefToEntry(zs, idx)
         \/ NewEntry(zs)
         \/ EmitInline(zs)
         \/ EmitOversize(zs)
<1> USE DEF IInv, TypeOK
<1>1. heap[zs] \in Content
  BY DEF Write, Alive
<1>2. CASE EmitKnown(zs)
  BY <1>2 DEF EmitKnown, RefToEntry, StableSlots, IsDictSlot, NoSlot, InlineMark, encoder,
                 Answered
<1>3. CASE EmitContentHit(zs) \/ InternHit(zs)
  <2> DEFINE idx == MapHit(zs)
  <2>1. idx \in DOMAIN dict /\ heap[dict[idx]] = heap[zs]
    BY <1>1, <1>3 DEF EmitContentHit, InternHit, MapHit, MapSound
  <2>2. idx \in Nat
    BY <2>1
  <2> QED
    BY <1>3, <2>1, <2>2 DEF EmitContentHit, InternHit, RefToEntry, SeedOnHit,
                            SetSlot, Answered
<1>4. CASE EmitPromote(zs) \/ InternNew(zs)
  BY <1>4 DEF EmitPromote, InternNew, NewEntry, SetSlot, Answered
<1>5. CASE EmitInline(zs) \/ EmitOversize(zs)
  BY <1>5
<1> QED
  BY <1>2, <1>3, <1>4, <1>5 DEF Write, EmitTagged, Intern, Probe

-----------------------------------------------------------------------------

(* The invariant holds before the first string is written.                 *)
LEMMA InitInv == Init => IInv
<1> SUFFICES ASSUME Init PROVE IInv
  OBVIOUS
<1>1. /\ DOMAIN dict = {} /\ DOMAIN stream = {} /\ DictOwned = {}
      /\ frame = "open"
  BY DEF Init, DictOwned
<1>2. TypeOK
  <2>1. /\ dict \in Seq(Addr) /\ stream \in Seq(Answer) /\ header \in Seq(Content)
    BY DEF Init
  <2> QED
    BY <2>1 DEF Init, TypeOK
<1>3. Alive /\ SizeFlag
  BY <1>1 DEF Init, Alive, SizeFlag
<1>4. StableSlots /\ MapSound
  BY DEF Init, StableSlots, MapSound, IsDictSlot, NoSlot
<1>5. RefsInHeader /\ WireFidelity /\ NoOversizeSealed /\ NoLeakAfterFinish
  BY <1>1 DEF RefsInHeader, WireFidelity, NoOversizeSealed, NoLeakAfterFinish
<1> QED
  BY <1>2, <1>3, <1>4, <1>5 DEF IInv

(* User code allocates where nothing lives: no slot, entry or answer can   *)
(* be about that address's old bytes.                                      *)
LEMMA AllocateInv ==
  ASSUME IInv, NEW a \in Addr, NEW c \in Content, Allocate(a, c)
  PROVE  IInv'
<1> USE InternAssumption DEF IInv, Allocate, encoder
<1>1. /\ frame = "open" /\ frame' = "open"
      /\ heap' = [heap EXCEPT ![a] = c]
      /\ UNCHANGED <<icache, dict, contentMap, mapState, sizeExceeded, stream, header>>
  OBVIOUS
<1>2. a \notin DictOwned
  BY DEF Alive
<1>3. \A i \in DOMAIN dict : heap'[dict[i]] = heap[dict[i]]
  BY <1>1, <1>2 DEF TypeOK, DictOwned
<1>4. DictOwned' = DictOwned
  BY <1>1 DEF DictOwned
<1>5. TypeOK'
  BY <1>1 DEF TypeOK
<1>6. Alive'
  BY <1>1, <1>4 DEF Alive, TypeOK
<1>7. SizeFlag'
  BY <1>1, <1>3 DEF SizeFlag
<1>8. StableSlots'
  <2> SUFFICES ASSUME NEW b \in Addr, IsDictSlot(icache[b])
               PROVE  /\ b \in Interned \cup DictOwned
                      /\ icache[b] \in DOMAIN dict
                      /\ heap'[b] = heap'[dict[icache[b]]]
    BY <1>1, <1>4 DEF StableSlots, IsDictSlot
  <2>1. /\ b \in Interned \cup DictOwned
        /\ icache[b] \in DOMAIN dict
        /\ heap[b] = heap[dict[icache[b]]]
    BY DEF StableSlots
  <2>2. b # a
    BY <2>1, <1>1 DEF Alive, DictOwned, TypeOK
  <2> QED
    BY <1>1, <1>3, <2>1, <2>2 DEF TypeOK
<1>9. MapSound'
  BY <1>1, <1>3 DEF MapSound
<1>10. RefsInHeader'
  BY <1>1 DEF RefsInHeader
<1>11. WireFidelity'
  BY <1>1, <1>3 DEF WireFidelity, Resolve, Entry, RefsInHeader, TypeOK
<1> QED
  BY <1>1, <1>5, <1>6, <1>7, <1>8, <1>9, <1>10, <1>11
     DEF NoOversizeSealed, NoLeakAfterFinish

(* User code drops a string: only one the dictionary does not own dies.    *)
LEMMA ReleaseInv ==
  ASSUME IInv, NEW a \in Addr, Release(a)
  PROVE  IInv'
<1> USE InternAssumption DEF IInv, Release, encoder
<1>1. /\ frame = "open" /\ frame' = "open"
      /\ held' = held \ {a}
      /\ a \notin Interned
      /\ heap' = [heap EXCEPT ![a] = IF a \in DictOwned THEN @ ELSE Free]
      /\ UNCHANGED <<icache, dict, contentMap, mapState, sizeExceeded, stream, header>>
  OBVIOUS
<1>2. \A b \in Addr : b # a \/ b \in DictOwned => heap'[b] = heap[b]
  BY <1>1 DEF TypeOK
<1>3. \A i \in DOMAIN dict : heap'[dict[i]] = heap[dict[i]]
  BY <1>2 DEF TypeOK, DictOwned
<1>4. DictOwned' = DictOwned
  BY <1>1 DEF DictOwned
<1>5. TypeOK'
  BY <1>1 DEF TypeOK
<1>6. Alive'
  BY <1>1, <1>4 DEF Alive, TypeOK
<1>7. SizeFlag'
  BY <1>1, <1>3 DEF SizeFlag
<1>8. StableSlots'
  BY <1>1, <1>2, <1>3, <1>4 DEF StableSlots, IsDictSlot
<1>9. MapSound'
  BY <1>1, <1>3 DEF MapSound
<1>10. RefsInHeader'
  BY <1>1 DEF RefsInHeader
<1>11. WireFidelity'
  BY <1>1, <1>3 DEF WireFidelity, Resolve, Entry, RefsInHeader, TypeOK
<1> QED
  BY <1>1, <1>5, <1>6, <1>7, <1>8, <1>9, <1>10, <1>11
     DEF NoOversizeSealed, NoLeakAfterFinish

(* Answering with an entry the dictionary already has: a cached index or a *)
(* content hit.                                                            *)
LEMMA RefToEntryInv ==
  ASSUME IInv, NEW zs \in Addr, Write(zs), NEW idx \in Nat, RefToEntry(zs, idx)
  PROVE  IInv'
<1> USE InternAssumption DEF IInv
<1>1. /\ frame = "open" /\ UNCHANGED <<heap, held, frame, header>>
      /\ zs \in held
      /\ UNCHANGED <<dict, contentMap, mapState, sizeExceeded>>
  BY DEF Write, program, RefToEntry
<1>2. heap[zs] \in Content
  BY <1>1 DEF Alive, TypeOK
<1>3. DictRef(idx, zs) \in Answer
  BY <1>2 DEF DictRef, Answer
<1>4. /\ stream' = Append(stream, DictRef(idx, zs))
      /\ idx \in DOMAIN dict
      /\ heap[dict[idx]] = heap[zs]
  BY DEF RefToEntry
<1>5. DictOwned' = DictOwned
  BY <1>1 DEF DictOwned
<1>6. TypeOK'
  <2>1. icache' \in [Addr -> {NoSlot, InlineMark} \cup Nat]
    BY DEF RefToEntry, TypeOK
  <2>2. stream' \in Seq(Answer)
    BY <1>3, <1>4 DEF TypeOK
  <2> QED
    BY <1>1, <2>1, <2>2 DEF TypeOK
<1>7. Alive'
  BY <1>1, <1>5 DEF Alive
<1>8. SizeFlag'
  BY <1>1, <1>4 DEF SizeFlag, TypeOK, DictRef
<1>9. StableSlots'
  BY <1>1, <1>4, <1>5 DEF StableSlots, RefToEntry, TypeOK, IsDictSlot
<1>10. MapSound'
  BY <1>1 DEF MapSound
<1>11. RefsInHeader'
  BY <1>1, <1>4 DEF RefsInHeader, TypeOK, DictRef
<1>12. WireFidelity'
  BY <1>1, <1>4 DEF WireFidelity, Resolve, Entry, TypeOK, DictRef
<1> QED
  BY <1>1, <1>6, <1>7, <1>8, <1>9, <1>10, <1>11, <1>12
     DEF NoOversizeSealed, NoLeakAfterFinish

(* Appending zs to the dictionary leaves the old entries where they were   *)
(* and keeps the content map sound, also when it is created or destroyed.  *)
LEMMA DictAppendFacts ==
  ASSUME IInv, NEW zs \in Addr, heap[zs] \in Content, DictAppend(zs),
         UNCHANGED heap
  PROVE  /\ dict' \in Seq(Addr)
         /\ Len(dict') = Len(dict) + 1
         /\ \A i \in DOMAIN dict : i \in DOMAIN dict' /\ dict'[i] = dict[i]
         /\ Len(dict) + 1 \in DOMAIN dict' /\ dict'[Len(dict) + 1] = zs
         /\ DictOwned' = DictOwned \cup {zs}
         /\ contentMap' \in [Content -> Nat]
         /\ mapState' \in {"deferred", "live", "disabled"}
         /\ MapSound'
<1> USE DEF IInv, TypeOK
<1>1. /\ dict' = Append(dict, zs)
      /\ dict' \in Seq(Addr)
      /\ Len(dict') = Len(dict) + 1
      /\ \A i \in DOMAIN dict : i \in DOMAIN dict' /\ dict'[i] = dict[i]
      /\ Len(dict) + 1 \in DOMAIN dict' /\ dict'[Len(dict) + 1] = zs
      /\ DOMAIN dict' = DOMAIN dict \cup {Len(dict) + 1}
  BY DEF DictAppend
<1>2. DictOwned' = DictOwned \cup {zs}
  BY <1>1 DEF DictOwned
<1>3. CASE Len(dict') = HashMapThreshold
  <2>1. /\ mapState' = "live"
        /\ contentMap' = [k \in Content |-> FirstIndexIn(dict', k)]
    BY <1>1, <1>3 DEF DictAppend, UpdateMap
  <2>2. \A k \in Content :
          \/ FirstIndexIn(dict', k) = 0
          \/ /\ FirstIndexIn(dict', k) \in DOMAIN dict'
             /\ heap[dict'[FirstIndexIn(dict', k)]] = k
    BY <1>1, FirstIndex
  <2>3. \A k \in Content : FirstIndexIn(dict', k) \in Nat
    BY <1>1, <2>2
  <2> QED
    BY <1>1, <1>2, <2>1, <2>2, <2>3 DEF MapSound
<1>4. CASE mapState' = "disabled" /\ contentMap' = [k \in Content |-> 0]
  BY <1>1, <1>2, <1>4 DEF MapSound
<1>5. CASE MapAdd(heap[zs], Len(dict')) /\ UNCHANGED mapState
  BY <1>1, <1>2, <1>5 DEF MapSound, MapAdd
<1>6. CASE UNCHANGED <<contentMap, mapState>>
  BY <1>1, <1>2, <1>6 DEF MapSound
<1> QED
  BY <1>1, <1>3, <1>4, <1>5, <1>6 DEF DictAppend, UpdateMap

(* Answering with a new dictionary entry: a promotion or a fresh intern.   *)
LEMMA NewEntryInv ==
  ASSUME IInv, NEW zs \in Addr, Write(zs), NewEntry(zs)
  PROVE  IInv'
<1> USE InternAssumption DEF IInv
<1> DEFINE new == Len(dict) + 1
<1>1. /\ frame = "open" /\ UNCHANGED <<heap, held, frame, header>>
      /\ zs \in held
  BY DEF Write, program
<1>2. heap[zs] \in Content
  BY <1>1 DEF Alive, TypeOK
<1>3. /\ DictAppend(zs)
      /\ icache' = [icache EXCEPT ![zs] = new]
      /\ stream' = Append(stream, DictRef(new, zs))
      /\ new \in Nat
  BY DEF NewEntry, TypeOK
<1>4. /\ dict' \in Seq(Addr)
      /\ Len(dict') = new
      /\ \A i \in DOMAIN dict : i \in DOMAIN dict' /\ dict'[i] = dict[i]
      /\ new \in DOMAIN dict' /\ dict'[new] = zs
      /\ DictOwned' = DictOwned \cup {zs}
      /\ contentMap' \in [Content -> Nat]
      /\ mapState' \in {"deferred", "live", "disabled"}
      /\ MapSound'
  BY <1>1, <1>2, <1>3, DictAppendFacts
<1>5. DictRef(new, zs) \in Answer
  BY <1>2, <1>3 DEF DictRef, Answer
<1>6. sizeExceeded' = (sizeExceeded \/ heap[zs] \in Oversize)
  BY <1>3 DEF DictAppend
<1>7. TypeOK'
  BY <1>1, <1>3, <1>4, <1>5, <1>6 DEF TypeOK
<1>8. Alive'
  BY <1>1, <1>4 DEF Alive, TypeOK
<1>9. SizeFlag'
  <2>1. \A i \in DOMAIN dict' : i \in DOMAIN dict \/ i = new
    BY <1>4 DEF TypeOK
  <2> SUFFICES ASSUME ~ sizeExceeded'
               PROVE  /\ \A i \in DOMAIN dict' : heap[dict'[i]] \notin Oversize
                      /\ \A i \in DOMAIN stream' : stream'[i].said \notin Oversize
    BY <1>1 DEF SizeFlag
  <2>2. ~ sizeExceeded /\ heap[zs] \notin Oversize
    BY <1>6
  <2>3. \A i \in DOMAIN dict' : heap[dict'[i]] \notin Oversize
    BY <1>1, <1>4, <2>1, <2>2 DEF SizeFlag
  <2>4. \A i \in DOMAIN stream' :
          \/ i \in DOMAIN stream /\ stream'[i] = stream[i]
          \/ stream'[i] = DictRef(new, zs)
    BY <1>3, <1>5 DEF TypeOK
  <2>5. \A i \in DOMAIN stream' : stream'[i].said \notin Oversize
    BY <1>1, <2>2, <2>4 DEF SizeFlag, DictRef
  <2> QED
    BY <2>3, <2>5
<1>10. StableSlots'
  BY <1>1, <1>3, <1>4 DEF StableSlots, TypeOK, IsDictSlot
<1>11. RefsInHeader'
  BY <1>1, <1>3, <1>4 DEF RefsInHeader, TypeOK, DictRef
<1>12. WireFidelity'
  <2> SUFFICES ASSUME NEW i \in DOMAIN stream'
               PROVE  (Resolve(stream[i]) = stream[i].said)'
    BY DEF WireFidelity
  <2>1. CASE stream'[i] = DictRef(new, zs)
    BY <1>1, <1>3, <1>4, <2>1 DEF Resolve, Entry, DictRef, TypeOK
  <2>2. CASE i \in DOMAIN stream /\ stream'[i] = stream[i]
    <3>1. Resolve(stream[i]) = stream[i].said /\ stream[i].idx \in 0 .. Len(dict)
      BY <1>1, <2>2 DEF WireFidelity, RefsInHeader
    <3>2. CASE stream[i].idx = 0
      BY <2>2, <3>1, <3>2 DEF Resolve
    <3>3. CASE stream[i].idx \in DOMAIN dict
      BY <1>1, <1>4, <2>2, <3>1, <3>3 DEF Resolve, Entry, TypeOK
    <3> QED
      BY <3>1, <3>2, <3>3 DEF TypeOK
  <2> QED
    BY <1>3, <1>5, <2>1, <2>2 DEF TypeOK
<1> QED
  BY <1>1, <1>4, <1>7, <1>8, <1>9, <1>10, <1>11, <1>12
     DEF NoOversizeSealed, NoLeakAfterFinish

(* Writing a string inline leaves only the mark, which promises nothing.   *)
LEMMA EmitInlineInv ==
  ASSUME IInv, NEW zs \in Addr, Write(zs), EmitInline(zs)
  PROVE  IInv'
<1> USE InternAssumption DEF IInv
<1>1. /\ frame = "open" /\ UNCHANGED <<heap, held, frame, header>>
      /\ zs \in held
      /\ UNCHANGED <<dict, contentMap, mapState, sizeExceeded>>
      /\ icache' = [icache EXCEPT ![zs] = InlineMark]
      /\ stream' = Append(stream, InlineText(zs))
      /\ heap[zs] \notin Oversize
  BY DEF Write, program, EmitInline, SetSlot, Answered
<1>2. heap[zs] \in Content
  BY <1>1 DEF Alive, TypeOK
<1>3. InlineText(zs) \in Answer
  BY <1>2 DEF InlineText, Answer
<1>4. DictOwned' = DictOwned
  BY <1>1 DEF DictOwned
<1>5. TypeOK'
  BY <1>1, <1>3 DEF TypeOK
<1>6. Alive'
  BY <1>1, <1>4 DEF Alive
<1>7. SizeFlag'
  BY <1>1 DEF SizeFlag, TypeOK, InlineText
<1>8. StableSlots'
  BY <1>1, <1>4 DEF StableSlots, TypeOK, IsDictSlot, InlineMark
<1>9. MapSound'
  BY <1>1 DEF MapSound
<1>10. RefsInHeader'
  BY <1>1 DEF RefsInHeader, TypeOK, InlineText
<1>11. WireFidelity'
  BY <1>1 DEF WireFidelity, Resolve, Entry, TypeOK, InlineText
<1> QED
  BY <1>1, <1>5, <1>6, <1>7, <1>8, <1>9, <1>10, <1>11
     DEF NoOversizeSealed, NoLeakAfterFinish

(* An oversized string raises the flag and writes nothing.                 *)
LEMMA EmitOversizeInv ==
  ASSUME IInv, NEW zs \in Addr, Write(zs), EmitOversize(zs)
  PROVE  IInv'
<1>1. /\ frame = "open" /\ sizeExceeded' = TRUE
      /\ UNCHANGED <<heap, held, frame, header, icache, dict, contentMap,
                     mapState, stream>>
  BY DEF Write, program, EmitOversize
<1> QED
  BY <1>1 DEF IInv, TypeOK, Alive, SizeFlag, StableSlots, MapSound, RefsInHeader,
              WireFidelity, NoOversizeSealed, NoLeakAfterFinish, DictOwned,
              IsDictSlot, Resolve, Entry

(* Every call of the three entry points preserves the invariant.           *)
LEMMA WriteInv ==
  ASSUME IInv, NEW zs \in Addr, Write(zs)
  PROVE  IInv'
BY WriteCases, RefToEntryInv, NewEntryInv, EmitInlineInv, EmitOversizeInv

(* Sealing the frame: the header repeats what each entry says at the last  *)
(* moment, so every answer still resolves to the same bytes.               *)
LEMMA FinishInv ==
  ASSUME IInv, Finish \/ FinishOversize
  PROVE  IInv'
<1> USE InternAssumption DEF IInv, DropDictionary
<1>1. /\ frame = "open"
      /\ heap' = [a \in Addr |->
           IF a \in DictOwned /\ a \notin held \cup Interned THEN Free ELSE heap[a]]
      /\ dict' = <<>>
      /\ icache' = [a \in Addr |-> NoSlot]
      /\ contentMap' = [c \in Content |-> 0]
      /\ mapState' = "deferred"
      /\ UNCHANGED <<held, sizeExceeded>>
  BY DEF Finish, FinishOversize
<1>2. \/ /\ frame' = "sealed" /\ ~ sizeExceeded
         /\ header' = [i \in DOMAIN dict |-> heap[dict[i]]]
         /\ stream' = stream
      \/ frame' = "discarded" /\ stream' = <<>> /\ header' = header
  BY DEF Finish, FinishOversize
<1>3. \A i \in DOMAIN dict : heap[dict[i]] \in Content
  BY <1>1 DEF Alive, TypeOK, DictOwned
<1>4. [i \in DOMAIN dict |-> heap[dict[i]]] \in Seq(Content)
  BY <1>3 DEF TypeOK
<1>5. TypeOK'
  <2>1. heap' \in [Addr -> Content \cup {Free}]
    BY <1>1 DEF TypeOK
  <2>2. dict' \in Seq(Addr) /\ stream' \in Seq(Answer) /\ header' \in Seq(Content)
    <3>1. <<>> \in Seq(Addr) /\ <<>> \in Seq(Answer)
      OBVIOUS
    <3> QED
      BY <1>1, <1>2, <1>4, <3>1 DEF TypeOK
  <2>3. /\ icache' \in [Addr -> {NoSlot, InlineMark} \cup Nat]
        /\ contentMap' \in [Content -> Nat]
    BY <1>1
  <2> QED
    BY <1>1, <1>2, <2>1, <2>2, <2>3 DEF TypeOK
<1>6. Alive' /\ SizeFlag' /\ StableSlots' /\ MapSound'
  BY <1>1, <1>2 DEF Alive, SizeFlag, StableSlots, MapSound, IsDictSlot, NoSlot
<1>7. RefsInHeader'
  BY <1>1, <1>2 DEF RefsInHeader, TypeOK
<1>8. WireFidelity'
  BY <1>1, <1>2 DEF WireFidelity, Resolve, Entry, RefsInHeader, TypeOK
<1>9. NoOversizeSealed'
  BY <1>1, <1>2 DEF NoOversizeSealed, SizeFlag, TypeOK
<1>10. NoLeakAfterFinish'
  BY <1>1 DEF NoLeakAfterFinish, Alive, TypeOK
<1> QED
  BY <1>5, <1>6, <1>7, <1>8, <1>9, <1>10

(* Every step of the system preserves the invariant.                       *)
LEMMA StepInv == IInv /\ [Next]_vars => IInv'
<1> SUFFICES ASSUME IInv, [Next]_vars PROVE IInv'
  OBVIOUS
<1>1. CASE UNCHANGED vars
  BY <1>1 DEF vars, IInv, TypeOK, Alive, SizeFlag, StableSlots, MapSound,
              RefsInHeader, WireFidelity, NoOversizeSealed, NoLeakAfterFinish,
              DictOwned, IsDictSlot, Resolve, Entry
<1>2. CASE Next
  BY <1>2, AllocateInv, ReleaseInv, WriteInv, FinishInv DEF Next
<1> QED
  BY <1>1, <1>2

(* The invariant that carries everything else holds in every reachable     *)
(* state, for any number of addresses, contents and calls.                 *)
THEOREM InductiveInvariant == Spec => []IInv
BY InitInv, StepInv, PTL DEF Spec

(* Type correctness of the encoder's string state.                         *)
THEOREM TypeCorrect == Spec => []TypeOK
<1>1. IInv => TypeOK
  BY DEF IInv
<1> QED
  BY <1>1, InductiveInvariant, PTL

(* Every string the encoder was asked to write reads back as it was when   *)
(* it was written, although hooks free strings and reuse their addresses.  *)
THEOREM StringsReadBack == Spec => [](WireFidelity /\ RefsInHeader)
<1>1. IInv => WireFidelity /\ RefsInHeader
  BY DEF IInv
<1> QED
  BY <1>1, InductiveInvariant, PTL

(* A cached index is used only for addresses whose bytes are pinned.       *)
THEOREM SlotsAreStable == Spec => [](StableSlots /\ MapSound)
<1>1. IInv => StableSlots /\ MapSound
  BY DEF IInv
<1> QED
  BY <1>1, InductiveInvariant, PTL

(* The dictionary gives back every reference it took when the frame ends,  *)
(* and no string over the length limit is in a frame that is returned.     *)
THEOREM CleanFinish == Spec => [](NoLeakAfterFinish /\ NoOversizeSealed)
<1>1. IInv => NoLeakAfterFinish /\ NoOversizeSealed
  BY DEF IInv
<1> QED
  BY <1>1, InductiveInvariant, PTL

-----------------------------------------------------------------------------

(* Under WireFidelity what the decoder reads back is what was said.        *)
LEMMA DecodedIsSaid ==
  ASSUME WireFidelity
  PROVE  Decoded = [i \in DOMAIN stream |-> stream[i].said]
BY DEF Decoded, WireFidelity

(* An answered call appends one string to what the decoder reads back; an  *)
(* oversized one appends nothing; nothing else touches it until the frame  *)
(* is sealed as it is or thrown away.                                      *)
LEMMA StepRefines ==
  ASSUME IInv, IInv', [Next]_vars
  PROVE  [StringStream!Next]_<<Decoded, frame>>
<1> DEFINE Said(s) == [i \in DOMAIN s |-> s[i].said]
<1>1. Decoded = Said(stream) /\ Decoded' = Said(stream')
  BY DecodedIsSaid DEF IInv, WireFidelity, Decoded
<1>2. CASE UNCHANGED <<stream, frame>>
  BY <1>1, <1>2
<1>3. ASSUME NEW zs \in Addr, Write(zs), NEW answer \in Answer,
             stream' = Append(stream, answer)
      PROVE  StringStream!Write
  <2>1. Said(stream') = Append(Said(stream), answer.said)
    BY <1>3 DEF IInv, TypeOK
  <2>2. answer.said \in Content
    BY DEF Answer
  <2> QED
    BY <1>1, <1>3, <2>1, <2>2 DEF StringStream!Write, Write
<1>4. ASSUME NEW zs \in Addr, Write(zs)
      PROVE  StringStream!Write \/ UNCHANGED <<stream, frame>>
  <2>1. heap[zs] \in Content
    BY <1>4 DEF IInv, TypeOK, Alive, Write
  <2>2. \A idx \in Nat : DictRef(idx, zs) \in Answer
    BY <2>1 DEF DictRef, Answer
  <2>3. InlineText(zs) \in Answer
    BY <2>1 DEF InlineText, Answer
  <2>4. CASE \E idx \in Nat : RefToEntry(zs, idx)
    BY <1>3, <1>4, <2>2, <2>4 DEF RefToEntry
  <2>5. CASE NewEntry(zs)
    <3>1. Len(dict) + 1 \in Nat
      BY DEF IInv, TypeOK
    <3>2. stream' = Append(stream, DictRef(Len(dict) + 1, zs))
      BY <2>5 DEF NewEntry
    <3> QED
      BY <1>3, <1>4, <2>2, <3>1, <3>2
  <2>6. CASE EmitInline(zs)
    BY <1>3, <1>4, <2>3, <2>6 DEF EmitInline, Answered
  <2>7. CASE EmitOversize(zs)
    BY <1>4, <2>7 DEF EmitOversize, Write
  <2> QED
    BY <1>4, <2>4, <2>5, <2>6, <2>7, WriteCases
<1>5. CASE Finish
  BY <1>1, <1>5 DEF Finish, StringStream!Next, StringStream!Seal
<1>6. CASE FinishOversize
  BY <1>1, <1>6 DEF FinishOversize, StringStream!Next, StringStream!Discard
<1>7. CASE \E a \in Addr, c \in Content : Allocate(a, c)
  BY <1>2, <1>7 DEF Allocate
<1>8. CASE \E a \in Addr : Release(a)
  BY <1>2, <1>8 DEF Release
<1>9. CASE UNCHANGED vars
  BY <1>2, <1>9 DEF vars
<1>10. CASE \E zs \in Addr : Write(zs)
  BY <1>2, <1>4, <1>10 DEF StringStream!Next
<1> QED
  BY <1>5, <1>6, <1>7, <1>8, <1>9, <1>10 DEF Next

(* The encoder's strings implement the stream of strings its callers wrote:*)
(* nothing already written ever changes, and the frame is sealed whole.    *)
THEOREM Refinement == Spec => ImplementsStringStream
<1>1. Init => StringStream!Init
  <2> SUFFICES ASSUME Init PROVE StringStream!Init
    OBVIOUS
  <2>1. Decoded = <<>>
    BY DEF Init, Decoded
  <2> QED
    BY <2>1 DEF Init, StringStream!Init
<1>2. IInv /\ IInv' /\ [Next]_vars => [StringStream!Next]_<<Decoded, frame>>
  BY StepRefines
<1> QED
  BY <1>1, <1>2, InductiveInvariant, PTL DEF Spec, ImplementsStringStream, StringStream!Spec

-----------------------------------------------------------------------------
(* Budgets.                                                                 *)


Item == [kind : {"table"}, rows : Lengths, cols : Columns]
          \cup [kind : {"run"}, elems : Lengths]
          \cup [kind : {"object"}, elems : Lengths, hook : BOOLEAN]

BudgetsTypeOK ==
  /\ phase \in {"encoding", "decoding", "refused", "done"}
  /\ items \in Seq(Item) /\ Len(items) <= MaxItems
  /\ wire \in Nat /\ excess \in Nat /\ encElems \in Nat
  /\ next \in 1 .. Len(items) + 1
  /\ left \in Int /\ decElems \in Int
  /\ due \in [0 .. MaxItems -> Nat] /\ counted \in [0 .. MaxItems -> Nat]
  /\ due[0] = 0 /\ counted[0] = 0

(* What holds as long as hooks are kept; once one is lost it stays lost.    *)
BudgetsInv == BudgetsTypeOK /\ Covered /\ phase # "refused"

BudgetsOrLost == items \in Seq(Item) /\ (HooksKept => BudgetsInv)

(* The division by which both sides compare is a comparison of products.    *)
LEMMA Quotients ==
  ASSUME NEW a \in Nat, NEW b \in Nat, NEW c \in Nat, b > 0
  PROVE  a <= c \div b <=> a * b <= c
<1> DEFINE q == c \div b
<1>1. q \in Nat /\ b * q <= c /\ c < b * q + b
  BY Z3
<1> HIDE DEF q
<1>2. b * (q + 1) = b * q + b /\ a * b = b * a
  BY <1>1
<1>3. CASE a <= q
  <2>1. b * a <= b * q
    BY <1>1, <1>3
  <2> QED BY <1>1, <1>2, <1>3, <2>1 DEF q
<1>4. CASE a >= q + 1
  <2>1. b * a >= b * (q + 1)
    BY <1>1, <1>4
  <2> QED BY <1>1, <1>2, <1>4, <2>1 DEF q
<1> QED BY <1>1, <1>3, <1>4

(* Tables have a size.                                                      *)
LEMMA SizesAreNumbers ==
  /\ \A c \in Columns \cup Lengths : Capacity(c) \in Nat /\ ArrayBytes(c) \in Nat
  /\ \A c \in Columns :
       /\ RowBytes(c) \in Nat /\ RowBytes(c) > 0
       /\ Excess(c) \in Nat /\ RowBytes(c) <= Excess(c) + c * Ratio
<1>1. \A c \in Columns \cup Lengths : Capacity(c) \in Sizes
  BY BudgetsAssumption DEF Capacity
<1>2. ASSUME NEW c \in Columns \cup Lengths
      PROVE  Capacity(c) \in Nat /\ ArrayBytes(c) \in Nat
  <2>1. Capacity(c) \in Nat
    BY <1>1, BudgetsAssumption
  <2> DEFINE k == Capacity(c)
  <2>2. k \in Nat /\ ArrayBytes(c) = 56 + k * 40
    BY <2>1 DEF ArrayBytes
  <2> HIDE DEF k
  <2>3. 56 + k * 40 \in Nat
    BY <2>2
  <2> QED BY <2>1, <2>2, <2>3
<1>3. \A c \in Columns : RowBytes(c) \in Nat /\ RowBytes(c) > 0 /\ c * Ratio \in Nat
  BY <1>2, BudgetsAssumption DEF RowBytes, ArrayBytes, Ratio
<1>4. \A c \in Columns : Excess(c) \in Nat /\ RowBytes(c) <= Excess(c) + c * Ratio
  BY <1>3 DEF Excess
<1> QED BY <1>2, <1>3, <1>4

(* Charges and counts are numbers.                                          *)
LEMMA ChargesAreNumbers ==
  \A i \in Item : Charge(i) \in Nat /\ Elems(i) \in Nat
<1> SUFFICES ASSUME NEW i \in Item PROVE Charge(i) \in Nat /\ Elems(i) \in Nat
  OBVIOUS
<1>1. CASE i.kind = "table"
  <2>1. i.rows \in Nat /\ RowBytes(i.cols) \in Nat
    BY <1>1, SizesAreNumbers, BudgetsAssumption DEF Item
  <2> QED BY <1>1, <2>1 DEF Charge, Elems
<1>2. CASE i.kind \in {"run", "object"}
  <2>1. i.elems \in Nat /\ i.elems \in Lengths
    BY <1>2, BudgetsAssumption DEF Item
  <2>2. ArrayBytes(i.elems) \in Nat
    BY <2>1, SizesAreNumbers
  <2> QED BY <1>2, <2>1, <2>2 DEF Charge, Elems
<1> QED BY <1>1, <1>2 DEF Item

(* A table the encoder lets pass is paid for by what it adds to the excess  *)
(* and by the bytes of its cells.                                           *)
LEMMA TablePaidFor ==
  ASSUME NEW n \in Lengths, NEW c \in Columns, excess \in Nat, excess <= Allowance, Fits(n, c)
  PROVE  /\ Spend(n, c) \in Nat /\ Spend(n, c) <= Allowance
         /\ Charge(Table(n, c)) <= Spend(n, c) - excess + (3 + 2 * c + n * c) * Ratio
<1>1. n \in Nat /\ c \in Nat /\ Allowance \in Nat /\ Allowance - excess \in Nat
  BY BudgetsAssumption
<1>2. /\ RowBytes(c) \in Nat /\ Excess(c) \in Nat
      /\ RowBytes(c) <= Excess(c) + c * Ratio
  BY SizesAreNumbers
<1> DEFINE x == Excess(c)
           b == RowBytes(c)
<1> HIDE DEF x, b
<1>3. n * x <= Allowance - excess
  <2>1. CASE x = 0
    BY <1>1, <2>1
  <2>2. CASE x # 0
    <3>1. n <= (Allowance - excess) \div x
      BY <2>2 DEF Fits, x
    <3>2. x \in Nat /\ x > 0
      BY <1>2, <2>2 DEF x
    <3> QED BY <1>1, <3>1, <3>2, Quotients
  <2> QED BY <2>1, <2>2
<1>4. x \in Nat /\ b \in Nat /\ b <= x + 64 * c
  BY <1>1, <1>2 DEF x, b, Ratio
<1>5. n * b <= n * x + 64 * (n * c)
  <2>1. n * b <= n * (x + 64 * c)
    BY <1>1, <1>4
  <2>2. n * (x + 64 * c) = n * x + 64 * (n * c)
    BY <1>1, <1>4
  <2> QED BY <2>1, <2>2
<1>6. Spend(n, c) = excess + n * x /\ Charge(Table(n, c)) = n * b
  BY DEF Spend, Charge, Table, x, b
<1>7. n * x \in Nat /\ n * c \in Nat /\ n * b \in Nat
  BY <1>1, <1>4
<1> QED BY <1>1, <1>3, <1>5, <1>6, <1>7 DEF Ratio

(* The encoder counts what the item costs beyond its bytes.                 *)
PaidFor(item, bytes) ==
  /\ excess' \in Nat /\ excess' <= Allowance /\ encElems' \in Nat
  /\ Charge(item) <= excess' - excess + bytes * Ratio
  /\ encElems' = encElems + Elems(item) /\ encElems' <= MaxElems

(* Emitting an item that is paid for leaves everything covered.             *)
LEMMA EmitCovered ==
  ASSUME BudgetsInv, Encoding, NEW item \in Item, NEW bytes \in Nat,
         Emit(item, bytes), PaidFor(item, bytes),
         UNCHANGED <<phase, next, left, decElems>>
  PROVE  BudgetsInv'
<1> DEFINE n == Len(items)
<1>1. n \in Nat /\ n < MaxItems /\ phase = "encoding"
  BY DEF BudgetsInv, BudgetsTypeOK, Encoding
<1>2. /\ Charge(item) \in Nat /\ Elems(item) \in Nat /\ MaxItems \in Nat
      /\ Allowance \in Nat /\ MaxElems \in Nat
  BY ChargesAreNumbers, BudgetsAssumption
<1>3. /\ wire \in Nat /\ excess \in Nat /\ encElems \in Nat
      /\ next \in 1 .. n + 1 /\ left \in Int /\ decElems \in Int
      /\ items \in Seq(Item)
      /\ due \in [0 .. MaxItems -> Nat] /\ counted \in [0 .. MaxItems -> Nat]
      /\ due[0] = 0 /\ counted[0] = 0
  BY DEF BudgetsInv, BudgetsTypeOK
<1>4. /\ due[n] <= excess + wire * Ratio
      /\ counted[n] = encElems
      /\ \A i \in 1 .. n :
           /\ due[i] = due[i - 1] + Charge(items[i])
           /\ due[i - 1] <= due[i] /\ due[i] <= due[n]
           /\ counted[i] = counted[i - 1] + Elems(items[i]) /\ counted[i] <= counted[n]
  BY DEF BudgetsInv, Covered
<1>5. /\ items' = Append(items, item) /\ wire' = wire + bytes
      /\ due' = [due EXCEPT ![n + 1] = due[n] + Charge(item)]
      /\ counted' = [counted EXCEPT ![n + 1] = counted[n] + Elems(item)]
  BY DEF Emit
<1>6. /\ items' \in Seq(Item) /\ Len(items') = n + 1
      /\ items'[n + 1] = item /\ \A i \in 1 .. n : items'[i] = items[i]
  BY <1>3, <1>5
<1>7. Len(items') = n + 1
  BY <1>6
<1> HIDE DEF n
<1>8. /\ due[n] \in Nat /\ counted[n] \in Nat /\ n + 1 \in 0 .. MaxItems
      /\ \A i \in 0 .. n : i \in 0 .. MaxItems /\ i # n + 1
  BY <1>1, <1>2, <1>3
<1>9. /\ due'[n + 1] = due[n] + Charge(item) /\ \A i \in 0 .. n : due'[i] = due[i]
      /\ due' \in [0 .. MaxItems -> Nat]
  <2> DEFINE sum == due[n] + Charge(item)
             top == n + 1
  <2>5. due[n] \in Nat /\ Charge(item) \in Nat
    BY <1>2, <1>8
  <2>6. sum \in Nat
    BY <2>5
  <2>1. sum \in Nat /\ top \in 0 .. MaxItems /\ due \in [0 .. MaxItems -> Nat]
    BY <2>6, <1>3, <1>8
  <2>2. due' = [due EXCEPT ![top] = sum] /\ \A i \in 0 .. n : i \in 0 .. MaxItems /\ i # top
    BY <1>5, <1>8
  <2> HIDE DEF sum, top
  <2>3. due' \in [0 .. MaxItems -> Nat] /\ due'[top] = sum
    BY <2>1, <2>2
  <2>4. \A i \in 0 .. n : due'[i] = due[i]
    BY <2>1, <2>2
  <2> QED BY <2>3, <2>4 DEF sum, top
<1>10. /\ counted'[n + 1] = counted[n] + Elems(item)
       /\ \A i \in 0 .. n : counted'[i] = counted[i]
       /\ counted' \in [0 .. MaxItems -> Nat]
  <2> DEFINE sum == counted[n] + Elems(item)
             top == n + 1
  <2>5. counted[n] \in Nat /\ Elems(item) \in Nat
    BY <1>2, <1>8
  <2>6. sum \in Nat
    BY <2>5
  <2>1. sum \in Nat /\ top \in 0 .. MaxItems /\ counted \in [0 .. MaxItems -> Nat]
    BY <2>6, <1>3, <1>8
  <2>2. counted' = [counted EXCEPT ![top] = sum] /\ \A i \in 0 .. n : i \in 0 .. MaxItems /\ i # top
    BY <1>5, <1>8
  <2> HIDE DEF sum, top
  <2>3. counted' \in [0 .. MaxItems -> Nat] /\ counted'[top] = sum
    BY <2>1, <2>2
  <2>4. \A i \in 0 .. n : counted'[i] = counted[i]
    BY <2>1, <2>2
  <2> QED BY <2>3, <2>4 DEF sum, top
<1>11. wire' \in Nat /\ next' \in 1 .. n + 2 /\ phase' = "encoding"
  BY <1>1, <1>3, <1>5
<1>12. BudgetsTypeOK'
  <2>1. due'[0] = 0 /\ counted'[0] = 0
    BY <1>1, <1>3, <1>9, <1>10
  <2>2. left' \in Int /\ decElems' \in Int /\ n + 1 <= MaxItems
    BY <1>1, <1>2, <1>3
  <2>3. next' \in 1 .. Len(items') + 1
    BY <1>1, <1>7, <1>11
  <2> QED BY <1>6, <1>7, <1>9, <1>10, <1>11, <2>1, <2>2, <2>3 DEF BudgetsTypeOK, PaidFor
<1>13. due'[n + 1] <= excess' + wire' * Ratio /\ counted'[n + 1] = encElems'
  <2> DEFINE before == due[n]
             charge == Charge(item)
             was    == excess
             is     == excess'
  <2>1. /\ before \in Nat /\ charge \in Nat /\ was \in Nat /\ is \in Nat
        /\ before <= was + wire * 64 /\ charge <= is - was + bytes * 64
    BY <1>2, <1>3, <1>4, <1>8 DEF Ratio, PaidFor
  <2>2. due'[n + 1] = before + charge /\ wire' = wire + bytes
    BY <1>5, <1>9
  <2>3. counted'[n + 1] = encElems'
    BY <1>4, <1>10 DEF PaidFor
  <2> HIDE DEF before, charge, was
  <2> SUFFICES before + charge <= is + (wire + bytes) * 64
    BY <2>2, <2>3 DEF Ratio
  <2> HIDE DEF is
  <2> QED BY <1>3, <2>1
<1>14. ASSUME NEW i \in 1 .. n + 1
       PROVE  /\ due'[i] = due'[i - 1] + Charge(items'[i])
              /\ due'[i - 1] <= due'[i] /\ due'[i] <= due'[n + 1]
              /\ counted'[i] = counted'[i - 1] + Elems(items'[i])
              /\ counted'[i] <= counted'[n + 1]
  <2>1. CASE i = n + 1
    <3>1. i - 1 = n /\ n \in 0 .. n
      BY <1>1, <2>1
    <3>2. due'[i - 1] = due[n] /\ counted'[i - 1] = counted[n] /\ items'[i] = item
      BY <1>6, <1>9, <1>10, <2>1, <3>1
    <3>3. /\ due'[i] = due[n] + Charge(item) /\ due'[n + 1] = due'[i]
          /\ counted'[i] = counted[n] + Elems(item) /\ counted'[n + 1] = counted'[i]
      BY <1>9, <1>10, <2>1
    <3>4. due[n] <= due[n] + Charge(item) /\ due'[i] \in Nat /\ counted'[i] \in Nat
      <4> DEFINE a == due[n]
                 b == Charge(item)
                 c == counted[n]
                 d == Elems(item)
      <4>1. a \in Nat /\ b \in Nat /\ c \in Nat /\ d \in Nat
        BY <1>2, <1>8
      <4> HIDE DEF a, b, c, d
      <4>2. a <= a + b /\ a + b \in Nat /\ c + d \in Nat
        BY <4>1
      <4> QED BY <3>3, <4>2 DEF a, b, c, d
    <3> QED BY <3>2, <3>3, <3>4
  <2>2. CASE i \in 1 .. n
    <3>1. /\ due[i] = due[i - 1] + Charge(items[i])
          /\ due[i - 1] <= due[i] /\ due[i] <= due[n]
          /\ counted[i] = counted[i - 1] + Elems(items[i]) /\ counted[i] <= counted[n]
      BY <1>4, <2>2
    <3>2. i - 1 \in 0 .. n /\ i \in 0 .. n /\ i - 1 \in 0 .. MaxItems /\ i \in 0 .. MaxItems
      BY <1>1, <1>2, <2>2
    <3>3. /\ due'[i] = due[i] /\ due'[i - 1] = due[i - 1] /\ items'[i] = items[i]
          /\ counted'[i] = counted[i] /\ counted'[i - 1] = counted[i - 1]
      BY <1>6, <1>9, <1>10, <2>2, <3>2
    <3>4. due[i] \in Nat /\ counted[i] \in Nat
      BY <1>3, <3>2
    <3>5. due'[i] <= due'[n + 1] /\ counted'[i] <= counted'[n + 1]
      <4> DEFINE a == due[n]
                 b == Charge(item)
                 c == counted[n]
                 d == Elems(item)
                 u == due[i]
                 e == counted[i]
      <4>1. /\ a \in Nat /\ b \in Nat /\ c \in Nat /\ d \in Nat
            /\ u \in Nat /\ e \in Nat /\ u <= a /\ e <= c
        BY <1>2, <1>8, <3>1, <3>4
      <4> HIDE DEF a, b, c, d, u, e
      <4>2. u <= a + b /\ e <= c + d
        BY <4>1
      <4> QED BY <1>9, <1>10, <3>3, <4>2 DEF a, b, c, d, u, e
    <3> QED BY <3>1, <3>3, <3>5
  <2> QED BY <1>1, <2>1, <2>2
<1>15. Covered'
  BY <1>7, <1>11, <1>13, <1>14 DEF Covered, PaidFor
<1> QED BY <1>11, <1>12, <1>15 DEF BudgetsInv

(* Tables, runs and objects with their hooks are paid for.                  *)
LEMMA EncoderStep ==
  ASSUME BudgetsInv, NEW n \in Lengths,
         \/ \E c \in Columns : EncodeTable(n, c)
         \/ EncodeRun(n) \/ EncodeObject(n, TRUE)
  PROVE  BudgetsInv'
<1>1. /\ excess \in Nat /\ excess <= Allowance /\ encElems \in Nat /\ encElems <= MaxElems
      /\ n \in Nat /\ MaxElems \in Nat
  BY BudgetsAssumption DEF BudgetsInv, BudgetsTypeOK, Covered
<1>2. ASSUME NEW c \in Columns, EncodeTable(n, c) PROVE BudgetsInv'
  <2>1. /\ Spend(n, c) \in Nat /\ Spend(n, c) <= Allowance
        /\ Charge(Table(n, c)) <= Spend(n, c) - excess + (3 + 2 * c + n * c) * Ratio
    BY <1>1, <1>2, TablePaidFor DEF EncodeTable
  <2>2. /\ Table(n, c) \in Item /\ Elems(Table(n, c)) = 0
        /\ c \in Nat /\ n * c \in Nat /\ 3 + 2 * c + n * c \in Nat
    BY <1>1, BudgetsAssumption DEF Table, Item, Elems
  <2>3. /\ Encoding /\ Emit(Table(n, c), 3 + 2 * c + n * c) /\ excess' = Spend(n, c)
        /\ encElems' = encElems /\ UNCHANGED <<phase, next, left, decElems>>
    BY <1>2 DEF EncodeTable
  <2> QED BY <1>1, <2>1, <2>2, <2>3, EmitCovered DEF PaidFor
<1>3. CASE EncodeRun(n)
  <2>1. /\ Run(n) \in Item /\ Elems(Run(n)) = n /\ Charge(Run(n)) = 0
    BY DEF Run, Item, Elems, Charge
  <2>2. /\ Encoding /\ Emit(Run(n), 4) /\ excess' = excess
        /\ encElems' = encElems + n /\ encElems <= MaxElems - n
        /\ UNCHANGED <<phase, next, left, decElems>>
    BY <1>3 DEF EncodeRun
  <2> QED BY <1>1, <2>1, <2>2, EmitCovered DEF Ratio, PaidFor
<1>4. CASE EncodeObject(n, TRUE)
  <2> DEFINE object == Object(n, TRUE)
  <2>1. object \in Item /\ Elems(object) = 0 /\ Charge(object) = 0
    BY DEF Object, Item, Elems, Charge
  <2>2. /\ Encoding /\ Emit(object, 4 + n) /\ excess' = excess /\ encElems' = encElems
        /\ UNCHANGED <<phase, next, left, decElems>>
    BY <1>4 DEF EncodeObject
  <2>3. 4 + n \in Nat /\ 0 <= excess' - excess + (4 + n) * Ratio
    BY <1>1, <2>2 DEF Ratio
  <2> HIDE DEF object
  <2>4. PaidFor(object, 4 + n)
    BY <1>1, <2>1, <2>2, <2>3 DEF PaidFor
  <2> QED BY <2>1, <2>2, <2>3, <2>4, EmitCovered
<1> QED BY <1>2, <1>3, <1>4

(* The decoder affords the next item.                                       *)
LEMMA NextAfforded ==
  ASSUME BudgetsInv, phase = "decoding", next <= Len(items)
  PROVE  /\ items[next] \in Item /\ Affords(items[next])
         /\ due[next] = due[next - 1] + Charge(items[next])
         /\ counted[next] = counted[next - 1] + Elems(items[next])
<1> DEFINE i == items[next]
<1>1. next \in 1 .. Len(items) /\ i \in Item
  BY DEF BudgetsInv, BudgetsTypeOK
<1>2. Charge(i) \in Nat /\ Elems(i) \in Nat
  BY <1>1, ChargesAreNumbers
<1>3. /\ due[next] = due[next - 1] + Charge(i) /\ due[next] <= due[Len(items)]
      /\ counted[next] = counted[next - 1] + Elems(i) /\ counted[next] <= counted[Len(items)]
      /\ due[Len(items)] <= Allowance + wire * Ratio
      /\ counted[Len(items)] <= MaxElems
      /\ left = Allowance + wire * Ratio - due[next - 1] /\ decElems = counted[next - 1]
  BY <1>1, BudgetsAssumption DEF BudgetsInv, Covered, BudgetsTypeOK, Ratio
<1>4. /\ due[next] \in Nat /\ due[next - 1] \in Nat /\ due[Len(items)] \in Nat
      /\ counted[next] \in Nat /\ counted[next - 1] \in Nat /\ counted[Len(items)] \in Nat
      /\ wire \in Nat /\ Allowance \in Nat /\ MaxElems \in Nat /\ left \in Int
  BY <1>1, BudgetsAssumption DEF BudgetsInv, BudgetsTypeOK
<1> DEFINE paid == wire * Ratio
           here == due[next - 1]
           all  == due[Len(items)]
<1>9. paid \in Nat /\ here \in Nat /\ all \in Nat
  BY <1>4 DEF Ratio
<1>10. /\ here + Charge(i) <= all /\ all <= Allowance + paid
       /\ left = Allowance + paid - here
  BY <1>3
<1> HIDE DEF i, paid, here, all
<1>5. Charge(i) <= left /\ left \in Nat
  BY <1>2, <1>4, <1>9, <1>10
<1>6. CASE i.kind = "table"
  <2>1. i.rows \in Nat /\ RowBytes(i.cols) \in Nat /\ RowBytes(i.cols) > 0
    BY <1>1, <1>6, SizesAreNumbers, BudgetsAssumption DEF Item
  <2>2. i.rows * RowBytes(i.cols) <= left
    BY <1>5, <1>6 DEF Charge
  <2>3. i.rows <= left \div RowBytes(i.cols)
    BY <1>5, <2>1, <2>2, Quotients
  <2> QED BY <1>1, <1>3, <1>6, <2>3 DEF Affords, i
<1>7. CASE i.kind = "run"
  <2>1. i.elems \in Nat /\ Elems(i) = i.elems
    BY <1>1, <1>7, BudgetsAssumption DEF Item, Elems
  <2>2. i.elems <= MaxElems /\ decElems <= MaxElems - i.elems
    BY <1>3, <1>4, <2>1
  <2> QED BY <1>1, <1>3, <1>7, <2>2 DEF Affords, i
<1>8. CASE i.kind = "object"
  BY <1>1, <1>3, <1>5, <1>8 DEF Affords, i
<1> QED BY <1>1, <1>6, <1>7, <1>8 DEF Item

(* Steps of the decoder, and those that emit nothing to be charged for.     *)
LEMMA OtherStep ==
  ASSUME BudgetsInv,
         EncodeOther \/ BeginDecode \/ DecodeItem \/ EndDecode \/ UNCHANGED budgetVars
  PROVE  BudgetsInv'
<1>1. CASE EncodeOther
  BY <1>1, BudgetsAssumption
     DEF EncodeOther, BudgetsInv, BudgetsTypeOK, Covered, Ratio
<1>2. CASE BeginDecode
  <2>1. BudgetsTypeOK /\ Covered /\ phase' = "decoding" /\ next' = 1
        /\ left' = Allowance + wire * Ratio /\ decElems' = 0
        /\ UNCHANGED <<items, wire, excess, encElems, due, counted>>
    BY <1>2 DEF BeginDecode, BudgetsInv
  <2>2. next' - 1 = 0 /\ due[0] = 0 /\ counted[0] = 0 /\ Len(items) \in Nat
        /\ wire \in Nat /\ Allowance \in Nat
    BY <2>1, BudgetsAssumption DEF BudgetsTypeOK
  <2>3. left' = Allowance + wire' * Ratio - due'[next' - 1] /\ left' \in Int
        /\ decElems' = counted'[next' - 1] /\ decElems' \in Int
    BY <2>1, <2>2 DEF Ratio
  <2>4. BudgetsTypeOK'
    BY <2>1, <2>2, <2>3 DEF BudgetsTypeOK
  <2>5. Covered'
    BY <2>1, <2>3 DEF Covered
  <2> QED BY <2>1, <2>4, <2>5 DEF BudgetsInv
<1>3. CASE DecodeItem
  <2>1. /\ phase = "decoding" /\ next <= Len(items)
        /\ UNCHANGED <<items, wire, excess, encElems, due, counted>>
    BY <1>3 DEF DecodeItem
  <2>2. /\ items[next] \in Item /\ Affords(items[next])
        /\ due[next] = due[next - 1] + Charge(items[next])
        /\ counted[next] = counted[next - 1] + Elems(items[next])
    BY <2>1, NextAfforded
  <2>3. /\ left' = left - Charge(items[next]) /\ decElems' = decElems + Elems(items[next])
        /\ next' = next + 1 /\ phase' = phase
    BY <1>3, <2>2 DEF DecodeItem
  <2>4. Charge(items[next]) \in Nat /\ Elems(items[next]) \in Nat
    BY <2>2, ChargesAreNumbers
  <2>5. BudgetsTypeOK'
    BY <2>1, <2>3, <2>4 DEF BudgetsInv, BudgetsTypeOK
  <2>6. /\ left' = Allowance + wire * Ratio - due[next' - 1]
        /\ decElems' = counted[next' - 1]
    <3>6. /\ next \in 1 .. Len(items) /\ Len(items) <= MaxItems /\ MaxItems \in Nat
          /\ due \in [0 .. MaxItems -> Nat] /\ counted \in [0 .. MaxItems -> Nat]
          /\ wire \in Nat /\ Allowance \in Nat
      BY <2>1, BudgetsAssumption DEF BudgetsInv, BudgetsTypeOK
    <3>7. left = Allowance + wire * Ratio - due[next - 1] /\ decElems = counted[next - 1]
      BY <2>1 DEF BudgetsInv, Covered
    <3>1. /\ next \in 1 .. Len(items) /\ Len(items) <= MaxItems /\ MaxItems \in Nat
          /\ due \in [0 .. MaxItems -> Nat] /\ counted \in [0 .. MaxItems -> Nat]
          /\ wire \in Nat /\ Allowance \in Nat
          /\ left = Allowance + wire * Ratio - due[next - 1] /\ decElems = counted[next - 1]
      BY <3>6, <3>7
    <3>2. next' - 1 = next /\ due[next] \in Nat /\ due[next - 1] \in Nat
          /\ counted[next] \in Nat /\ wire * Ratio \in Nat
      BY <2>3, <3>1 DEF Ratio
    <3> DEFINE paid == wire * Ratio
    <3>3. paid \in Nat /\ left = Allowance + paid - due[next - 1]
      BY <3>1, <3>2
    <3> HIDE DEF paid
    <3>4. left' = Allowance + paid - due[next]
      <4> DEFINE charge == Charge(items[next])
                 here   == due[next - 1]
      <4>1. /\ charge \in Nat /\ here \in Nat /\ due[next] = here + charge
            /\ left' = left - charge /\ left = Allowance + paid - here
        BY <2>2, <2>3, <2>4, <3>2, <3>3
      <4> HIDE DEF charge, here
      <4>2. left - charge = Allowance + paid - (here + charge)
        <5>1. Allowance \in Nat /\ paid \in Nat
          BY <3>1, <3>3
        <5>2. left = Allowance + paid - here /\ charge \in Nat /\ here \in Nat
          BY <4>1
        <5> QED BY <5>1, <5>2
      <4> QED BY <4>1, <4>2
    <3>5. decElems' = counted[next]
      BY <2>2, <2>3, <3>1
    <3> QED BY <3>2, <3>4, <3>5 DEF paid
  <2>7. Covered'
    BY <2>1, <2>3, <2>6 DEF BudgetsInv, Covered
  <2> QED BY <2>1, <2>3, <2>5, <2>7 DEF BudgetsInv
<1>4. CASE EndDecode
  BY <1>4 DEF EndDecode, BudgetsInv, BudgetsTypeOK, Covered
<1>5. CASE UNCHANGED budgetVars
  BY <1>5 DEF budgetVars, BudgetsInv, BudgetsTypeOK, Covered
<1> QED BY <1>1, <1>2, <1>3, <1>4, <1>5

(* Items are only added, so a hook that is lost stays lost.                 *)
LEMMA LostStaysLost ==
  ASSUME items \in Seq(Item), [BudgetNext]_budgetVars
  PROVE  items' \in Seq(Item) /\ (HooksKept' => HooksKept)
<1>1. ASSUME NEW item \in Item, items' = Append(items, item)
      PROVE  items' \in Seq(Item) /\ (HooksKept' => HooksKept)
  <2>1. items' \in Seq(Item) /\ DOMAIN items \subseteq DOMAIN items'
    BY <1>1
  <2>2. \A i \in DOMAIN items : items'[i] = items[i]
    BY <1>1
  <2> QED BY <2>1, <2>2 DEF HooksKept
<1>2. CASE items' = items
  BY <1>2 DEF HooksKept
<1>3. ASSUME NEW n \in Lengths, NEW c \in Columns, EncodeTable(n, c)
      PROVE  \E item \in Item : items' = Append(items, item)
  BY <1>3 DEF EncodeTable, Emit, Table, Item
<1>4. ASSUME NEW n \in Lengths, EncodeRun(n)
      PROVE  \E item \in Item : items' = Append(items, item)
  BY <1>4 DEF EncodeRun, Emit, Run, Item
<1>5. ASSUME NEW n \in Lengths, NEW hook \in BOOLEAN, EncodeObject(n, hook)
      PROVE  \E item \in Item : items' = Append(items, item)
  BY <1>5 DEF EncodeObject, Emit, Object, Item
<1>6. CASE EncodeOther \/ BeginDecode \/ DecodeItem \/ EndDecode \/ UNCHANGED budgetVars
  BY <1>2, <1>6 DEF EncodeOther, BeginDecode, DecodeItem, EndDecode, budgetVars
<1> QED BY <1>1, <1>3, <1>4, <1>5, <1>6 DEF BudgetNext

(* An object without its hook is the end of HooksKept.                      *)
LEMMA ObjectLosesHook ==
  ASSUME items \in Seq(Item), NEW n \in Lengths, EncodeObject(n, FALSE)
  PROVE  ~ HooksKept'
<1> DEFINE object == Object(n, FALSE)
           last   == Len(items) + 1
<1>1. items' = Append(items, object)
  BY DEF EncodeObject, Emit
<1>2. object \in Item /\ object.kind = "object" /\ ~ object.hook
  BY DEF Object, Item
<1> HIDE DEF object
<1>3. last \in DOMAIN items' /\ items'[last] = object
  BY <1>1, <1>2
<1> QED BY <1>2, <1>3 DEF HooksKept

(* No frame of the encoder is refused for what its tables and runs cost,    *)
(* whatever their number and their sizes, if objects keep their hooks.      *)
THEOREM EncoderStaysWithinBudgets == BudgetSpec => []NothingRefused
<1>1. BudgetInit => BudgetsOrLost
  BY BudgetsAssumption
     DEF BudgetInit, BudgetsOrLost, BudgetsInv, BudgetsTypeOK, Covered, Ratio, Item
<1>2. BudgetsOrLost /\ [BudgetNext]_budgetVars => BudgetsOrLost'
  <2> SUFFICES ASSUME BudgetsOrLost, [BudgetNext]_budgetVars PROVE BudgetsOrLost'
    OBVIOUS
  <2>1. items' \in Seq(Item) /\ (HooksKept' => HooksKept)
    BY LostStaysLost DEF BudgetsOrLost
  <2> SUFFICES ASSUME HooksKept' PROVE BudgetsInv'
    BY <2>1 DEF BudgetsOrLost
  <2>2. BudgetsInv
    BY <2>1 DEF BudgetsOrLost
  <2>3. ASSUME NEW n \in Lengths, NEW hook \in BOOLEAN, EncodeObject(n, hook)
        PROVE  BudgetsInv'
    <3>1. hook = TRUE
      BY <2>3, ObjectLosesHook DEF BudgetsOrLost
    <3> QED BY <2>2, <2>3, <3>1, EncoderStep
  <2> QED BY <2>2, <2>3, EncoderStep, OtherStep DEF BudgetNext
<1>3. BudgetsOrLost => NothingRefused
  BY DEF BudgetsOrLost, BudgetsInv, NothingRefused
<1> QED BY <1>1, <1>2, <1>3, PTL DEF BudgetSpec
-----------------------------------------------------------------------------
(* Numbers on the wire: arithmetic.                                         *)

(* Induction, for a set of naturals.                                        *)
LEMMA NumberInduction ==
  ASSUME NEW T \in SUBSET Nat, 0 \in T, \A n \in T : n + 1 \in T
  PROVE  \A n \in Nat : n \in T
<1> DEFINE S == {n \in Nat : n \notin T}
<1>1. SUFFICES ASSUME S # {} PROVE FALSE
  OBVIOUS
<1>2. PICK m \in S : \A y \in S : m <= y
  BY <1>1, LeastNat
<1>3. m # 0 /\ m - 1 \in Nat /\ m - 1 \notin S
  BY <1>2
<1> QED
  BY <1>2, <1>3

(* Euclid's division.                                                       *)
LEMMA Division ==
  ASSUME NEW a \in Int, NEW b \in Nat \ {0}
  PROVE  /\ a \div b \in Int /\ a % b \in 0 .. b - 1
         /\ a = b * (a \div b) + (a % b)
         /\ a \in Nat => a \div b \in Nat
<1>1. a \div b \in Int
  BY Z3
<1>2. a % b \in 0 .. b - 1
  BY Z3
<1>3. a = b * (a \div b) + (a % b)
  BY Z3
<1>4. a \in Nat => a \div b \in Nat
  BY Z3
<1> QED
  BY <1>1, <1>2, <1>3, <1>4

(* Its quotient and remainder are the only ones.                            *)
LEMMA OneRemainder ==
  ASSUME NEW b \in Nat \ {0}, NEW p \in Int, NEW q \in Int,
         NEW r \in 0 .. b - 1, NEW s \in 0 .. b - 1, b * p + r = b * q + s
  PROVE  p = q /\ r = s
<1>1. CASE p = q
  BY <1>1
<1>2. ASSUME NEW x \in Int, NEW y \in Int, NEW i \in 0 .. b - 1, NEW j \in 0 .. b - 1, x < y
      PROVE  b * x + i < b * y + j
  <2>1. b * (x + 1) = b * x + b /\ b * (x + 1) \in Int /\ b * y \in Int /\ b * x \in Int
    BY Z3
  <2>2. b * (x + 1) <= b * y
    BY <1>2
  <2> QED
    BY <2>1, <2>2
<1>3. b * p \in Int /\ b * q \in Int
  OBVIOUS
<1> QED
  BY <1>1, <1>2, <1>3

(* The recursion of Pow2 has a solution.                                    *)
LEMMA PowersExist ==
  \A n \in Nat : \E f : f = [i \in 0 .. n |-> IF i = 0 THEN 1 ELSE 2 * f[i - 1]]
<1> DEFINE Step(f, i) == IF i = 0 THEN 1 ELSE 2 * f[i - 1]
           T == {n \in Nat : \E f : f = [i \in 0 .. n |-> Step(f, i)]}
<1>1. 0 \in T
  <2>1. [i \in 0 .. 0 |-> 1] = [i \in 0 .. 0 |-> Step([j \in 0 .. 0 |-> 1], i)]
    OBVIOUS
  <2> QED
    BY <2>1
<1>2. ASSUME NEW n \in T PROVE n + 1 \in T
  <2>1. PICK f : f = [i \in 0 .. n |-> Step(f, i)]
    OBVIOUS
  <2> DEFINE g == [i \in 0 .. n + 1 |-> IF i = n + 1 THEN Step(f, i) ELSE f[i]]
  <2>2. \A i \in 0 .. n : f[i] = Step(f, i)
    BY <2>1
  <2>3. \A i \in 0 .. n + 1 : g[i] = Step(g, i)
    BY <2>2
  <2>4. g = [i \in 0 .. n + 1 |-> Step(g, i)]
    <3> HIDE DEF Step
    <3> QED
      BY <2>3
  <2>5. n + 1 \in Nat
    OBVIOUS
  <2> HIDE DEF Step, g
  <2> QED
    BY <2>4, <2>5
<1>3. T \in SUBSET Nat
  OBVIOUS
<1> HIDE DEF T
<1>4. \A n \in Nat : n \in T
  BY <1>1, <1>2, <1>3, NumberInduction
<1> QED
  BY <1>4 DEF T

(* Pow2 doubles.                                                            *)
LEMMA PowersDouble ==
  /\ Pow2[0] = 1
  /\ \A n \in 1 .. Bits : Pow2[n] = 2 * Pow2[n - 1]
<1>1. Bits \in Nat
  BY NumbersAssumption
<1> DEFINE F(f) == f = [n \in 0 .. Bits |-> IF n = 0 THEN 1 ELSE 2 * f[n - 1]]
<1>2. F(Pow2)
  <2>1. \E f : F(f)
    BY <1>1, PowersExist
  <2>2. Pow2 = CHOOSE f : F(f)
    BY DEF Pow2
  <2> HIDE DEF F
  <2> QED
    BY <2>1, <2>2
<1>3. \A n \in 0 .. Bits : Pow2[n] = IF n = 0 THEN 1 ELSE 2 * Pow2[n - 1]
  BY <1>2
<1> QED
  BY <1>1, <1>3

(* Powers are positive.                                                     *)
LEMMA PowersPositive == \A n \in 0 .. Bits : Pow2[n] \in Nat \ {0}
<1> DEFINE T == {n \in Nat : n <= Bits => Pow2[n] \in Nat \ {0}}
<1>0. Bits \in Nat
  BY NumbersAssumption
<1>1. 0 \in T
  BY PowersDouble
<1>2. ASSUME NEW n \in T PROVE n + 1 \in T
  <2>1. n + 1 <= Bits => n + 1 \in 1 .. Bits /\ (n + 1) - 1 = n
    BY <1>0
  <2> QED
    BY <1>0, <2>1, PowersDouble
<1>3. T \in SUBSET Nat
  OBVIOUS
<1> HIDE DEF T
<1>4. \A n \in Nat : n \in T
  BY <1>1, <1>2, <1>3, NumberInduction
<1> QED
  BY <1>0, <1>4 DEF T

(* Shifting twice is shifting by the sum.                                   *)
LEMMA PowersAdd ==
  ASSUME NEW a \in Nat, NEW b \in Nat, a + b <= Bits
  PROVE  Pow2[a + b] = Pow2[a] * Pow2[b]
<1> DEFINE T == {n \in Nat : a + n <= Bits => Pow2[a + n] = Pow2[a] * Pow2[n]}
<1>0. Bits \in Nat /\ a \in 0 .. Bits
  BY NumbersAssumption
<1>1. 0 \in T
  BY <1>0, PowersDouble, PowersPositive
<1>2. ASSUME NEW n \in T PROVE n + 1 \in T
  <2> SUFFICES ASSUME a + (n + 1) <= Bits
               PROVE  Pow2[a + (n + 1)] = Pow2[a] * Pow2[n + 1]
    OBVIOUS
  <2>1. /\ a + (n + 1) \in 1 .. Bits /\ n + 1 \in 1 .. Bits /\ n \in 0 .. Bits
        /\ (a + (n + 1)) - 1 = a + n /\ (n + 1) - 1 = n /\ a + n <= Bits
    BY <1>0
  <2>2. Pow2[a + (n + 1)] = 2 * Pow2[a + n] /\ Pow2[n + 1] = 2 * Pow2[n]
    BY <2>1, PowersDouble
  <2>3. Pow2[a + n] = Pow2[a] * Pow2[n]
    BY <2>1
  <2>4. Pow2[a] \in Nat /\ Pow2[n] \in Nat
    BY <1>0, <2>1, PowersPositive
  <2> DEFINE x == Pow2[a]
             y == Pow2[n]
  <2> HIDE DEF x, y
  <2>5. 2 * (x * y) = x * (2 * y)
    BY <2>4 DEF x, y
  <2> QED
    BY <2>2, <2>3, <2>5 DEF x, y
<1>3. T \in SUBSET Nat
  OBVIOUS
<1> HIDE DEF T
<1>4. \A n \in Nat : n \in T
  BY <1>1, <1>2, <1>3, NumberInduction
<1> QED
  BY <1>4 DEF T

(* Powers grow.                                                             *)
LEMMA PowersGrow ==
  ASSUME NEW a \in Nat, NEW b \in Nat, a < b, b <= Bits
  PROVE  2 * Pow2[a] <= Pow2[b]
<1>1. Bits \in Nat /\ b - a - 1 \in 0 .. Bits /\ a + 1 \in 1 .. Bits /\ (a + 1) - 1 = a
      /\ (a + 1) + (b - a - 1) = b /\ a \in 0 .. Bits
  BY NumbersAssumption
<1>2. Pow2[b] = Pow2[a + 1] * Pow2[b - a - 1]
  BY <1>1, PowersAdd
<1>3. Pow2[a + 1] = 2 * Pow2[a]
  BY <1>1, PowersDouble
<1>4. Pow2[b - a - 1] \in Nat \ {0} /\ Pow2[a] \in Nat
  BY <1>1, PowersPositive
<1> DEFINE x == 2 * Pow2[a]
           y == Pow2[b - a - 1]
<1>5. x \in Nat /\ y \in Nat \ {0}
  BY <1>4
<1> HIDE DEF x, y
<1>6. x <= x * y
  BY <1>5, Z3
<1> QED
  BY <1>2, <1>3, <1>6 DEF x, y

(* How words, their halves and groups compare.                              *)
LEMMA WordSizes ==
  /\ Half \in Nat \ {0} /\ Word = 2 * Half /\ Word \in Nat
  /\ Radix \in Nat /\ 2 <= Radix /\ Radix <= Half
<1>1. Bits \in Nat /\ Group \in Nat /\ 1 <= Group /\ Group <= Bits - 1
      /\ Bits \in 1 .. Bits /\ Bits - 1 \in 0 .. Bits /\ Group \in 0 .. Bits
  BY NumbersAssumption
<1>2. Word = 2 * Half
  BY <1>1, PowersDouble DEF Word, Half
<1>3. Half \in Nat \ {0} /\ Radix \in Nat \ {0}
  BY <1>1, PowersPositive DEF Half, Radix
<1>4. 2 <= Radix
  <2>1. 2 * Pow2[0] <= Pow2[Group]
    BY <1>1, PowersGrow
  <2> QED
    BY <2>1, PowersDouble DEF Radix
<1>5. Radix <= Half
  <2>1. CASE Group = Bits - 1
    BY <2>1, <1>3 DEF Radix, Half
  <2>2. CASE Group < Bits - 1
    <3>1. 2 * Radix <= Half
      BY <1>1, <2>2, PowersGrow DEF Radix, Half
    <3> QED
      BY <1>3, <3>1
  <2> QED
    BY <1>1, <2>1, <2>2
<1> QED
  BY <1>2, <1>3, <1>4, <1>5

-----------------------------------------------------------------------------
(* Words.                                                                   *)

(* A number is its word and a multiple of Word.                             *)
LEMMA WrapIs ==
  ASSUME NEW x \in Int
  PROVE  Wrap(x) \in 0 .. Word - 1 /\ \E q \in Int : x = Word * q + Wrap(x)
<1> DEFINE W == Word
<1>0. W \in Nat \ {0}
  BY WordSizes
<1> HIDE DEF W
<1>1. x \div W \in Int /\ x % W \in 0 .. W - 1 /\ x = W * (x \div W) + (x % W)
  BY <1>0, Division
<1> QED
  BY <1>1 DEF W, Wrap

(* In one way only.                                                         *)
LEMMA OneWord ==
  ASSUME NEW x \in Int, NEW q \in Int, NEW r \in 0 .. Word - 1, x = Word * q + r
  PROVE  Wrap(x) = r
<1>1. PICK p \in Int : x = Word * p + Wrap(x)
  BY WrapIs
<1>2. Wrap(x) \in 0 .. Word - 1 /\ Word \in Nat \ {0}
  BY WrapIs, WordSizes
<1> DEFINE W == Word
           w == Wrap(x)
<1>3. W * p + w = W * q + r
  BY <1>1
<1>4. w \in 0 .. W - 1 /\ r \in 0 .. W - 1 /\ W \in Nat \ {0}
  BY <1>2
<1> HIDE DEF W, w
<1>5. w = r
  BY <1>3, <1>4, OneRemainder
<1> QED
  BY <1>5 DEF w

(* Words are their own, and a word too low is Word below its own.           *)
LEMMA NearWords ==
  /\ \A x \in 0 .. Word - 1 : Wrap(x) = x
  /\ \A x \in -Word .. -1 : Wrap(x) = x + Word
<1> DEFINE W == Word
<1>1. W \in Nat \ {0}
  BY WordSizes
<1>2. ASSUME NEW x \in 0 .. W - 1 PROVE Wrap(x) = x
  <2>1. x \in Int /\ 0 \in Int /\ x = W * 0 + x
    BY <1>1
  <2> QED
    BY <2>1, OneWord
<1>3. ASSUME NEW x \in -W .. -1 PROVE Wrap(x) = x + W
  <2> HIDE DEF W
  <2> DEFINE r == x + W
  <2>1. x \in Int /\ -1 \in Int /\ r \in 0 .. W - 1 /\ x = W * (-1) + r
    BY <1>1
  <2> HIDE DEF r
  <2>2. Wrap(x) = r
    BY <2>1, OneWord DEF W
  <2> QED
    BY <2>2 DEF r
<1> QED
  BY <1>2, <1>3

(* A number that is congruent to another has its word.                      *)
LEMMA WrapCongruent ==
  ASSUME NEW x \in Int, NEW y \in Int, NEW q \in Int, x = y + Word * q
  PROVE  Wrap(x) = Wrap(y)
<1>1. PICK p \in Int : y = Word * p + Wrap(y)
  BY WrapIs
<1>2. Wrap(y) \in 0 .. Word - 1 /\ Word \in Nat
  BY WrapIs, WordSizes
<1> DEFINE w == Wrap(y)
           W == Word
<1> HIDE DEF w, W
<1>3. x = W * (p + q) + w
  BY <1>1, <1>2 DEF w, W
<1>4. p + q \in Int
  OBVIOUS
<1> QED
  BY <1>2, <1>3, <1>4, OneWord DEF w, W

(* A signed number of a word's width comes back from its word.              *)
LEMMA SignedWrap ==
  ASSUME NEW n \in -Half .. Half - 1
  PROVE  Signed(Wrap(n)) = n
<1>1. Half \in Nat \ {0} /\ Word = 2 * Half /\ n \in Int
  BY WordSizes
<1>2. CASE n >= 0
  <2>1. n \in 0 .. Word - 1 /\ n = Word * 0 + n
    BY <1>1, <1>2
  <2>2. Wrap(n) = n
    BY <1>1, <2>1, NearWords
  <2> QED
    BY <1>1, <1>2, <2>2 DEF Signed
<1>3. CASE n < 0
  <2>1. n + Word \in 0 .. Word - 1 /\ n = Word * (-1) + (n + Word)
    BY <1>1, <1>3
  <2>2. Wrap(n) = n + Word
    BY <1>1, <2>1, NearWords
  <2> QED
    BY <1>1, <1>3, <2>2 DEF Signed
<1> QED
  BY <1>1, <1>2, <1>3

(* What Signed makes of a word is of a word's width, and has that word.     *)
LEMMA WrapSigned ==
  ASSUME NEW u \in 0 .. Word - 1
  PROVE  Signed(u) \in -Half .. Half - 1 /\ Wrap(Signed(u)) = u
<1>1. Half \in Nat \ {0} /\ Word = 2 * Half /\ u \in Int
  BY WordSizes
<1>2. CASE u >= Half
  <2>1. Signed(u) = u - Word /\ u - Word \in Int /\ u - Word = Word * (-1) + u
    BY <1>1, <1>2 DEF Signed
  <2>2. Wrap(u - Word) = u
    BY <1>1, <2>1, NearWords
  <2> QED
    BY <1>1, <1>2, <2>1, <2>2
<1>3. CASE u < Half
  <2>1. Signed(u) = u /\ u = Word * 0 + u
    BY <1>1, <1>3 DEF Signed
  <2>2. Wrap(u) = u
    BY <1>1, <2>1, NearWords
  <2> QED
    BY <1>1, <1>3, <2>1, <2>2
<1> QED
  BY <1>1, <1>2, <1>3

(* Folding negative numbers in and out again: zigzag_encode64 and its        *)
(* inverse.                                                                  *)
LEMMA ZigZagBack ==
  ASSUME NEW n \in -Half .. Half - 1
  PROVE  ZigZag(n) \in 0 .. Word - 1 /\ UnZigZag(ZigZag(n)) = n
<1>1. Half \in Nat \ {0} /\ Word = 2 * Half /\ n \in Int /\ 2 * n \in Int
  BY WordSizes
<1>2. CASE n >= 0
  <2>1. 2 * n \in 0 .. Word - 1 /\ 2 * n = Word * 0 + 2 * n
    BY <1>1, <1>2
  <2>2. Wrap(2 * n) = 2 * n
    BY <1>1, <2>1, NearWords
  <2>3. ZigZag(n) = 2 * n
    BY <1>2, <2>2 DEF ZigZag
  <2>4. (2 * n) % 2 = 0 /\ (2 * n) \div 2 = n
    BY <1>1
  <2>5. Signed(n) = n
    BY <1>1 DEF Signed
  <2> QED
    BY <2>1, <2>3, <2>4, <2>5 DEF UnZigZag
<1>3. CASE n < 0
  <2>1. 2 * n + Word \in 0 .. Word - 1 /\ 2 * n = Word * (-1) + (2 * n + Word)
    BY <1>1, <1>3
  <2>2. Wrap(2 * n) = 2 * n + Word
    BY <1>1, <2>1, NearWords
  <2>3. ZigZag(n) = 2 * (-n - 1) + 1 /\ ZigZag(n) \in 0 .. Word - 1
    BY <1>1, <1>3, <2>1, <2>2 DEF ZigZag, Ones
  <2>4. (2 * (-n - 1) + 1) % 2 = 1 /\ (2 * (-n - 1) + 1) \div 2 = -n - 1
    BY <1>1
  <2>5. UnZigZag(ZigZag(n)) = Signed(Ones(-n - 1))
    BY <2>3, <2>4 DEF UnZigZag
  <2>6. Signed(Ones(-n - 1)) = n
    BY <1>1, <1>3 DEF Signed, Ones
  <2> QED
    BY <2>3, <2>5, <2>6
<1> QED
  BY <1>1, <1>2, <1>3

(* Adding a difference modulo the word leads from one number to the other.  *)
LEMMA AddDifference ==
  ASSUME NEW a \in Int, NEW b \in Int
  PROVE  Add(Wrap(a), Signed(Wrap(b - a))) = Wrap(b)
<1> DEFINE d == Signed(Wrap(b - a))
<1>1. Wrap(b - a) \in 0 .. Word - 1 /\ Wrap(a) \in 0 .. Word - 1 /\ b - a \in Int
  BY WrapIs
<1>2. Half \in Nat /\ Word \in Nat
  BY WordSizes
<1>3. d \in -Half .. Half - 1 /\ Wrap(d) = Wrap(b - a)
  BY <1>1, WrapSigned
<1>4. d \in Int /\ Wrap(a) \in Int
  BY <1>1, <1>2, <1>3
<1> HIDE DEF d
<1>5. PICK p \in Int : a = Word * p + Wrap(a)
  BY WrapIs
<1>6. PICK q \in Int : d = Word * q + Wrap(d)
  BY <1>4, WrapIs
<1>7. PICK r \in Int : b - a = Word * r + Wrap(b - a)
  BY <1>1, WrapIs
<1> DEFINE W == Word
           s == Wrap(b - a)
           t == Wrap(a)
<1>8. W \in Int /\ s \in Int /\ t \in Int
  BY <1>1, <1>2
<1>9. a = W * p + t /\ d = W * q + s /\ b - a = W * r + s
  BY <1>3, <1>5, <1>6, <1>7
<1> HIDE DEF W, s, t
<1>10. W * (q - p - r) = W * q - W * p - W * r /\ W * q \in Int /\ W * p \in Int /\ W * r \in Int
  BY <1>8
<1>11. t + d = b + W * (q - p - r)
  BY <1>8, <1>9, <1>10
<1>12. t + d \in Int /\ q - p - r \in Int
  BY <1>4, <1>8
<1> HIDE DEF W
<1>13. Wrap(t + d) = Wrap(b)
  BY <1>11, <1>12, WrapCongruent DEF W
<1> QED
  BY <1>13 DEF t, d, Add

-----------------------------------------------------------------------------
(* Bytes.                                                                   *)

Byte   == 0 .. 2 * Radix - 1
Number == -Half .. Half - 1

(* What is left of a number after its low bits is less.                     *)
LEMMA QuotientIsLess ==
  ASSUME NEW u \in Nat, u >= Radix
  PROVE  /\ u \div Radix \in 1 .. u - 1 /\ u % Radix \in 0 .. Radix - 1
         /\ u = Radix * (u \div Radix) + (u % Radix)
<1> DEFINE R == Radix
           q == u \div R
           r == u % R
<1>1. R \in Nat /\ R >= 2
  BY WordSizes
<1> HIDE DEF R
<1>2. q \in Nat /\ r \in 0 .. R - 1 /\ u = R * q + r
  <2>1. u \in Int /\ R \in Nat \ {0}
    BY <1>1
  <2> QED
    BY <2>1, Division
<1> HIDE DEF q, r
<1>3. q # 0
  <2>1. q = 0 => R * q = 0
    BY <1>1
  <2> QED
    BY <1>1, <1>2, <2>1 DEF R
<1>4. 2 * q <= R * q
  BY <1>1, <1>2
<1>5. q < u
  BY <1>1, <1>2, <1>3, <1>4
<1> QED
  BY <1>2, <1>3, <1>5 DEF q, r, R

(* The recursion of VarintPut has a solution.                               *)
LEMMA VarintExists ==
  \A n \in Nat : \E f : f = [u \in 0 .. n |->
     IF u < Radix THEN <<u>> ELSE <<Radix + (u % Radix)>> \o f[u \div Radix]]
<1> DEFINE Step(f, u) == IF u < Radix THEN <<u>>
                         ELSE <<Radix + (u % Radix)>> \o f[u \div Radix]
           T == {n \in Nat : \E f : f = [u \in 0 .. n |-> Step(f, u)]}
<1>0. Radix \in Nat /\ 2 <= Radix
  BY WordSizes
<1>a. ASSUME NEW f, NEW g, NEW u \in Nat, \A i \in 0 .. u - 1 : f[i] = g[i]
      PROVE  Step(f, u) = Step(g, u)
  <2>1. CASE u < Radix
    BY <2>1
  <2>2. CASE ~ (u < Radix)
    <3>1. u \div Radix \in 0 .. u - 1
      <4>1. u >= Radix
        BY <1>0, <2>2
      <4>2. u \div Radix \in 1 .. u - 1
        BY <4>1, QuotientIsLess
      <4> QED
        BY <4>2
    <3>2. f[u \div Radix] = g[u \div Radix]
      BY <1>a, <3>1
    <3> QED
      BY <2>2, <3>2
  <2> QED
    BY <2>1, <2>2
<1> HIDE DEF Step
<1>1. 0 \in T
  <2> DEFINE f == [u \in 0 .. 0 |-> Step(<<>>, u)]
             g == [u \in 0 .. 0 |-> Step(f, u)]
  <2>1. \A i \in 0 .. 0 - 1 : <<>>[i] = f[i]
    OBVIOUS
  <2>2. Step(<<>>, 0) = Step(f, 0)
    <3> HIDE DEF f
    <3> QED
      BY <1>a, <2>1
  <2>3. f = g
    BY <2>2
  <2> QED
    BY <2>3
<1>2. ASSUME NEW n \in T PROVE n + 1 \in T
  <2>1. PICK f : f = [u \in 0 .. n |-> Step(f, u)]
    OBVIOUS
  <2> DEFINE g == [u \in 0 .. n + 1 |-> IF u = n + 1 THEN Step(f, u) ELSE f[u]]
  <2>2. \A u \in 0 .. n : f[u] = Step(f, u)
    BY <2>1
  <2>3. n \in Nat /\ \A u \in 0 .. n : g[u] = f[u]
    OBVIOUS
  <2>4. g[n + 1] = Step(f, n + 1)
    BY <2>3
  <2>5. DOMAIN g = 0 .. n + 1 /\ g = [u \in 0 .. n + 1 |-> g[u]]
    OBVIOUS
  <2> HIDE DEF g
  <2>6. ASSUME NEW u \in 0 .. n + 1 PROVE g[u] = Step(g, u)
    <3>1. u \in Nat /\ \A i \in 0 .. u - 1 : f[i] = g[i]
      BY <2>3
    <3>2. Step(f, u) = Step(g, u)
      BY <1>a, <3>1
    <3> QED
      BY <2>2, <2>3, <2>4, <3>2
  <2>7. g = [u \in 0 .. n + 1 |-> Step(g, u)]
    BY <2>5, <2>6
  <2> QED
    BY <2>3, <2>7
<1>3. T \in SUBSET Nat
  OBVIOUS
<1> HIDE DEF T
<1>4. \A n \in Nat : n \in T
  BY <1>1, <1>2, <1>3, NumberInduction
<1> QED
  BY <1>4 DEF T, Step

(* VarintPut does what its definition says.                                 *)
LEMMA VarintForm ==
  ASSUME NEW u \in 0 .. Word - 1
  PROVE  VarintPut[u] = IF u < Radix THEN <<u>>
                        ELSE <<Radix + (u % Radix)>> \o VarintPut[u \div Radix]
<1> DEFINE F(f) == f = [i \in 0 .. Word - 1 |->
             IF i < Radix THEN <<i>> ELSE <<Radix + (i % Radix)>> \o f[i \div Radix]]
<1>1. Word - 1 \in Nat
  BY WordSizes
<1>2. \E f : F(f)
  BY <1>1, VarintExists
<1>3. VarintPut = CHOOSE f : F(f)
  BY DEF VarintPut
<1>4. F(VarintPut)
  <2> HIDE DEF F
  <2> QED
    BY <1>2, <1>3
<1> DEFINE V == VarintPut
<1>5. F(V)
  BY <1>4
<1> HIDE DEF V
<1>6. V[u] = IF u < Radix THEN <<u>> ELSE <<Radix + (u % Radix)>> \o V[u \div Radix]
  BY <1>5
<1> QED
  BY <1>6 DEF V

(* It writes bytes.                                                         *)
LEMMA VarintBytes == \A u \in 0 .. Word - 1 : VarintPut[u] \in Seq(Byte)
<1> DEFINE T == {n \in Nat : \A u \in 0 .. n : u \in 0 .. Word - 1 => VarintPut[u] \in Seq(Byte)}
<1>0. Word \in Nat /\ Radix \in Nat /\ 2 <= Radix
  BY WordSizes
<1>a. ASSUME NEW u \in 0 .. Word - 1,
             \A i \in 0 .. u - 1 : VarintPut[i] \in Seq(Byte)
      PROVE  VarintPut[u] \in Seq(Byte)
  <2>1. CASE u < Radix
    <3>1. VarintPut[u] = <<u>>
      BY <2>1, VarintForm
    <3>2. u \in Byte
      BY <1>0, <2>1 DEF Byte
    <3> QED
      BY <3>1, <3>2
  <2>2. CASE ~ (u < Radix)
    <3>1. u \in Nat /\ u >= Radix
      BY <1>0, <2>2
    <3>2. u \div Radix \in 1 .. u - 1 /\ u % Radix \in 0 .. Radix - 1
      BY <3>1, QuotientIsLess
    <3>3. VarintPut[u \div Radix] \in Seq(Byte)
      BY <1>a, <3>2
    <3>4. VarintPut[u] = <<Radix + (u % Radix)>> \o VarintPut[u \div Radix]
      BY <2>2, VarintForm
    <3> DEFINE h == Radix + (u % Radix)
               s == VarintPut[u \div Radix]
    <3>5. h \in Byte
      BY <1>0, <3>2 DEF Byte
    <3> HIDE DEF h, s
    <3>6. <<h>> \o s \in Seq(Byte)
      BY <3>3, <3>5 DEF s
    <3> QED
      BY <3>4, <3>6 DEF h, s
  <2> QED
    BY <2>1, <2>2
<1>1. 0 \in T
  <2>1. 0 \in 0 .. Word - 1 => VarintPut[0] \in Seq(Byte)
    BY <1>a
  <2> QED
    BY <2>1
<1>2. ASSUME NEW n \in T PROVE n + 1 \in T
  <2> SUFFICES ASSUME NEW u \in 0 .. n + 1, u \in 0 .. Word - 1
               PROVE  VarintPut[u] \in Seq(Byte)
    OBVIOUS
  <2>1. \A i \in 0 .. n : i \in 0 .. Word - 1 => VarintPut[i] \in Seq(Byte)
    OBVIOUS
  <2>2. \A i \in 0 .. u - 1 : i \in 0 .. n /\ i \in 0 .. Word - 1
    BY <1>0
  <2> QED
    BY <1>a, <2>1, <2>2
<1>3. T \in SUBSET Nat
  OBVIOUS
<1>4. \A n \in Nat : n \in T
  <2> HIDE DEF T
  <2> QED
    BY <1>1, <1>2, <1>3, NumberInduction
<1> SUFFICES ASSUME NEW u \in 0 .. Word - 1 PROVE VarintPut[u] \in Seq(Byte)
  OBVIOUS
<1>5. u \in T /\ u \in 0 .. u
  BY <1>0, <1>4
<1> QED
  BY <1>5

(* The first byte of a number, and the bytes after it.                      *)
LEMMA FirstByte ==
  ASSUME NEW w \in 0 .. Word - 1, NEW s \in Seq(Byte), NEW bytes, bytes = VarintPut[w] \o s
  PROVE  /\ bytes \in Seq(Byte) /\ bytes # <<>>
         /\ w < Radix => Head(bytes) = w /\ Tail(bytes) = s
         /\ w >= Radix => /\ Head(bytes) = Radix + (w % Radix)
                          /\ Tail(bytes) = VarintPut[w \div Radix] \o s
<1>0. Word \in Nat /\ Radix \in Nat /\ 2 <= Radix
  BY WordSizes
<1>a. ASSUME NEW h \in Byte, NEW t \in Seq(Byte)
      PROVE  /\ <<h>> \o t \in Seq(Byte) /\ <<h>> \o t # <<>>
             /\ Head(<<h>> \o t) = h /\ Tail(<<h>> \o t) = t
  OBVIOUS
<1>1. CASE w < Radix
  <2>1. VarintPut[w] = <<w>>
    BY <1>1, VarintForm
  <2>3. w \in Byte
    BY <1>0, <1>1 DEF Byte
  <2>2. ~ (w >= Radix)
    BY <1>0, <1>1
  <2> QED
    BY <1>1, <1>a, <2>1, <2>2, <2>3
<1>2. CASE w >= Radix
  <2>1. w \in Nat /\ ~ (w < Radix)
    BY <1>0, <1>2
  <2>2. w \div Radix \in 1 .. w - 1 /\ w % Radix \in 0 .. Radix - 1
    BY <1>2, <2>1, QuotientIsLess
  <2>3. w \div Radix \in 0 .. Word - 1 /\ Radix + (w % Radix) \in Byte
    BY <1>0, <2>2 DEF Byte
  <2>4. VarintPut[w \div Radix] \in Seq(Byte)
    BY <2>3, VarintBytes
  <2>5. VarintPut[w] = <<Radix + (w % Radix)>> \o VarintPut[w \div Radix]
    BY <2>1, VarintForm
  <2> DEFINE h == Radix + (w % Radix)
             t == VarintPut[w \div Radix]
  <2>6. h \in Byte /\ t \in Seq(Byte) /\ bytes = (<<h>> \o t) \o s
    BY <2>3, <2>4, <2>5
  <2> HIDE DEF h, t
  <2>7. (<<h>> \o t) \o s = <<h>> \o (t \o s) /\ t \o s \in Seq(Byte)
    BY <2>6
  <2>8. /\ bytes \in Seq(Byte) /\ bytes # <<>>
        /\ Head(bytes) = h /\ Tail(bytes) = t \o s
    BY <1>a, <2>6, <2>7
  <2> QED
    BY <2>1, <2>8 DEF h, t
<1>3. w < Radix \/ w >= Radix
  BY <1>0
<1> QED
  BY <1>1, <1>2, <1>3

(* The last numbers of r, one after another.                                *)
Last(r) == CHOOSE f : f = [n \in 0 .. Len(r) |->
             IF n = 0 THEN <<>> ELSE Put(r[Len(r) + 1 - n]) \o f[n - 1]]

(* The recursion of Bytes has a solution.                                   *)
LEMMA BytesExist ==
  ASSUME NEW r
  PROVE  \A n \in Nat : \E f : f = [i \in 0 .. n |->
           IF i = 0 THEN <<>> ELSE Put(r[Len(r) + 1 - i]) \o f[i - 1]]
<1> DEFINE Step(f, i) == IF i = 0 THEN <<>> ELSE Put(r[Len(r) + 1 - i]) \o f[i - 1]
           T == {n \in Nat : \E f : f = [i \in 0 .. n |-> Step(f, i)]}
<1>1. 0 \in T
  <2>1. [i \in 0 .. 0 |-> <<>>] = [i \in 0 .. 0 |-> Step([j \in 0 .. 0 |-> <<>>], i)]
    OBVIOUS
  <2> QED
    BY <2>1
<1>2. ASSUME NEW n \in T PROVE n + 1 \in T
  <2>1. PICK f : f = [i \in 0 .. n |-> Step(f, i)]
    OBVIOUS
  <2> DEFINE g == [i \in 0 .. n + 1 |-> IF i = n + 1 THEN Step(f, i) ELSE f[i]]
  <2>2. \A i \in 0 .. n : f[i] = Step(f, i)
    BY <2>1
  <2>3. \A i \in 0 .. n + 1 : g[i] = Step(g, i)
    BY <2>2
  <2>4. g = [i \in 0 .. n + 1 |-> Step(g, i)]
    <3> HIDE DEF Step
    <3> QED
      BY <2>3
  <2>5. n + 1 \in Nat
    OBVIOUS
  <2> HIDE DEF Step, g
  <2> QED
    BY <2>4, <2>5
<1>3. T \in SUBSET Nat
  OBVIOUS
<1> HIDE DEF T
<1>4. \A n \in Nat : n \in T
  BY <1>1, <1>2, <1>3, NumberInduction
<1> QED
  BY <1>4 DEF T

(* A number and what is after it.                                           *)
LEMMA LastBytes ==
  ASSUME NEW r \in Seq(Number)
  PROVE  /\ Bytes(r) = Last(r)[Len(r)]
         /\ Last(r)[0] = <<>>
         /\ \A n \in 1 .. Len(r) : Last(r)[n] = Put(r[Len(r) + 1 - n]) \o Last(r)[n - 1]
         /\ \A n \in 0 .. Len(r) : Last(r)[n] \in Seq(Byte)
<1> DEFINE F(f) == f = [n \in 0 .. Len(r) |->
             IF n = 0 THEN <<>> ELSE Put(r[Len(r) + 1 - n]) \o f[n - 1]]
           last == Last(r)
           T == {n \in Nat : n <= Len(r) => last[n] \in Seq(Byte)}
<1>0. Len(r) \in Nat /\ \A i \in 1 .. Len(r) : r[i] \in Number
  OBVIOUS
<1>1. \E f : F(f)
  BY <1>0, BytesExist
<1>2. last = CHOOSE f : F(f)
  BY DEF Last
<1>3. F(last)
  <2> HIDE DEF F, last
  <2> QED
    BY <1>1, <1>2
<1>4. Bytes(r) = last[Len(r)]
  BY DEF Bytes, Last
<1>5. /\ last[0] = <<>>
      /\ \A n \in 1 .. Len(r) : last[n] = Put(r[Len(r) + 1 - n]) \o last[n - 1]
  <2> HIDE DEF last
  <2>1. \A n \in 0 .. Len(r) : last[n] = IF n = 0 THEN <<>>
                                         ELSE Put(r[Len(r) + 1 - n]) \o last[n - 1]
    BY <1>3
  <2>2. last[0] = <<>>
    <3>1. 0 \in 0 .. Len(r)
      BY <1>0
    <3> QED
      BY <2>1, <3>1
  <2>3. ASSUME NEW n \in 1 .. Len(r)
        PROVE  last[n] = Put(r[Len(r) + 1 - n]) \o last[n - 1]
    <3>1. n \in 0 .. Len(r) /\ n # 0
      BY <1>0
    <3> QED
      BY <2>1, <3>1
  <2> QED
    BY <2>2, <2>3
<1> HIDE DEF last, F
<1>6. \A m \in Number : Put(m) \in Seq(Byte)
  BY ZigZagBack, VarintBytes DEF Number, Put
<1>7. 0 \in T
  <2>1. <<>> \in Seq(Byte)
    OBVIOUS
  <2> QED
    BY <1>5, <2>1
<1>8. ASSUME NEW n \in T PROVE n + 1 \in T
  <2> SUFFICES ASSUME n + 1 <= Len(r) PROVE last[n + 1] \in Seq(Byte)
    OBVIOUS
  <2>1. /\ n + 1 \in 1 .. Len(r) /\ (n + 1) - 1 = n /\ last[n] \in Seq(Byte)
        /\ Len(r) + 1 - (n + 1) \in 1 .. Len(r)
    BY <1>0
  <2>2. r[Len(r) + 1 - (n + 1)] \in Number
    BY <1>0, <2>1
  <2>3. Put(r[Len(r) + 1 - (n + 1)]) \in Seq(Byte)
    BY <1>6, <2>2
  <2>4. last[n + 1] = Put(r[Len(r) + 1 - (n + 1)]) \o last[n]
    BY <1>5, <2>1
  <2> QED
    BY <2>1, <2>3, <2>4
<1>9. T \in SUBSET Nat
  OBVIOUS
<1>10. \A n \in Nat : n \in T
  <2> HIDE DEF T
  <2> QED
    BY <1>7, <1>8, <1>9, NumberInduction
<1>11. \A n \in 0 .. Len(r) : last[n] \in Seq(Byte)
  BY <1>0, <1>10
<1> QED
  BY <1>4, <1>5, <1>11 DEF last

-----------------------------------------------------------------------------
(* Reading a number.                                                        *)

(* The bits of the number being read that are known.                        *)
Known == IF shift = 0 THEN 0 ELSE v

(* They are below the next ones, which come in whole groups; what was read  *)
(* is what the bytes amount to.                                             *)
NumberInv ==
  /\ v \in Nat /\ said = v
  /\ shift \in Nat /\ \E j \in Nat : shift = Group * j
  /\ shift < Bits => Known < Pow2[shift]
  /\ unread \in Seq(Byte)

(* The bits of a byte that fits stay inside the word, and below the ones    *)
(* that follow.                                                             *)
LEMMA ChunkFits ==
  ASSUME NumberInv, NEW chunk \in 0 .. Radix - 1, FitsWord(chunk)
  PROVE  /\ Known + chunk * Pow2[shift] \in 0 .. Word - 1
         /\ shift + Group < Bits => Known + chunk * Pow2[shift] < Pow2[shift + Group]
         /\ shift = 0 => Known + chunk * Pow2[shift] = chunk
<1>0. /\ Bits \in Nat /\ Group \in Nat /\ 1 <= Group /\ Group <= Bits - 1 /\ Bits % Group = 1
      /\ shift \in Nat /\ shift < Bits /\ (shift = Bits - 1 => chunk <= 1)
  BY NumbersAssumption DEF NumberInv, FitsWord
<1>1. /\ Half \in Nat \ {0} /\ Word = 2 * Half /\ Radix \in Nat /\ chunk \in Nat
      /\ chunk <= Radix - 1
  BY WordSizes
<1>2. Known \in Nat /\ Known < Pow2[shift] /\ (shift = 0 => Known = 0)
  BY <1>0 DEF NumberInv, Known
<1> DEFINE P == Pow2[shift]
           k == Known
<1>3. P \in Nat \ {0} /\ (shift = 0 => P = 1)
  BY <1>0, PowersPositive, PowersDouble
<1>4. CASE shift = Bits - 1
  <2>1. P = Half
    BY <1>4 DEF Half
  <2>2. shift # 0 /\ ~ (shift + Group < Bits)
    BY <1>0, <1>4
  <2>3. chunk = 0 \/ chunk = 1
    BY <1>0, <1>1, <1>4
  <2> HIDE DEF P, k
  <2>4. chunk * P = 0 \/ chunk * P = P
    BY <1>3, <2>3
  <2>5. k + chunk * P \in 0 .. Word - 1
    BY <1>1, <1>2, <1>3, <2>1, <2>4 DEF k, P
  <2> QED
    BY <2>2, <2>5 DEF k, P
<1>5. CASE shift # Bits - 1
  <2>1. shift + Group <= Bits - 1
    <3> DEFINE m == Bits \div Group
    <3>1. m \in Nat /\ Bits = Group * m + 1
      <4>1. Bits \in Int /\ Group \in Nat \ {0}
        BY <1>0
      <4>2. m \in Nat /\ Bits = Group * m + (Bits % Group)
        BY <1>0, <4>1, Division
      <4> QED
        BY <1>0, <4>2
    <3>2. PICK j \in Nat : shift = Group * j
      BY DEF NumberInv
    <3> HIDE DEF m
    <3>3. j < m
      <4>1. m <= j => Group * m <= Group * j
        BY <1>0, <3>1, <3>2
      <4>2. Group * m \in Nat /\ Group * j \in Nat
        BY <1>0, <3>1
      <4> QED
        BY <1>0, <1>5, <3>1, <3>2, <4>1, <4>2
    <3>4. Group * (j + 1) <= Group * m
      BY <1>0, <3>1, <3>3
    <3>5. Group * (j + 1) = Group * j + Group
      BY <1>0
    <3> QED
      BY <1>0, <3>1, <3>2, <3>4, <3>5
  <2>2. Pow2[shift + Group] = P * Radix
    BY <1>0, <2>1, PowersAdd DEF Radix
  <2>3. 2 * Pow2[shift + Group] <= Word
    BY <1>0, <2>1, PowersGrow DEF Word
  <2> HIDE DEF P, k
  <2>4. chunk * P + P <= P * Radix /\ chunk * P \in Nat
    <3>1. P * (chunk + 1) <= P * Radix
      BY <1>1, <1>3
    <3>2. P * (chunk + 1) = chunk * P + P
      BY <1>1, <1>3
    <3> QED
      BY <1>1, <1>3, <3>1, <3>2
  <2>5. P * Radix \in Nat /\ k \in Nat /\ k < P /\ Word \in Nat
    BY <1>1, <1>2, <1>3 DEF k, P
  <2> DEFINE Q == P * Radix
             c == chunk * P
  <2>6. Q \in Nat /\ c \in Nat /\ c + P <= Q /\ 2 * Q <= Word
    BY <2>2, <2>3, <2>4, <2>5
  <2> HIDE DEF Q, c
  <2>7. k + c \in 0 .. Word - 1 /\ k + c < Q
    BY <1>3, <2>5, <2>6
  <2>8. shift = 0 => c = chunk /\ k = 0
    BY <1>1, <1>2, <1>3 DEF c, k
  <2>9. shift = 0 => k + c = chunk
    BY <1>1, <2>8
  <2> QED
    BY <2>2, <2>7, <2>9 DEF c, k, P, Q
<1> QED
  BY <1>4, <1>5

(* What a step of the reader does.                                          *)
LEMMA ReadCases ==
  ASSUME NumberInv, ReadByte
  PROVE  /\ reader = "reading" /\ UNCHANGED <<host, run, tag, count>>
         /\ \/ Fail /\ (unread = <<>> \/ ~ FitsWord(Head(unread) % Radix))
            \/ /\ unread # <<>> /\ Head(unread) \in Byte
               /\ Head(unread) % Radix \in 0 .. Radix - 1 /\ FitsWord(Head(unread) % Radix)
               /\ unread' = Tail(unread) /\ unread' \in Seq(Byte)
               /\ v' = Known + (Head(unread) % Radix) * Pow2[shift]
               /\ v' \in 0 .. Word - 1 /\ said' = v'
               /\ \/ /\ Head(unread) >= Radix
                     /\ shift' = shift + Group /\ UNCHANGED <<reader, base, acc, out>>
                  \/ /\ ~ (Head(unread) >= Radix)
                     /\ shift' = 0 /\ Take(UnZigZag(v'))
<1>1. reader = "reading" /\ UNCHANGED <<host, run, tag, count>>
  BY DEF ReadByte
<1>2. CASE unread = <<>> \/ ~ FitsWord(Head(unread) % Radix)
  BY <1>1, <1>2 DEF ReadByte
<1>3. CASE unread # <<>> /\ FitsWord(Head(unread) % Radix)
  <2> DEFINE chunk == Head(unread) % Radix
             new == Known + chunk * Pow2[shift]
  <2>1. Head(unread) \in Byte /\ Tail(unread) \in Seq(Byte)
    BY <1>3 DEF NumberInv
  <2>2. chunk \in 0 .. Radix - 1
    <3>1. Radix \in Nat \ {0}
      BY WordSizes
    <3>2. Head(unread) \in Int
      BY <2>1, <3>1 DEF Byte
    <3> QED
      BY <3>1, <3>2, Division
  <2>3. new \in 0 .. Word - 1 /\ (shift = 0 => new = chunk)
    BY <1>3, <2>2, ChunkFits
  <2>4. Wrap(new) = new
    <3> HIDE DEF new
    <3> QED
      BY <2>3, NearWords
  <2>5. said = v /\ (shift # 0 => Known = v)
    BY DEF NumberInv, Known
  <2>6. /\ unread' = Tail(unread)
        /\ v' = IF shift = 0 THEN chunk ELSE Wrap(v + chunk * Pow2[shift])
        /\ said' = IF shift = 0 THEN chunk ELSE said + chunk * Pow2[shift]
    BY <1>3, Zenon DEF ReadByte
  <2>7. v' = new /\ said' = new
    BY <2>3, <2>4, <2>5, <2>6
  <2>8. \/ Head(unread) >= Radix /\ shift' = shift + Group /\ UNCHANGED <<reader, base, acc, out>>
        \/ ~ (Head(unread) >= Radix) /\ shift' = 0 /\ Take(UnZigZag(v'))
    BY <1>3, Zenon DEF ReadByte
  <2> HIDE DEF new
  <2>9. v' \in 0 .. Word - 1 /\ said' = v' /\ v' = Known + chunk * Pow2[shift]
    <3>1. new = Known + chunk * Pow2[shift]
      BY DEF new
    <3> QED
      BY <2>3, <2>7, <3>1
  <2> QED
    BY <1>1, <1>3, <2>1, <2>2, <2>6, <2>8, <2>9
<1> QED
  BY <1>2, <1>3

(* What the encoder writes is bytes.                                        *)
LEMMA WrittenBytes ==
  ASSUME NEW n \in 1 .. MaxRun, NEW r \in [1 .. n -> Values]
  PROVE  /\ r \in Seq(Number) /\ Len(r) = n
         /\ Deltas(r) \in Seq(Number) /\ Len(Deltas(r)) = n
<1>0. MaxRun \in Nat /\ Values \subseteq Number /\ n \in Nat
  BY NumbersAssumption DEF Number
<1>1. r \in Seq(Number) /\ Len(r) = n /\ \A i \in 1 .. n : r[i] \in Number
  BY <1>0
<1>2. Number \subseteq Int
  BY WordSizes DEF Number
<1>3. ASSUME NEW i \in 1 .. n
      PROVE  (IF i = 1 THEN r[1] ELSE Signed(Wrap(r[i] - r[i - 1]))) \in Number
  <2>1. CASE i = 1
    BY <1>1, <2>1
  <2>2. CASE i # 1
    <3>1. i - 1 \in 1 .. n
      BY <1>0, <2>2
    <3>2. r[i] - r[i - 1] \in Int
      <4>1. r[i] \in Int /\ r[i - 1] \in Int
        BY <1>1, <1>2, <3>1, Zenon
      <4> QED
        BY <4>1
    <3>3. Wrap(r[i] - r[i - 1]) \in 0 .. Word - 1
      BY <3>2, WrapIs
    <3>4. Signed(Wrap(r[i] - r[i - 1])) \in Number
      BY <3>3, WrapSigned DEF Number
    <3> QED
      BY <2>2, <3>4
  <2> QED
    BY <2>1, <2>2
<1>4. DOMAIN r = 1 .. n
  OBVIOUS
<1> DEFINE d == [i \in 1 .. n |-> IF i = 1 THEN r[1] ELSE Signed(Wrap(r[i] - r[i - 1]))]
<1>5. Deltas(r) = d
  BY <1>4 DEF Deltas
<1>6. d \in [1 .. n -> Number]
  BY <1>3
<1> HIDE DEF d
<1>7. d \in Seq(Number) /\ Len(d) = n
  BY <1>0, <1>6
<1> QED
  BY <1>1, <1>5, <1>7

(* The reader's arithmetic loses nothing: with no bound on runs, frames or   *)
(* widths, what a number is read as is what its bytes amount to.             *)
LEMMA NumberStep == NumberInv /\ [NumberNext]_numberVars => NumberInv'
<1> SUFFICES ASSUME NumberInv, [NumberNext]_numberVars PROVE NumberInv'
  OBVIOUS
<1>0. Group \in Nat /\ Bits \in Nat
  BY NumbersAssumption
<1>1. ASSUME UNCHANGED <<v, said, shift>>, unread' \in Seq(Byte) PROVE NumberInv'
  BY <1>1 DEF NumberInv, Known
<1>2. CASE UNCHANGED numberVars
  <2>1. UNCHANGED <<v, said, shift>> /\ unread' \in Seq(Byte)
    BY <1>2 DEF numberVars, NumberInv
  <2> QED
    BY <1>1, <2>1
<1>3. ASSUME NEW n \in 0 .. MaxWire, NEW w \in [1 .. n -> 0 .. 2 * Radix - 1], AnyWire(w)
      PROVE  NumberInv'
  <2>1. n \in Nat
    BY NumbersAssumption
  <2>2. w \in [1 .. n -> Byte]
    BY DEF Byte
  <2>3. w \in Seq(Byte)
    BY <2>1, <2>2
  <2> QED
    BY <1>1, <1>3, <2>3 DEF AnyWire
<1>4. ASSUME NEW n \in 1 .. MaxRun, NEW r \in [1 .. n -> Values], WriteRun(r)
      PROVE  NumberInv'
  <2>1. r \in Seq(Number) /\ Deltas(r) \in Seq(Number) /\ Len(r) = n /\ Len(Deltas(r)) = n
    BY WrittenBytes
  <2>2. \A s \in Seq(Number) : Bytes(s) \in Seq(Byte)
    <3> SUFFICES ASSUME NEW s \in Seq(Number) PROVE Bytes(s) \in Seq(Byte)
      OBVIOUS
    <3>1. Len(s) \in 0 .. Len(s)
      OBVIOUS
    <3> QED
      BY <3>1, LastBytes
  <2>3. \A m \in Number : Put(m) \in Seq(Byte)
    BY ZigZagBack, VarintBytes DEF Number, Put
  <2>4. UNCHANGED <<v, said, shift>>
    BY <1>4 DEF WriteRun
  <2>5. PickLongRunTag(r) \in {"longs", "delta", "affine"}
        /\ (PickLongRunTag(r) = "affine" => n >= 4)
    BY <2>1 DEF PickLongRunTag
  <2>6. unread' = CASE PickLongRunTag(r) = "longs" -> Bytes(r)
                    [] PickLongRunTag(r) = "delta"  -> Bytes(Deltas(r))
                    [] PickLongRunTag(r) = "affine" -> Put(r[1]) \o Put(Deltas(r)[2])
    BY <1>4 DEF WriteRun
  <2>7. CASE PickLongRunTag(r) = "affine"
    <3>1. 1 \in 1 .. Len(r) /\ 2 \in 1 .. Len(Deltas(r))
      BY <2>1, <2>5, <2>7
    <3>2. Put(r[1]) \in Seq(Byte) /\ Put(Deltas(r)[2]) \in Seq(Byte)
      BY <2>1, <2>3, <3>1
    <3>3. unread' = Put(r[1]) \o Put(Deltas(r)[2])
      BY <2>6, <2>7
    <3> QED
      BY <1>1, <2>4, <3>2, <3>3
  <2>8. CASE PickLongRunTag(r) # "affine"
    <3>1. unread' = Bytes(r) \/ unread' = Bytes(Deltas(r))
      BY <2>5, <2>6, <2>8
    <3> QED
      BY <1>1, <2>1, <2>2, <2>4, <3>1
  <2> QED
    BY <2>7, <2>8
<1>5. CASE ReadByte
  <2>1. CASE Fail
    <3>1. UNCHANGED <<v, said, shift, unread>>
      BY <2>1 DEF Fail
    <3> QED
      BY <1>1, <3>1 DEF NumberInv
  <2>2. ASSUME ~ Fail PROVE NumberInv'
    <3> DEFINE chunk == Head(unread) % Radix
    <3>1. /\ chunk \in 0 .. Radix - 1 /\ FitsWord(chunk)
          /\ unread' \in Seq(Byte)
          /\ v' = Known + chunk * Pow2[shift]
          /\ v' \in 0 .. Word - 1 /\ said' = v'
          /\ shift' = shift + Group \/ shift' = 0
      BY <1>5, <2>2, ReadCases
    <3>2. v' \in Nat
      BY <3>1, WordSizes
    <3>3. CASE shift' = 0
      <4>1. Known' = 0 /\ Pow2[0] = 1 /\ 0 \in Nat /\ Group * 0 = 0
        BY <1>0, <3>3, PowersDouble DEF Known
      <4> QED
        BY <3>1, <3>2, <3>3, <4>1 DEF NumberInv
    <3>4. CASE shift' = shift + Group
      <4> HIDE DEF chunk
      <4>1. shift + Group < Bits => v' < Pow2[shift + Group]
        BY <3>1, ChunkFits
      <4>2. Known' \in {0, v'}
        BY DEF Known
      <4>3. shift \in Nat /\ Group \in Nat \ {0}
        BY NumbersAssumption DEF NumberInv
      <4>4. Known' = v'
        BY <3>4, <4>3 DEF Known
      <4>5. PICK j \in Nat : shift = Group * j
        BY DEF NumberInv
      <4>6. shift' = Group * (j + 1) /\ j + 1 \in Nat
        BY <3>4, <4>3, <4>5
      <4>7. shift' < Bits => Known' < Pow2[shift']
        BY <3>4, <4>1, <4>4
      <4>8. shift' \in Nat
        BY <3>4, <4>3
      <4> QED
        BY <3>1, <3>2, <4>6, <4>7, <4>8 DEF NumberInv
    <3> QED
      BY <3>1, <3>3, <3>4
  <2> QED
    BY <2>1, <2>2
<1> QED
  BY <1>2, <1>3, <1>4, <1>5 DEF NumberNext

(* NumberInv is inductive.                                                  *)
LEMMA NumberInvHolds == NumberSpec => []NumberInv
<1>1. NumberInit => NumberInv
  <2> SUFFICES ASSUME NumberInit PROVE NumberInv
    OBVIOUS
  <2>1. v = 0 /\ said = 0 /\ shift = 0 /\ unread = <<>> /\ <<>> \in Seq(Byte)
    BY DEF NumberInit
  <2>2. Group * 0 = 0 /\ 0 \in Nat /\ Pow2[0] = 1
    BY NumbersAssumption, PowersDouble
  <2>3. Known = 0
    BY <2>1 DEF Known
  <2> QED
    BY <2>1, <2>2, <2>3 DEF NumberInv
<1> QED
  BY <1>1, NumberStep, PTL DEF NumberSpec

(* What a number is read as is what its bytes amount to, for any widths of  *)
(* words and groups that leave one bit for the last byte, and any bytes,    *)
(* whoever wrote them.  varint_read_u64.                                    *)
THEOREM NumbersReadAsWritten == NumberSpec => []NumbersUnambiguous
<1>1. NumberInv => NumbersUnambiguous
  BY DEF NumberInv, NumbersUnambiguous
<1> QED
  BY <1>1, NumberInvHolds, PTL

-----------------------------------------------------------------------------
(* Reading a run.                                                           *)

(* The numbers on the wire for the run r in the form t.                     *)
NumbersOf(t, r) == CASE t = "longs"  -> r
                     [] t = "delta"  -> Deltas(r)
                     [] t = "affine" -> <<r[1], Deltas(r)[2]>>

(* A run as the encoder writes it.                                          *)
IsWritten(t, r) == r \in Seq(Number) /\ Len(r) >= 1 /\ t = PickLongRunTag(r)

(* The reader knows the s low bits of the last but n of the numbers; the    *)
(* bits above them are next on the wire, and the numbers after it.          *)
InNumber(numbers, known, s, bytes, n) ==
  /\ n \in 0 .. Len(numbers) - 1 /\ s < Bits
  /\ \E w \in 0 .. Word - 1 :
       /\ ZigZag(numbers[Len(numbers) - n]) = known + w * Pow2[s]
       /\ s > 0 => w >= 1
       /\ bytes = VarintPut[w] \o Last(numbers)[n]

(* k of the numbers are dealt with.                                         *)
Stored(r, cells, k) == cells \in Seq(Number) /\ Len(cells) = k /\ \A i \in 1 .. k : cells[i] = r[i]

Taken(t, r, cells, first, sum, k) ==
  /\ k \in Nat
  /\ t = "longs" => Stored(r, cells, k)
  /\ t = "delta" => Stored(r, cells, k) /\ sum = IF k = 0 THEN 0 ELSE Wrap(r[k])
  /\ t = "affine" => k <= 1 /\ cells = <<>> /\ first = IF k = 0 THEN <<>> ELSE <<r[1]>>

Numbers == NumbersOf(tag, run)

RunInv ==
  /\ tag \in {"longs", "delta", "affine"}
  /\ reader = "start" => run = NoRun /\ shift = 0 /\ base = <<>> /\ acc = 0 /\ out = <<>>
  /\ run # NoRun =>
       /\ IsWritten(tag, run) /\ count = Len(run)
       /\ reader = "reading" =>
            \E n \in Nat : /\ InNumber(Numbers, Known, shift, unread, n)
                           /\ Taken(tag, run, out, base, acc, Len(Numbers) - 1 - n)
  /\ RunsReadBack

(* What the numbers are.                                                    *)
LEMMA NumbersAre ==
  ASSUME NEW t, NEW r, IsWritten(t, r)
  PROVE  /\ t \in {"longs", "delta", "affine"}
         /\ Deltas(r) \in Seq(Number) /\ Len(Deltas(r)) = Len(r) /\ Deltas(r)[1] = r[1]
         /\ \A i \in 2 .. Len(r) : Deltas(r)[i] = Signed(Wrap(r[i] - r[i - 1]))
         /\ NumbersOf(t, r) \in Seq(Number) /\ Len(NumbersOf(t, r)) \in Nat \ {0}
         /\ t = "affine" => /\ Len(r) >= 4 /\ Len(NumbersOf(t, r)) = 2
                            /\ \A i \in 2 .. Len(r) : Deltas(r)[i] = Deltas(r)[2]
<1>0. /\ r \in Seq(Number) /\ Len(r) \in Nat /\ Len(r) >= 1 /\ DOMAIN r = 1 .. Len(r)
      /\ \A i \in 1 .. Len(r) : r[i] \in Number
  BY DEF IsWritten
<1>1. Number \subseteq Int
  BY WordSizes DEF Number
<1>2. ASSUME NEW i \in 1 .. Len(r)
      PROVE  (IF i = 1 THEN r[1] ELSE Signed(Wrap(r[i] - r[i - 1]))) \in Number
  <2>1. CASE i = 1
    BY <1>0, <2>1
  <2>2. CASE i # 1
    <3>1. i - 1 \in 1 .. Len(r)
      BY <1>0, <2>2
    <3>2. r[i] - r[i - 1] \in Int
      <4>1. r[i] \in Int /\ r[i - 1] \in Int
        BY <1>0, <1>1, <3>1, Zenon
      <4> QED
        BY <4>1
    <3>3. Wrap(r[i] - r[i - 1]) \in 0 .. Word - 1
      BY <3>2, WrapIs
    <3>4. Signed(Wrap(r[i] - r[i - 1])) \in Number
      BY <3>3, WrapSigned DEF Number
    <3> QED
      BY <2>2, <3>4
  <2> QED
    BY <2>1, <2>2
<1> DEFINE d == [i \in 1 .. Len(r) |-> IF i = 1 THEN r[1] ELSE Signed(Wrap(r[i] - r[i - 1]))]
<1>3. Deltas(r) = d
  BY <1>0 DEF Deltas
<1>4. d \in [1 .. Len(r) -> Number]
  BY <1>2
<1>5. /\ d[1] = r[1]
      /\ \A i \in 2 .. Len(r) : d[i] = Signed(Wrap(r[i] - r[i - 1]))
  BY <1>0
<1> HIDE DEF d
<1>6. d \in Seq(Number) /\ Len(d) = Len(r)
  BY <1>0, <1>4
<1>7. t \in {"longs", "delta", "affine"}
  BY DEF IsWritten, PickLongRunTag
<1>8. ASSUME t = "affine"
      PROVE  Len(r) >= 4 /\ \A i \in 3 .. Len(r) : Deltas(r)[i] = Deltas(r)[2]
  BY <1>0, <1>8 DEF IsWritten, PickLongRunTag
<1>9. ASSUME t = "affine"
      PROVE  /\ NumbersOf(t, r) \in Seq(Number) /\ Len(NumbersOf(t, r)) = 2
             /\ \A i \in 2 .. Len(r) : Deltas(r)[i] = Deltas(r)[2]
  <2>1. 1 \in 1 .. Len(r) /\ 2 \in 1 .. Len(r)
    BY <1>0, <1>8, <1>9
  <2>2. r[1] \in Number /\ d[2] \in Number
    BY <1>0, <1>4, <2>1
  <2>3. NumbersOf(t, r) = <<r[1], d[2]>>
    BY <1>3, <1>9 DEF NumbersOf
  <2>4. ASSUME NEW i \in 2 .. Len(r) PROVE Deltas(r)[i] = Deltas(r)[2]
    <3>1. i = 2 \/ i \in 3 .. Len(r)
      BY <1>0
    <3> QED
      BY <1>8, <1>9, <3>1
  <2>5. \A x, y \in Number : <<x, y>> \in Seq(Number) /\ Len(<<x, y>>) = 2
    OBVIOUS
  <2> QED
    BY <2>2, <2>3, <2>4, <2>5
<1>10. ASSUME t # "affine"
       PROVE  NumbersOf(t, r) \in Seq(Number) /\ Len(NumbersOf(t, r)) = Len(r)
  BY <1>0, <1>3, <1>6, <1>7, <1>10 DEF NumbersOf
<1>11. /\ NumbersOf(t, r) \in Seq(Number)
       /\ Len(NumbersOf(t, r)) = 2 \/ Len(NumbersOf(t, r)) = Len(r)
  BY <1>9, <1>10
<1>12. Len(NumbersOf(t, r)) \in Nat \ {0}
  <2>1. Len(r) \in Nat \ {0} /\ 2 \in Nat \ {0}
    BY <1>0
  <2> HIDE DEF d
  <2> QED
    BY <1>11, <2>1, Zenon
<1>13. /\ Deltas(r) \in Seq(Number) /\ Len(Deltas(r)) = Len(r) /\ Deltas(r)[1] = r[1]
       /\ \A i \in 2 .. Len(r) : Deltas(r)[i] = Signed(Wrap(r[i] - r[i - 1]))
  BY <1>3, <1>5, <1>6
<1> QED
  BY <1>7, <1>8, <1>9, <1>11, <1>12, <1>13

(* Between two numbers the reader is at the first byte of the next.         *)
LEMMA NextNumber ==
  ASSUME NEW numbers \in Seq(Number), NEW n \in 1 .. Len(numbers)
  PROVE  InNumber(numbers, 0, 0, Last(numbers)[n], n - 1)
<1> DEFINE i == Len(numbers) - (n - 1)
           w == ZigZag(numbers[i])
<1>0. Len(numbers) \in Nat /\ n - 1 \in 0 .. Len(numbers) - 1 /\ i \in 1 .. Len(numbers)
      /\ Len(numbers) + 1 - n = i
  OBVIOUS
<1>1. numbers[i] \in Number
  BY <1>0
<1>2. w \in 0 .. Word - 1
  BY <1>1, ZigZagBack DEF Number
<1>3. Last(numbers)[n] = Put(numbers[i]) \o Last(numbers)[n - 1]
  BY <1>0, LastBytes
<1>4. Last(numbers)[n] = VarintPut[w] \o Last(numbers)[n - 1]
  BY <1>3 DEF Put
<1>5. Pow2[0] = 1 /\ Word \in Nat /\ 0 < Bits /\ Bits \in Nat
  BY PowersDouble, WordSizes, NumbersAssumption
<1> HIDE DEF w
<1>6. w = 0 + w * Pow2[0]
  BY <1>2, <1>5
<1>7. ZigZag(numbers[i]) = 0 + w * Pow2[0]
  BY <1>6 DEF w
<1> DEFINE c == n - 1
<1>8. c \in 0 .. Len(numbers) - 1 /\ ZigZag(numbers[Len(numbers) - c]) = 0 + w * Pow2[0]
      /\ Last(numbers)[n] = VarintPut[w] \o Last(numbers)[c] /\ ~ (0 > 0)
  BY <1>0, <1>4, <1>7
<1> HIDE DEF c, i
<1>9. InNumber(numbers, 0, 0, Last(numbers)[n], c)
  BY <1>2, <1>5, <1>8 DEF InNumber
<1> QED
  BY <1>9 DEF c

(* A number that has more bits than a byte holds leaves room for another    *)
(* byte.                                                                    *)
LEMMA RoomForMore ==
  ASSUME NEW s \in Nat, s < Bits, NEW w \in Nat, w * Pow2[s] < Word
  PROVE  /\ s = Bits - 1 => w <= 1
         /\ w >= Radix => s + Group < Bits
<1>0. Bits \in Nat /\ Group \in Nat /\ 1 <= Group /\ Group <= Bits - 1
  BY NumbersAssumption
<1>1. Half \in Nat \ {0} /\ Word = 2 * Half /\ Radix \in Nat
  BY WordSizes
<1>2. s = Bits - 1 => w <= 1
  <2> SUFFICES ASSUME s = Bits - 1, w >= 2 PROVE FALSE
    BY <1>0
  <2>1. Pow2[s] = Half
    BY DEF Half
  <2>2. 2 * Half <= w * Half /\ w * Half \in Nat
    BY <1>1
  <2> QED
    BY <1>1, <2>1, <2>2
<1>3. w >= Radix => s + Group < Bits
  <2> SUFFICES ASSUME w >= Radix, s + Group >= Bits PROVE FALSE
    BY <1>0
  <2> DEFINE b == Bits - s
  <2>1. b \in 1 .. Group /\ s + b = Bits /\ b \in 0 .. Bits /\ s \in 0 .. Bits
    BY <1>0
  <2>2. Word = Pow2[s] * Pow2[b]
    BY <2>1, PowersAdd DEF Word
  <2>3. Pow2[s] \in Nat /\ Pow2[b] \in Nat
    BY <2>1, PowersPositive
  <2>4. Pow2[b] <= Radix
    <3>1. CASE b = Group
      BY <1>1, <3>1 DEF Radix
    <3>2. CASE b # Group
      <4>1. b \in Nat /\ b < Group /\ Group <= Bits
        BY <1>0, <2>1, <3>2
      <4>2. 2 * Pow2[b] <= Radix
        BY <1>0, <4>1, PowersGrow DEF Radix
      <4> QED
        BY <1>1, <2>3, <4>2
    <3> QED
      BY <3>1, <3>2
  <2> DEFINE P == Pow2[s]
             B == Pow2[b]
  <2>5. P \in Nat /\ B \in Nat /\ B <= w /\ Word = P * B /\ w * P < Word /\ Word \in Nat
    BY <1>1, <2>2, <2>3, <2>4
  <2> HIDE DEF P, B
  <2>6. P * B <= P * w /\ P * w = w * P
    BY <2>5
  <2> QED
    BY <2>5, <2>6
<1> QED
  BY <1>2, <1>3

(* The reader takes a byte of a number that the encoder wrote: it fits, and *)
(* either the reader is still in that number, or it has it.                 *)
LEMMA ByteOfNumber ==
  ASSUME NumberInv, ReadByte, NEW numbers \in Seq(Number), NEW n \in Nat,
         InNumber(numbers, Known, shift, unread, n)
  PROVE  \/ /\ InNumber(numbers, Known', shift', unread', n)
            /\ UNCHANGED <<reader, base, acc, out>>
         \/ /\ Known' = 0 /\ shift' = 0 /\ unread' = Last(numbers)[n]
            /\ Take(numbers[Len(numbers) - n])
<1> DEFINE m == numbers[Len(numbers) - n]
           z == ZigZag(m)
           P == Pow2[shift]
<1>0. /\ n \in 0 .. Len(numbers) - 1 /\ shift < Bits /\ Len(numbers) \in Nat
      /\ shift \in Nat /\ Bits \in Nat /\ Group \in Nat \ {0}
      /\ Known \in Nat /\ Radix \in Nat /\ Radix >= 2 /\ Word \in Nat /\ P \in Nat
  <2>1. shift \in Nat /\ Bits \in Nat /\ shift < Bits
    BY NumbersAssumption DEF InNumber, NumberInv
  <2>2. P \in Nat
    BY <2>1, PowersPositive
  <2> QED
    BY <2>1, <2>2, NumbersAssumption, WordSizes DEF InNumber, NumberInv, Known
<1>1. PICK w \in 0 .. Word - 1 :
        /\ z = Known + w * P
        /\ shift > 0 => w >= 1
        /\ unread = VarintPut[w] \o Last(numbers)[n]
  BY DEF InNumber
<1>2. m \in Number /\ Last(numbers)[n] \in Seq(Byte)
  <2>1. Len(numbers) - n \in 1 .. Len(numbers) /\ n \in 0 .. Len(numbers)
    BY <1>0
  <2>2. numbers[Len(numbers) - n] \in Number
    BY <2>1
  <2>3. Last(numbers)[n] \in Seq(Byte)
    BY <2>1, LastBytes
  <2> QED
    BY <2>2, <2>3
<1>3. z \in 0 .. Word - 1 /\ UnZigZag(z) = m
  BY <1>2, ZigZagBack DEF Number
<1>4. /\ unread # <<>>
      /\ w < Radix => Head(unread) = w /\ Tail(unread) = Last(numbers)[n]
      /\ w >= Radix => /\ Head(unread) = Radix + (w % Radix)
                       /\ Tail(unread) = VarintPut[w \div Radix] \o Last(numbers)[n]
  BY <1>1, <1>2, FirstByte
<1>5. w \in Nat /\ w * P \in Nat /\ w * P < Word
  <2> HIDE DEF P, z
  <2> QED
    BY <1>0, <1>1, <1>3
<1>6. /\ shift = Bits - 1 => w <= 1
      /\ w >= Radix => shift + Group < Bits
  BY <1>0, <1>5, RoomForMore
<1>7. CASE w < Radix
  <2>1. Head(unread) = w /\ Tail(unread) = Last(numbers)[n] /\ w % Radix = w
        /\ ~ (w >= Radix)
    <3> DEFINE R == Radix
    <3>1. R \in Nat \ {0} /\ w \in 0 .. R - 1
      BY <1>0, <1>5, <1>7
    <3> HIDE DEF R
    <3>2. w % R = w
      BY <3>1, Z3
    <3>3. ~ (w >= Radix)
      BY <1>0, <1>5, <1>7
    <3> QED
      BY <1>4, <1>7, <3>2, <3>3 DEF R
  <2>2. FitsWord(w)
    BY <1>0, <1>6 DEF FitsWord
  <2>3. unread' = Tail(unread) /\ v' = Known + w * P /\ shift' = 0 /\ Take(UnZigZag(v'))
    BY <1>4, <2>1, <2>2, ReadCases
  <2>4. v' = z
    BY <1>1, <2>3
  <2> QED
    BY <1>3, <2>1, <2>3, <2>4 DEF Known
<1>8. CASE w >= Radix
  <2> DEFINE c == w % Radix
             q == w \div Radix
  <2>1. q \in 1 .. w - 1 /\ c \in 0 .. Radix - 1 /\ w = Radix * q + c
    BY <1>5, <1>8, QuotientIsLess
  <2>2. Head(unread) = Radix + c /\ Tail(unread) = VarintPut[q] \o Last(numbers)[n]
    BY <1>4, <1>8
  <2> HIDE DEF c, q
  <2>3. (Radix + c) % Radix = c /\ Radix + c >= Radix
    <3>1. Radix + c = Radix * 1 + c /\ Radix + c \in Int /\ 1 \in Int /\ Radix \in Nat \ {0}
      BY <1>0, <2>1
    <3> DEFINE x == Radix + c
    <3>2. x = Radix * (x \div Radix) + (x % Radix) /\ x \div Radix \in Int /\ x % Radix \in 0 .. Radix - 1
      BY <3>1, Division
    <3> HIDE DEF x
    <3>3. Radix * 1 + c = Radix * (x \div Radix) + (x % Radix)
      BY <3>1, <3>2 DEF x
    <3> DEFINE R == Radix
               p == x \div Radix
               y == x % Radix
    <3>4. /\ R * 1 + c = R * p + y /\ R \in Nat \ {0} /\ 1 \in Int /\ p \in Int
          /\ c \in 0 .. R - 1 /\ y \in 0 .. R - 1
      BY <2>1, <3>1, <3>2, <3>3
    <3> HIDE DEF R, p, y
    <3>5. c = y
      BY <3>4, OneRemainder
    <3>6. c = x % Radix
      BY <3>5 DEF y
    <3> QED
      BY <1>0, <2>1, <3>6 DEF x
  <2>4. FitsWord(c)
    <3>1. shift # Bits - 1
      BY <1>0, <1>6, <1>8
    <3> QED
      BY <1>0, <3>1 DEF FitsWord
  <2>5. /\ unread' = Tail(unread) /\ v' = Known + c * P
        /\ shift' = shift + Group /\ UNCHANGED <<reader, base, acc, out>>
    BY <1>4, <2>2, <2>3, <2>4, ReadCases
  <2>6. shift + Group < Bits /\ shift + Group <= Bits /\ shift' # 0 /\ shift' < Bits
    BY <1>0, <1>6, <1>8, <2>5
  <2>7. Known' = Known + c * P
    BY <2>5, <2>6 DEF Known
  <2>8. Pow2[shift'] = P * Radix
    BY <1>0, <2>5, <2>6, PowersAdd DEF Radix
  <2>9. z = Known' + q * Pow2[shift']
    <3> HIDE DEF P, z
    <3> DEFINE R == Radix
               k == Known
    <3>1. R \in Nat /\ q \in Nat /\ c \in Nat /\ P \in Nat /\ k \in Nat
      BY <1>0, <2>1
    <3>2. z = k + (R * q + c) * P /\ Known' = k + c * P /\ Pow2[shift'] = P * R
      BY <1>1, <2>1, <2>7, <2>8
    <3> HIDE DEF R, k
    <3>3. (R * q + c) * P = c * P + q * (P * R) /\ c * P \in Nat /\ q * (P * R) \in Nat
      BY <3>1, Z3
    <3> QED
      BY <3>1, <3>2, <3>3
  <2>10. q \in 0 .. Word - 1 /\ q >= 1
    BY <1>0, <2>1
  <2>11. InNumber(numbers, Known', shift', unread', n)
    BY <1>0, <2>2, <2>5, <2>6, <2>9, <2>10 DEF InNumber
  <2> QED
    BY <2>5, <2>11
<1>9. w < Radix \/ w >= Radix
  BY <1>0, <1>5
<1> QED
  BY <1>7, <1>8, <1>9

-----------------------------------------------------------------------------
(* Storing cells.                                                           *)

(* f is the sums of AffineCells, up to the n-th.                            *)
IsSums(from, step, n, f) ==
  f = [i \in 1 .. n |-> IF i = 1 THEN Wrap(from) ELSE Add(f[i - 1], step)]

(* They exist.                                                              *)
LEMMA SumsExist ==
  ASSUME NEW from, NEW step
  PROVE  \A n \in Nat : \E f : IsSums(from, step, n, f)
<1> DEFINE Step(f, i) == IF i = 1 THEN Wrap(from) ELSE Add(f[i - 1], step)
           T == {n \in Nat : \E f : f = [i \in 1 .. n |-> Step(f, i)]}
<1>1. 0 \in T
  <2>1. [i \in 1 .. 0 |-> 0] = [i \in 1 .. 0 |-> Step([j \in 1 .. 0 |-> 0], i)]
    OBVIOUS
  <2> HIDE DEF Step
  <2> QED
    BY <2>1
<1>2. ASSUME NEW n \in T PROVE n + 1 \in T
  <2>1. PICK f : f = [i \in 1 .. n |-> Step(f, i)]
    OBVIOUS
  <2> DEFINE g == [i \in 1 .. n + 1 |-> IF i = n + 1 THEN Step(f, i) ELSE f[i]]
  <2>2. \A i \in 1 .. n : f[i] = Step(f, i)
    <3> HIDE DEF Step
    <3> QED
      BY <2>1
  <2>3. \A i \in 1 .. n + 1 : g[i] = Step(g, i)
    BY <2>2
  <2>4. g = [i \in 1 .. n + 1 |-> Step(g, i)]
    <3> HIDE DEF Step
    <3> QED
      BY <2>3
  <2>5. n + 1 \in Nat
    OBVIOUS
  <2> HIDE DEF Step, g
  <2> QED
    BY <2>4, <2>5
<1>3. T \in SUBSET Nat
  OBVIOUS
<1> HIDE DEF T
<1>4. \A n \in Nat : n \in T
  BY <1>1, <1>2, <1>3, NumberInduction
<1> QED
  BY <1>4 DEF T, IsSums

(* A run whose differences are equal is its first value and its step.       *)
LEMMA AffineCellsAre ==
  ASSUME NEW r \in Seq(Number), count = Len(r), Len(r) >= 2, NEW step,
         \A i \in 2 .. Len(r) : step = Signed(Wrap(r[i] - r[i - 1]))
  PROVE  AffineCells(r[1], step) = r
<1> DEFINE F(f) == f = [i \in 1 .. count |-> IF i = 1 THEN Wrap(r[1]) ELSE Add(f[i - 1], step)]
           sum == CHOOSE f : F(f)
           T == {n \in Nat : n + 1 <= count => sum[n + 1] = Wrap(r[n + 1])}
<1>0. count \in Nat /\ count >= 2 /\ \A i \in 1 .. count : r[i] \in Number
  OBVIOUS
<1>1. F(sum)
  <2>1. \E f : IsSums(r[1], step, count, f)
    BY <1>0, SumsExist
  <2>2. \E f : F(f)
    BY <2>1 DEF IsSums
  <2> HIDE DEF F
  <2> QED
    BY <2>2
<1>2. AffineCells(r[1], step) = [i \in 1 .. count |-> Signed(sum[i])]
  BY DEF AffineCells
<1>3. \A i \in 1 .. count : sum[i] = IF i = 1 THEN Wrap(r[1]) ELSE Add(sum[i - 1], step)
  <2> HIDE DEF sum
  <2> QED
    BY <1>1
<1> HIDE DEF F, sum
<1>4. Number \subseteq Int
  BY WordSizes DEF Number
<1>5. 0 \in T
  <2>1. 1 \in 1 .. count
    BY <1>0
  <2>2. sum[1] = Wrap(r[1])
    BY <1>3, <2>1
  <2> QED
    BY <2>2
<1>6. ASSUME NEW n \in T PROVE n + 1 \in T
  <2> SUFFICES ASSUME (n + 1) + 1 <= count
               PROVE  sum[(n + 1) + 1] = Wrap(r[(n + 1) + 1])
    OBVIOUS
  <2> DEFINE i == (n + 1) + 1
  <2>1. n \in Nat /\ i \in 2 .. Len(r) /\ i \in 1 .. count /\ i # 1 /\ i - 1 = n + 1
        /\ n + 1 \in 1 .. count
    BY <1>0
  <2>2. sum[n + 1] = Wrap(r[n + 1])
    BY <2>1
  <2> HIDE DEF i
  <2>3. sum[i] = Add(sum[i - 1], step)
    BY <1>3, <2>1
  <2>4. step = Signed(Wrap(r[i] - r[i - 1]))
    BY <2>1
  <2>5. r[i] \in Int /\ r[n + 1] \in Int
    BY <1>0, <1>4, <2>1, Zenon
  <2>6. Add(Wrap(r[n + 1]), Signed(Wrap(r[i] - r[n + 1]))) = Wrap(r[i])
    BY <2>5, AddDifference
  <2> QED
    BY <2>1, <2>2, <2>3, <2>4, <2>6 DEF i
<1>7. T \in SUBSET Nat
  OBVIOUS
<1>8. \A n \in Nat : n \in T
  <2> HIDE DEF T
  <2> QED
    BY <1>5, <1>6, <1>7, NumberInduction
<1>9. ASSUME NEW i \in 1 .. count PROVE Signed(sum[i]) = r[i]
  <2>1. i - 1 \in Nat /\ (i - 1) + 1 = i /\ i <= count
    BY <1>0
  <2> DEFINE n == i - 1
  <2>2. n \in T /\ n + 1 = i
    BY <1>8, <2>1
  <2> HIDE DEF n
  <2>3. sum[i] = Wrap(r[i])
    BY <2>1, <2>2
  <2>4. r[i] \in Number
    BY <1>0
  <2> QED
    BY <2>3, <2>4, SignedWrap DEF Number
<1>10. r = [i \in 1 .. count |-> r[i]]
  BY <1>0
<1> QED
  BY <1>2, <1>9, <1>10

(* One more cell of the run is stored, unless the host cannot hold it.      *)
LEMMA StoreNext ==
  ASSUME run \in Seq(Number), count = Len(run), NEW k \in Nat, k + 1 \in 1 .. Len(run),
         Stored(run, out, k), reader = "reading", Store(<<run[k + 1]>>)
  PROVE  \/ reader' = "failed" /\ \E i \in DOMAIN run : ~ FitsHost(run[i])
         \/ reader' = "done" /\ k + 1 = Len(run) /\ out' = run
         \/ reader' = "reading" /\ k + 1 # Len(run) /\ Stored(run, out', k + 1)
<1> DEFINE cell == run[k + 1]
<1>0. /\ Len(run) \in Nat /\ DOMAIN run = 1 .. Len(run) /\ cell \in Number
      /\ out \in Seq(Number) /\ Len(out) = k /\ \A i \in 1 .. k : out[i] = run[i]
  BY DEF Stored
<1>1. DOMAIN <<cell>> = {1} /\ <<cell>>[1] = cell /\ <<cell>> \in Seq(Number) /\ Len(<<cell>>) = 1
  BY <1>0
<1>2. CASE ~ FitsHost(cell)
  <2>1. reader' = "failed"
    BY <1>1, <1>2 DEF Store
  <2> QED
    BY <1>0, <1>2, <2>1
<1>3. CASE FitsHost(cell)
  <2>1. /\ out' = out \o <<cell>>
        /\ reader' = IF Len(out') = count THEN "done" ELSE reader
    BY <1>1, <1>3 DEF Store
  <2> HIDE DEF cell
  <2>2. /\ out' \in Seq(Number) /\ Len(out') = k + 1
        /\ \A i \in 1 .. k : out'[i] = out[i]
        /\ out'[k + 1] = cell
    BY <1>0, <2>1
  <2>3. \A i \in 1 .. k + 1 : out'[i] = run[i]
    <3> SUFFICES ASSUME NEW i \in 1 .. k + 1 PROVE out'[i] = run[i]
      OBVIOUS
    <3>1. i \in 1 .. k \/ i = k + 1
      OBVIOUS
    <3> QED
      BY <1>0, <2>2, <3>1 DEF cell
  <2>4. Stored(run, out', k + 1)
    BY <2>2, <2>3 DEF Stored
  <2>5. CASE k + 1 = Len(run)
    <3>1. out' = run
      BY <2>2, <2>3, <2>5
    <3> QED
      BY <2>1, <2>2, <2>5, <3>1
  <2>6. CASE k + 1 # Len(run)
    BY <2>1, <2>2, <2>4, <2>6
  <2> QED
    BY <2>5, <2>6
<1> QED
  BY <1>2, <1>3

(* The reader has a number of the run, all but n of them with it, and does   *)
(* what is to be done with it.                                               *)
LEMMA TakeNumber ==
  ASSUME IsWritten(tag, run), count = Len(run), reader = "reading",
         NEW n \in 0 .. Len(Numbers) - 1,
         Taken(tag, run, out, base, acc, Len(Numbers) - 1 - n),
         Take(Numbers[Len(Numbers) - n])
  PROVE  \/ reader' = "failed" /\ \E i \in DOMAIN run : ~ FitsHost(run[i])
         \/ reader' = "done" /\ n = 0 /\ out' = run
         \/ reader' = "reading" /\ n # 0 /\ Taken(tag, run, out', base', acc', Len(Numbers) - n)
<1> DEFINE k == Len(Numbers) - 1 - n
<1>0. /\ run \in Seq(Number) /\ Len(run) \in Nat /\ Len(run) >= 1
      /\ \A i \in 1 .. Len(run) : run[i] \in Number
      /\ Number \subseteq Int
  BY WordSizes DEF IsWritten, Number
<1>1. Len(Numbers) \in Nat \ {0}
  BY NumbersAre DEF Numbers
<1>2. k \in Nat /\ k + 1 = Len(Numbers) - n /\ k + 1 \in 1 .. Len(Numbers)
      /\ (n = 0 <=> k + 1 = Len(Numbers))
  BY <1>1
<1>3. Taken(tag, run, out, base, acc, k) /\ Take(Numbers[k + 1])
  BY <1>2
<1> HIDE DEF k
<1>a. SUFFICES \/ reader' = "failed" /\ \E i \in DOMAIN run : ~ FitsHost(run[i])
               \/ reader' = "done" /\ k + 1 = Len(Numbers) /\ out' = run
               \/ /\ reader' = "reading" /\ k + 1 # Len(Numbers)
                  /\ Taken(tag, run, out', base', acc', k + 1)
  BY <1>2
<1>4. CASE tag = "longs"
  <2>1. Numbers = run
    BY <1>4 DEF Numbers, NumbersOf
  <2>2. Store(<<run[k + 1]>>)
    BY <1>3, <1>4, <2>1 DEF Take
  <2>3. Stored(run, out, k)
    BY <1>3, <1>4 DEF Taken
  <2>4. \/ reader' = "failed" /\ \E i \in DOMAIN run : ~ FitsHost(run[i])
        \/ reader' = "done" /\ k + 1 = Len(run) /\ out' = run
        \/ reader' = "reading" /\ k + 1 # Len(run) /\ Stored(run, out', k + 1)
    BY <1>0, <1>2, <2>1, <2>2, <2>3, StoreNext
  <2>5. Stored(run, out', k + 1) => Taken(tag, run, out', base', acc', k + 1)
    BY <1>2, <1>4 DEF Taken
  <2> QED
    BY <2>1, <2>4, <2>5
<1>5. CASE tag = "delta"
  <2>1. Numbers = Deltas(run)
    BY <1>5 DEF Numbers, NumbersOf
  <2>2. Len(Deltas(run)) = Len(run) /\ Deltas(run)[1] = run[1]
        /\ \A i \in 2 .. Len(run) : Deltas(run)[i] = Signed(Wrap(run[i] - run[i - 1]))
    BY NumbersAre
  <2>3. k + 1 \in 1 .. Len(run)
    BY <1>2, <2>1, <2>2
  <2>4. acc' = Add(acc, Deltas(run)[k + 1]) /\ Store(<<Signed(acc')>>)
    BY <1>3, <1>5, <2>1 DEF Take
  <2>5. Stored(run, out, k) /\ acc = IF k = 0 THEN 0 ELSE Wrap(run[k])
    BY <1>3, <1>5 DEF Taken
  <2>6. run[k + 1] \in Number /\ run[k + 1] \in Int
    BY <1>0, <2>3, Zenon
  <2>7. acc' = Wrap(run[k + 1])
    <3>1. CASE k = 0
      <4>1. acc' = Add(0, run[1]) /\ run[1] \in Int
        BY <2>2, <2>4, <2>5, <2>6, <3>1
      <4>2. 0 + run[1] = run[1]
        BY <4>1
      <4> QED
        BY <3>1, <4>1, <4>2 DEF Add
    <3>2. CASE k # 0
      <4>1. k + 1 \in 2 .. Len(run) /\ (k + 1) - 1 = k /\ k \in 1 .. Len(run)
        BY <1>0, <1>2, <2>3, <3>2
      <4>2. Deltas(run)[k + 1] = Signed(Wrap(run[k + 1] - run[k]))
        BY <2>2, <4>1
      <4>3. run[k] \in Int
        BY <1>0, <4>1, Zenon
      <4>4. Add(Wrap(run[k]), Signed(Wrap(run[k + 1] - run[k]))) = Wrap(run[k + 1])
        BY <2>6, <4>3, AddDifference
      <4> QED
        BY <2>4, <2>5, <3>2, <4>2, <4>4
    <3> QED
      BY <3>1, <3>2
  <2>8. Signed(acc') = run[k + 1]
    BY <2>6, <2>7, SignedWrap DEF Number
  <2>9. \/ reader' = "failed" /\ \E i \in DOMAIN run : ~ FitsHost(run[i])
        \/ reader' = "done" /\ k + 1 = Len(run) /\ out' = run
        \/ reader' = "reading" /\ k + 1 # Len(run) /\ Stored(run, out', k + 1)
    BY <1>0, <1>2, <2>3, <2>4, <2>5, <2>8, StoreNext
  <2>10. Stored(run, out', k + 1) => Taken(tag, run, out', base', acc', k + 1)
    <3>1. k + 1 \in Nat /\ k + 1 # 0
      BY <1>2
    <3> QED
      BY <1>5, <2>7, <3>1 DEF Taken
  <2> QED
    BY <2>1, <2>2, <2>9, <2>10
<1>6. CASE tag = "affine"
  <2>1. Numbers = <<run[1], Deltas(run)[2]>>
    BY <1>6 DEF Numbers, NumbersOf
  <2>2. /\ Len(run) >= 4 /\ Len(Numbers) = 2
        /\ \A i \in 2 .. Len(run) : Deltas(run)[i] = Deltas(run)[2]
        /\ \A i \in 2 .. Len(run) : Deltas(run)[i] = Signed(Wrap(run[i] - run[i - 1]))
    BY <1>6, NumbersAre DEF Numbers
  <2>3. k = 0 \/ k = 1
    BY <1>2, <2>2
  <2>4. out = <<>> /\ base = IF k = 0 THEN <<>> ELSE <<run[1]>>
    BY <1>3, <1>6 DEF Taken
  <2>5. CASE k = 0
    <3>1. Numbers[k + 1] = run[1]
      BY <2>1, <2>5
    <3>2. base' = <<run[1]>> /\ UNCHANGED <<reader, acc, out>>
      BY <1>3, <1>6, <2>4, <2>5, <3>1 DEF Take
    <3>3. k + 1 = 1 /\ k + 1 # Len(Numbers)
      BY <2>2, <2>5
    <3>4. Taken(tag, run, out', base', acc', 1)
      BY <1>6, <2>4, <3>2 DEF Taken
    <3> QED
      BY <3>2, <3>3, <3>4
  <2>6. CASE k = 1
    <3> DEFINE step == Deltas(run)[2]
    <3>1. Numbers[k + 1] = step
      BY <2>1, <2>6
    <3>2. base # <<>> /\ base[1] = run[1]
      BY <2>4, <2>6
    <3>3. Store(AffineCells(run[1], step))
      BY <1>3, <1>6, <3>1, <3>2 DEF Take
    <3>4. \A i \in 2 .. Len(run) : step = Signed(Wrap(run[i] - run[i - 1]))
      BY <2>2
    <3> HIDE DEF step
    <3>5. AffineCells(run[1], step) = run
      <4> DEFINE u == run
      <4>1. u \in Seq(Number) /\ count = Len(u) /\ Len(u) >= 2
            /\ \A i \in 2 .. Len(u) : step = Signed(Wrap(u[i] - u[i - 1]))
        BY <1>0, <2>2, <3>4
      <4> HIDE DEF u
      <4>2. AffineCells(u[1], step) = u
        BY <4>1, AffineCellsAre
      <4> QED
        BY <4>2 DEF u
    <3>6. Store(run)
      BY <3>3, <3>5
    <3>7. <<>> \o run = run
      BY <1>0
    <3>8. CASE \E i \in DOMAIN run : ~ FitsHost(run[i])
      BY <3>6, <3>8 DEF Store
    <3>9. CASE ~ \E i \in DOMAIN run : ~ FitsHost(run[i])
      <4>1. out' = run /\ reader' = "done"
        BY <2>4, <3>6, <3>7, <3>9 DEF Store
      <4> QED
        BY <2>2, <2>6, <4>1
    <3> QED
      BY <3>8, <3>9
  <2> QED
    BY <2>3, <2>5, <2>6
<1> QED
  BY <1>4, <1>5, <1>6, NumbersAre

(* The encoder writes a run.                                                *)
LEMMA RunWritten ==
  ASSUME RunInv, NEW n \in 1 .. MaxRun, NEW r \in [1 .. n -> Values], WriteRun(r)
  PROVE  RunInv'
<1> DEFINE t == PickLongRunTag(r)
           numbers == NumbersOf(t, r)
<1>0. n \in Nat /\ n >= 1
  BY NumbersAssumption
<1>1. /\ reader = "start" /\ reader' = "reading" /\ run' = r /\ tag' = t /\ count' = Len(r)
      /\ UNCHANGED <<host, v, shift, said, base, acc, out>>
  BY DEF WriteRun
<1>2. r \in Seq(Number) /\ Len(r) = n
  BY WrittenBytes
<1>3. IsWritten(t, r)
  BY <1>0, <1>2 DEF IsWritten
<1>4. /\ numbers \in Seq(Number) /\ Len(numbers) \in Nat \ {0}
      /\ t \in {"longs", "delta", "affine"}
      /\ t = "affine" => Len(numbers) = 2 /\ Len(r) >= 4
      /\ Deltas(r) \in Seq(Number) /\ Len(Deltas(r)) = Len(r)
  BY <1>3, NumbersAre
<1>5. shift = 0 /\ base = <<>> /\ acc = 0 /\ out = <<>> /\ Known' = 0 /\ shift' = 0
  BY <1>1 DEF RunInv, Known
<1>6. unread' = Last(numbers)[Len(numbers)]
  <2>1. unread' = CASE t = "longs"  -> Bytes(r)
                    [] t = "delta"  -> Bytes(Deltas(r))
                    [] t = "affine" -> Put(r[1]) \o Put(Deltas(r)[2])
    BY <1>1 DEF WriteRun
  <2>2. Bytes(numbers) = Last(numbers)[Len(numbers)]
    BY <1>4, LastBytes
  <2>3. CASE t = "affine"
    <3> DEFINE a == r[1]
               b == Deltas(r)[2]
    <3>1. numbers = <<a, b>>
      BY <2>3 DEF NumbersOf
    <3>2. a \in Number /\ b \in Number
      BY <1>0, <1>2, <1>4, <2>3
    <3> HIDE DEF numbers, a, b
    <3>3. 1 \in 1 .. Len(numbers) /\ 2 \in 1 .. Len(numbers) /\ Len(numbers) = 2
          /\ numbers[1] = a /\ numbers[2] = b
      BY <1>4, <2>3, <3>1
    <3>4. Last(numbers)[2] = Put(numbers[Len(numbers) + 1 - 2]) \o Last(numbers)[2 - 1]
          /\ Last(numbers)[1] = Put(numbers[Len(numbers) + 1 - 1]) \o Last(numbers)[1 - 1]
          /\ Last(numbers)[0] = <<>>
      BY <1>4, <3>3, LastBytes
    <3>5. Last(numbers)[2] = Put(a) \o Last(numbers)[1] /\ Last(numbers)[1] = Put(b) \o <<>>
      <4>1. 2 + 1 - 2 = 1 /\ 2 - 1 = 1 /\ 2 + 1 - 1 = 2 /\ 1 - 1 = 0
        OBVIOUS
      <4> QED
        BY <3>3, <3>4, <4>1
    <3>6. Put(b) \in Seq(Byte)
      BY <3>2, ZigZagBack, VarintBytes DEF Number, Put
    <3>7. Put(b) \o <<>> = Put(b)
      BY <3>6
    <3>8. unread' = Put(a) \o Put(b)
      BY <2>1, <2>3 DEF a, b
    <3> QED
      BY <3>3, <3>5, <3>7, <3>8
  <2>4. CASE t = "longs"
    BY <2>1, <2>2, <2>4 DEF NumbersOf
  <2>5. CASE t = "delta"
    BY <2>1, <2>2, <2>5 DEF NumbersOf
  <2> QED
    BY <1>4, <2>3, <2>4, <2>5
<1>7. Numbers' = numbers
  BY <1>1 DEF Numbers
<1> HIDE DEF numbers
<1> DEFINE m == Len(numbers) - 1
<1>8. m \in Nat /\ Len(numbers) \in 1 .. Len(numbers) /\ Len(numbers) - 1 - m = 0
  BY <1>4
<1>9. InNumber(numbers, 0, 0, Last(numbers)[Len(numbers)], m)
  BY <1>4, <1>8, NextNumber
<1>10. Taken(t, r, out', base', acc', 0)
  <2>1. UNCHANGED <<base, acc, out>> /\ <<>> \in Seq(Number) /\ Len(<<>>) = 0
        /\ \A i \in 1 .. 0 : <<>>[i] = r[i]
    BY <1>1
  <2>2. Stored(r, <<>>, 0)
    BY <2>1 DEF Stored
  <2> QED
    BY <1>5, <2>1, <2>2 DEF Taken
<1> HIDE DEF m
<1>11. \E i \in Nat : /\ InNumber(Numbers', Known', shift', unread', i)
                      /\ Taken(tag', run', out', base', acc', Len(Numbers') - 1 - i)
  BY <1>1, <1>5, <1>6, <1>7, <1>8, <1>9, <1>10
<1>12. RunsReadBack'
  BY <1>1 DEF RunsReadBack
<1> QED
  BY <1>1, <1>3, <1>4, <1>11, <1>12 DEF RunInv

(* The reader takes a byte of a run.                                        *)
LEMMA RunRead ==
  ASSUME NumberInv, RunInv, ReadByte
  PROVE  RunInv'
<1>1. reader = "reading" /\ UNCHANGED <<host, run, tag, count>>
  BY ReadCases
<1>2. reader' # "start" /\ tag' \in {"longs", "delta", "affine"}
  <2>1. tag \in {"longs", "delta", "affine"}
    BY DEF RunInv
  <2>2. Fail => reader' # "start"
    BY DEF Fail
  <2>3. ASSUME NEW cells, Store(cells) PROVE reader' # "start"
    BY <1>1, <2>3 DEF Store
  <2>4. ASSUME NEW n, Take(n) PROVE reader' # "start"
    <3>1. CASE tag = "longs"
      BY <2>3, <2>4, <3>1 DEF Take
    <3>2. CASE tag = "delta"
      BY <2>3, <2>4, <3>2 DEF Take
    <3>3. CASE tag = "affine"
      BY <1>1, <2>3, <2>4, <3>3 DEF Take
    <3> QED
      BY <2>1, <3>1, <3>2, <3>3
  <2>5. UNCHANGED reader => reader' # "start"
    BY <1>1
  <2>6. Fail \/ UNCHANGED reader \/ Take(UnZigZag(v'))
    BY ReadCases
  <2> QED
    BY <1>1, <2>1, <2>2, <2>4, <2>5, <2>6
<1>3. CASE run = NoRun
  BY <1>1, <1>2, <1>3 DEF RunInv, RunsReadBack
<1>4. CASE run # NoRun
  <2>1. IsWritten(tag, run) /\ count = Len(run)
    BY <1>4 DEF RunInv
  <2>2. PICK n \in Nat : /\ InNumber(Numbers, Known, shift, unread, n)
                         /\ Taken(tag, run, out, base, acc, Len(Numbers) - 1 - n)
    BY <1>1, <1>4 DEF RunInv
  <2>3. Numbers \in Seq(Number) /\ Len(Numbers) \in Nat \ {0}
    BY <2>1, NumbersAre DEF Numbers
  <2>4. n \in 0 .. Len(Numbers) - 1
    BY <2>2 DEF InNumber
  <2>5. Numbers' = Numbers
    BY <1>1 DEF Numbers
  <2>6. IsWritten(tag', run') /\ count' = Len(run')
    BY <1>1, <2>1
  <2>7. \A x : FitsHost(x)' <=> FitsHost(x)
    BY <1>1 DEF FitsHost
  <2>8. CASE /\ InNumber(Numbers, Known', shift', unread', n)
             /\ UNCHANGED <<reader, base, acc, out>>
    <3>1. \E i \in Nat : /\ InNumber(Numbers', Known', shift', unread', i)
                         /\ Taken(tag', run', out', base', acc', Len(Numbers') - 1 - i)
      BY <1>1, <2>2, <2>5, <2>8
    <3>2. RunsReadBack'
      BY <1>1, <2>8 DEF RunsReadBack
    <3> QED
      BY <1>2, <2>6, <3>1, <3>2 DEF RunInv
  <2>9. CASE /\ Known' = 0 /\ shift' = 0 /\ unread' = Last(Numbers)[n]
             /\ Take(Numbers[Len(Numbers) - n])
    <3>1. CASE reader' = "failed" /\ \E i \in DOMAIN run : ~ FitsHost(run[i])
      <4>1. RunsReadBack'
        BY <1>1, <2>7, <3>1 DEF RunsReadBack
      <4> QED
        BY <1>2, <2>6, <3>1, <4>1 DEF RunInv
    <3>2. CASE reader' = "done" /\ n = 0 /\ out' = run
      <4>1. unread' = <<>>
        BY <2>3, <2>9, <3>2, LastBytes
      <4>2. RunsReadBack'
        BY <1>1, <3>2, <4>1 DEF RunsReadBack
      <4> QED
        BY <1>2, <2>6, <3>2, <4>2 DEF RunInv
    <3>3. CASE reader' = "reading" /\ n # 0 /\ Taken(tag, run, out', base', acc', Len(Numbers) - n)
      <4> DEFINE m == n - 1
      <4>1. n \in 1 .. Len(Numbers) /\ m \in Nat /\ Len(Numbers) - 1 - m = Len(Numbers) - n
        BY <2>3, <2>4, <3>3
      <4>2. InNumber(Numbers, 0, 0, Last(Numbers)[n], m)
        BY <2>3, <4>1, NextNumber
      <4> HIDE DEF m
      <4>3. \E i \in Nat : /\ InNumber(Numbers', Known', shift', unread', i)
                           /\ Taken(tag', run', out', base', acc', Len(Numbers') - 1 - i)
        BY <1>1, <2>5, <2>9, <3>3, <4>1, <4>2
      <4>4. RunsReadBack'
        BY <3>3 DEF RunsReadBack
      <4> QED
        BY <1>2, <2>6, <3>3, <4>3, <4>4 DEF RunInv
    <3> QED
      BY <1>1, <2>1, <2>2, <2>4, <2>9, <3>1, <3>2, <3>3, TakeNumber
  <2> QED
    BY <2>2, <2>3, <2>8, <2>9, ByteOfNumber
<1> QED
  BY <1>3, <1>4

(* RunInv is inductive, with NumberInv.                                     *)
LEMMA RunInvHolds == NumberSpec => []RunInv
<1>1. NumberInit => RunInv
  BY DEF NumberInit, RunInv, RunsReadBack
<1>2. NumberInv /\ RunInv /\ [NumberNext]_numberVars => RunInv'
  <2> SUFFICES ASSUME NumberInv, RunInv, [NumberNext]_numberVars PROVE RunInv'
    OBVIOUS
  <2>1. ASSUME NEW n \in 1 .. MaxRun, NEW r \in [1 .. n -> Values], WriteRun(r) PROVE RunInv'
    BY <2>1, RunWritten
  <2>2. ASSUME NEW n \in 0 .. MaxWire, NEW w \in [1 .. n -> 0 .. 2 * Radix - 1], AnyWire(w)
        PROVE  RunInv'
    <3>1. reader = "start" /\ reader' = "reading" /\ run' = run /\ tag' = "longs"
      BY <2>2 DEF AnyWire
    <3>2. run' = NoRun
      BY <3>1 DEF RunInv
    <3> QED
      BY <3>1, <3>2 DEF RunInv, RunsReadBack
  <2>3. CASE ReadByte
    BY <2>3, RunRead
  <2>4. CASE UNCHANGED numberVars
    <3>1. UNCHANGED <<reader, host, run, tag, count, unread, v, shift, base, acc, out>>
      BY <2>4 DEF numberVars
    <3>2. UNCHANGED <<Numbers, Known>> /\ \A x : FitsHost(x)' <=> FitsHost(x)
      BY <3>1 DEF Numbers, Known, FitsHost
    <3>3. RunsReadBack'
      BY <3>1, <3>2 DEF RunInv, RunsReadBack
    <3> QED
      BY <3>1, <3>2, <3>3 DEF RunInv
  <2> QED
    BY <2>1, <2>2, <2>3, <2>4 DEF NumberNext
<1> QED
  BY <1>1, <1>2, NumberInvHolds, PTL DEF NumberSpec

(* In whichever form the encoder writes a run, plain, as differences modulo *)
(* the word, or as a first value and a step, the reader stores exactly its  *)
(* values and leaves nothing unread, and it gives up only when its host     *)
(* cannot hold one of them: for any widths, values and lengths.             *)
(* enc_pick_long_run_tag and the three run decoders.                        *)
THEOREM RunsComeBack == NumberSpec => []RunsReadBack
<1>1. RunInv => RunsReadBack
  BY DEF RunInv
<1> QED
  BY <1>1, RunInvHolds, PTL

=============================================================================
