---------------------------- MODULE StringIntern ----------------------------
(***************************************************************************)
(* String deduplication in the encoder (phpser.c, "intern cache").         *)
(*                                                                         *)
(* A string is identified by its address.  The intern cache maps an        *)
(* address to "emitted inline once" or to a dictionary index; it owns      *)
(* nothing.  The dictionary owns a reference to each of its strings.  Once *)
(* it is long enough a content map finds a dictionary entry by bytes.      *)
(*                                                                         *)
(* The hard part is that user hooks run between two calls: strings die     *)
(* and their addresses come back with other bytes, while the cache still   *)
(* names the address.                                                      *)
(***************************************************************************)
EXTENDS Integers, Sequences, FiniteSets

CONSTANTS
  Addr,              \* addresses a zend_string may live at
  Interned,          \* those that hold interned strings: never freed
  Content,           \* what a string can say
  Oversize,          \* contents longer than UINT32_MAX
  Free,              \* an address that holds no string
  Bucket,            \* Bucket[c]: hash bucket of content c
  HashMapThreshold,  \* dictionary length that creates the content map
  MaxChain,          \* collision chain that disables the content map
  MaxWrites          \* bound: calls the caller makes in one encode

ASSUME InternAssumption ==
  /\ Interned \subseteq Addr
  /\ Oversize \subseteq Content
  /\ Free \notin Content
  /\ HashMapThreshold \in Nat \ {0}
  /\ MaxWrites \in Nat

VARIABLES
  heap,          \* Addr -> Content, or Free
  held,          \* addresses the program (graph, hook temporaries) holds
  icache,        \* Addr -> NoSlot, InlineMark or a dictionary index
  dict,          \* addresses the dictionary owns, indices from 1
  contentMap,    \* Content -> dictionary index, 0 when absent
  mapState,      \* "deferred", "live" or "disabled"
  sizeExceeded,
  stream,        \* what each call answered, with what it was asked to say
  frame,         \* "open", "sealed" or "discarded"
  header         \* the dictionary section of a sealed frame

program == <<heap, held>>
encoder == <<icache, dict, contentMap, mapState, sizeExceeded>>
vars == <<heap, held, icache, dict, contentMap, mapState, sizeExceeded,
          stream, frame, header>>

NoSlot     == 0
InlineMark == -1
IsDictSlot(slot) == slot > 0

(* A dictionary reference, or (idx = 0) the bytes themselves; said records *)
(* what the string said when the call was made.                            *)
Answer == [idx : Nat, text : Content \cup {Free}, said : Content]

DictRef(idx, zs) == [idx |-> idx, text |-> Free, said |-> heap[zs]]
InlineText(zs)   == [idx |-> 0, text |-> heap[zs], said |-> heap[zs]]

(* Mutant: the dictionary borrows its strings instead of owning them.      *)
DictBorrows == {}

DictOwned == {dict[i] : i \in DOMAIN dict}

Init ==
  /\ heap \in [Addr -> Content \cup {Free}]
  /\ held = {a \in Addr : heap[a] # Free}
  /\ icache = [a \in Addr |-> NoSlot]
  /\ dict = <<>>
  /\ contentMap = [c \in Content |-> 0]
  /\ mapState = "deferred"
  /\ sizeExceeded = FALSE
  /\ stream = <<>>
  /\ frame = "open"
  /\ header = <<>>

----------------------------------------------------------------------------
(* User code between two calls.                                            *)

Allocate(a, c) ==
  /\ frame = "open"
  /\ heap[a] = Free
  /\ heap' = [heap EXCEPT ![a] = c]
  /\ held' = held \cup {a}
  /\ UNCHANGED <<encoder, stream, frame, header>>

(* Dropping the program's reference frees the string unless the dictionary *)
(* has one of its own.                                                     *)
Release(a) ==
  /\ frame = "open"
  /\ a \in held \ Interned
  /\ held' = held \ {a}
  /\ heap' = [heap EXCEPT ![a] = IF a \in DictOwned THEN @ ELSE Free]
  /\ UNCHANGED <<encoder, stream, frame, header>>

----------------------------------------------------------------------------
(* Building blocks of the three entry points.                              *)

SetSlot(zs, idx) == icache' = [icache EXCEPT ![zs] = idx]

(* The content map is consulted only while it exists.                      *)
MapHit(zs) == IF mapState = "live" THEN contentMap[heap[zs]] ELSE 0

(* Mutant: every content hit seeds the cache, a temporary's too.           *)
SeedAlways(zs, idx) == SetSlot(zs, idx)

(* enc_seed_dict_on_hit: the hit owns the dictionary's string, not zs.     *)
SeedOnHit(zs, idx) ==
  IF zs \in Interned THEN SetSlot(zs, idx) ELSE UNCHANGED icache

ChainLength(c) ==
  Cardinality({k \in Content : contentMap[k] # 0 /\ Bucket[k] = Bucket[c]})

(* zend_hash_add keeps the entry that is already there.                    *)
MapAdd(c, idx) ==
  contentMap' = [contentMap EXCEPT ![c] = IF @ = 0 THEN idx ELSE @]

(* The batch insert that creates the map: the first entry of each content. *)
FirstIndexIn(entries, c) ==
  IF \E i \in DOMAIN entries : heap[entries[i]] = c
    THEN CHOOSE i \in DOMAIN entries :
           /\ heap[entries[i]] = c
           /\ \A j \in DOMAIN entries : heap[entries[j]] = c => i <= j
    ELSE 0

UpdateMap(zs) ==
  LET c == heap[zs]
      entries == Append(dict, zs)
  IN \/ /\ Len(entries) = HashMapThreshold
        /\ mapState' = "live"
        /\ contentMap' = [k \in Content |-> FirstIndexIn(entries, k)]
     \/ /\ Len(entries) # HashMapThreshold
        /\ mapState = "live"
        /\ ChainLength(c) >= MaxChain
        /\ mapState' = "disabled"
        /\ contentMap' = [k \in Content |-> 0]
     \/ /\ Len(entries) # HashMapThreshold
        /\ mapState = "live"
        /\ ChainLength(c) < MaxChain
        /\ MapAdd(c, Len(entries))
        /\ UNCHANGED mapState
     \/ /\ Len(entries) # HashMapThreshold
        /\ mapState # "live"
        /\ UNCHANGED <<contentMap, mapState>>

(* enc_dict_append: the dictionary takes a reference to zs.                *)
DictAppend(zs) ==
  /\ dict' = Append(dict, zs)
  /\ sizeExceeded' = (sizeExceeded \/ heap[zs] \in Oversize)
  /\ UpdateMap(zs)

Answered(answer) == stream' = Append(stream, answer)

----------------------------------------------------------------------------
(* enc_emit_str_tagged: a value or a key, first inline, then by index.     *)

EmitKnown(zs) ==
  /\ IsDictSlot(icache[zs])
  /\ Answered(DictRef(icache[zs], zs))
  /\ UNCHANGED encoder

EmitPromote(zs) ==
  /\ icache[zs] = InlineMark
  /\ DictAppend(zs)
  /\ SetSlot(zs, Len(dict) + 1)
  /\ Answered(DictRef(Len(dict) + 1, zs))

EmitContentHit(zs) ==
  /\ icache[zs] = NoSlot
  /\ MapHit(zs) # 0
  /\ SeedOnHit(zs, MapHit(zs))
  /\ Answered(DictRef(MapHit(zs), zs))
  /\ UNCHANGED <<dict, contentMap, mapState, sizeExceeded>>

EmitInline(zs) ==
  /\ icache[zs] = NoSlot
  /\ MapHit(zs) = 0
  /\ heap[zs] \notin Oversize
  /\ SetSlot(zs, InlineMark)
  /\ Answered(InlineText(zs))
  /\ UNCHANGED <<dict, contentMap, mapState, sizeExceeded>>

EmitOversize(zs) ==
  /\ icache[zs] = NoSlot
  /\ MapHit(zs) = 0
  /\ heap[zs] \in Oversize
  /\ sizeExceeded' = TRUE
  /\ UNCHANGED <<icache, dict, contentMap, mapState, stream>>

EmitTagged(zs) ==
  \/ EmitKnown(zs) \/ EmitPromote(zs) \/ EmitContentHit(zs)
  \/ EmitInline(zs) \/ EmitOversize(zs)

(* enc_intern_zstr: class names, schema keys, string columns.              *)
InternHit(zs) ==
  /\ ~ IsDictSlot(icache[zs])
  /\ MapHit(zs) # 0
  /\ SeedOnHit(zs, MapHit(zs))
  /\ Answered(DictRef(MapHit(zs), zs))
  /\ UNCHANGED <<dict, contentMap, mapState, sizeExceeded>>

InternNew(zs) ==
  /\ ~ IsDictSlot(icache[zs])
  /\ MapHit(zs) = 0
  /\ DictAppend(zs)
  /\ SetSlot(zs, Len(dict) + 1)
  /\ Answered(DictRef(Len(dict) + 1, zs))

Intern(zs) == EmitKnown(zs) \/ InternHit(zs) \/ InternNew(zs)

(* enc_str_dict_idx: the all-or-nothing probe of packed string runs and    *)
(* dictionary-keyed arrays.  A miss answers nothing and changes nothing.   *)
Probe(zs) == EmitKnown(zs) \/ InternHit(zs)

Write(zs) ==
  /\ frame = "open"
  /\ zs \in held
  /\ Len(stream) < MaxWrites
  /\ EmitTagged(zs) \/ Intern(zs) \/ Probe(zs)
  /\ UNCHANGED <<program, frame, header>>

----------------------------------------------------------------------------
(* phpser_encode_zval_ex after the walk: the header lists what the         *)
(* dictionary's strings say now, then enc_ctx_destroy drops them.          *)

(* Mutant: the dictionary's references are not given back.                 *)
ForgetDictionary ==
  /\ dict' = <<>>
  /\ icache' = [a \in Addr |-> NoSlot]
  /\ contentMap' = [c \in Content |-> 0]
  /\ mapState' = "deferred"
  /\ UNCHANGED heap

DropDictionary ==
  /\ heap' = [a \in Addr |->
       IF a \in DictOwned /\ a \notin held \cup Interned THEN Free ELSE heap[a]]
  /\ dict' = <<>>
  /\ icache' = [a \in Addr |-> NoSlot]
  /\ contentMap' = [c \in Content |-> 0]
  /\ mapState' = "deferred"

Finish ==
  /\ frame = "open"
  /\ ~ sizeExceeded
  /\ frame' = "sealed"
  /\ header' = [i \in DOMAIN dict |-> heap[dict[i]]]
  /\ DropDictionary
  /\ UNCHANGED <<held, sizeExceeded, stream>>

FinishOversize ==
  /\ frame = "open"
  /\ sizeExceeded
  /\ frame' = "discarded"
  /\ stream' = <<>>
  /\ DropDictionary
  /\ UNCHANGED <<held, sizeExceeded, header>>

Next ==
  \/ \E a \in Addr, c \in Content : Allocate(a, c)
  \/ \E a \in Addr : Release(a)
  \/ \E zs \in Addr : Write(zs)
  \/ Finish
  \/ FinishOversize

Spec == Init /\ [][Next]_vars

----------------------------------------------------------------------------
(* Properties.                                                             *)

TypeOK ==
  /\ heap \in [Addr -> Content \cup {Free}]
  /\ held \subseteq Addr
  /\ icache \in [Addr -> {NoSlot, InlineMark} \cup Nat]
  /\ dict \in Seq(Addr)
  /\ contentMap \in [Content -> Nat]
  /\ mapState \in {"deferred", "live", "disabled"}
  /\ sizeExceeded \in BOOLEAN
  /\ stream \in Seq(Answer)
  /\ frame \in {"open", "sealed", "discarded"}
  /\ header \in Seq(Content)

(* What a decoder reads for an answer: the inline bytes, or the dictionary *)
(* entry it names -- the one the header will carry while the frame is open.*)
Entry(idx) == IF frame = "open" THEN heap[dict[idx]] ELSE header[idx]
Resolve(answer) == IF answer.idx = 0 THEN answer.text ELSE Entry(answer.idx)

(* Every string written so far reads back as what it said when it was      *)
(* written, however strings were freed, reused or promoted since: the      *)
(* guarantee of enc_emit_str_tagged, enc_intern_zstr and enc_str_dict_idx. *)
WireFidelity ==
  \A i \in DOMAIN stream : Resolve(stream[i]) = stream[i].said

(* Every index on the wire is inside the dictionary section; the decoder   *)
(* rejects the whole frame otherwise (dec_get_zstr).                       *)
RefsInHeader ==
  \A i \in DOMAIN stream :
    stream[i].idx \in 0 .. (IF frame = "open" THEN Len(dict) ELSE Len(header))

(* A cached index is only trusted for an address whose bytes cannot change *)
(* while the encode runs: an interned string or one the dictionary owns.   *)
(* This is what the comment on enc_seed_dict_on_hit relies on.             *)
StableSlots ==
  \A a \in Addr :
    IsDictSlot(icache[a]) =>
      /\ a \in Interned \cup DictOwned
      /\ icache[a] \in DOMAIN dict
      /\ heap[a] = heap[dict[icache[a]]]

(* The content map never sends a string to an entry with other bytes.      *)
MapSound ==
  \A c \in Content :
    contentMap[c] # 0 =>
      contentMap[c] \in DOMAIN dict /\ heap[dict[contentMap[c]]] = c

(* No sealed frame carries a string the decoder refuses for its length.    *)
NoOversizeSealed ==
  frame = "sealed" =>
    /\ \A i \in DOMAIN header : header[i] \notin Oversize
    /\ \A i \in DOMAIN stream : stream[i].said \notin Oversize

(* Dropping the dictionary leaks nothing and takes nothing away from the   *)
(* program: afterwards a string lives exactly while the program holds it.  *)
NoLeakAfterFinish ==
  frame # "open" => \A a \in Addr : heap[a] # Free <=> a \in held

(* The strengthening of the properties above that every step preserves.    *)
(* Alive says who keeps a string alive while the frame is open; SizeFlag   *)
(* that an oversized string is never taken in without the flag.            *)
Alive ==
  frame = "open" =>
    /\ \A a \in Addr : heap[a] # Free <=> a \in held \cup DictOwned
    /\ DictOwned \cap Interned \subseteq held

SizeFlag ==
  frame = "open" /\ ~ sizeExceeded =>
    /\ \A i \in DOMAIN dict : heap[dict[i]] \notin Oversize
    /\ \A i \in DOMAIN stream : stream[i].said \notin Oversize

IInv ==
  /\ TypeOK
  /\ Alive
  /\ SizeFlag
  /\ StableSlots
  /\ MapSound
  /\ RefsInHeader
  /\ WireFidelity
  /\ NoOversizeSealed
  /\ NoLeakAfterFinish

Decoded == [i \in DOMAIN stream |-> Resolve(stream[i])]

StringStream == INSTANCE StringStream WITH log <- Decoded

(* The encoder's strings implement the stream of strings the caller wrote. *)
ImplementsStringStream == StringStream!Spec
=============================================================================
