------------------------ MODULE DecodeLifetimeProofs ------------------------
(***************************************************************************)
(* For any classes, any number of entities, tokens and statements of user  *)
(* code: no object is destructed before its own hook has succeeded,        *)
(* nothing the decoder, its caller or the collector knows of is freed, a   *)
(* pin released without telling the collector is never the last holder,    *)
(* and what is alive when the decoder returns can still be found.          *)
(***************************************************************************)
EXTENDS DecodeLifetime, SequenceTheorems, FiniteSetTheorems, TLAPS

(* What a record of an entity has to satisfy: until its hook has succeeded *)
(* an object with a hook and a destructor is flagged, and a flagged object *)
(* is not destructed.                                                      *)
Guarded(x) ==
  /\ PrepareHook(x.class) /\ ~ x.hooked => x.flagged
  /\ x.destroyed /\ x.class.hook \in {"unserialize", "wakeup"} => x.hooked

SafeHeap(h) == h \in Seq(Entity) /\ \A e \in DOMAIN h : Guarded(h[e])

(* Everything the walk has in hand is one of the n entities made so far.   *)
SafeIds(entries, n) == entries \in Seq([entity : 1 .. n, pinned : BOOLEAN])
SafeFrames(stack, n) == stack \in Seq(
  [what : {"props", "skip", "hooked", "reference", "referenced", "array", "shared"},
   entity : 1 .. n, data : 0 .. n, sawRef : BOOLEAN])

LInv ==
  /\ SafeHeap(heap)
  /\ SafeIds(ids, Len(heap))
  /\ SafeFrames(frames, Len(heap))

----------------------------------------------------------------------------
(* The tables stay safe when entities are added.                           *)
LEMMA Grow ==
  ASSUME NEW entries, NEW stack, NEW n \in Nat, NEW m \in Nat, n <= m,
         SafeIds(entries, n), SafeFrames(stack, n)
  PROVE  SafeIds(entries, m) /\ SafeFrames(stack, m)
<1>1. [entity : 1 .. n, pinned : BOOLEAN] \subseteq [entity : 1 .. m, pinned : BOOLEAN]
  OBVIOUS
<1> DEFINE C(k) ==
      [what : {"props", "skip", "hooked", "reference", "referenced", "array", "shared"},
       entity : 1 .. k, data : 0 .. k, sawRef : BOOLEAN]
<1>2. C(n) \subseteq C(m)
  OBVIOUS
<1>3. QED
  BY <1>1, <1>2, SeqMonotonic DEF SafeIds, SafeFrames

(* Records of entities, changed in one field.                              *)
LEMMA NewSlots ==
  ASSUME NEW x \in Entity, Guarded(x), NEW s \in [Slots -> Nat]
  PROVE  [x EXCEPT !.slots = s] \in Entity /\ Guarded([x EXCEPT !.slots = s])
<1> DEFINE y == [x EXCEPT !.slots = s]
<1>1. y = [kind |-> x.kind, class |-> x.class, slots |-> s, alive |-> x.alive,
           flagged |-> x.flagged, hooked |-> x.hooked, destroyed |-> x.destroyed]
  BY DEF Entity
<1>2. y \in Entity
  BY <1>1 DEF Entity
<1>3. /\ y.class = x.class /\ y.hooked = x.hooked
      /\ y.flagged = x.flagged /\ y.destroyed = x.destroyed
  BY <1>1
<1>4. QED
  BY <1>2, <1>3 DEF Guarded

LEMMA NewFlags ==
  ASSUME NEW x \in Entity, NEW b \in BOOLEAN
  PROVE  /\ [x EXCEPT !.alive = b] = [kind |-> x.kind, class |-> x.class, slots |-> x.slots,
              alive |-> b, flagged |-> x.flagged, hooked |-> x.hooked,
              destroyed |-> x.destroyed]
         /\ [x EXCEPT !.flagged = b] = [kind |-> x.kind, class |-> x.class,
              slots |-> x.slots, alive |-> x.alive, flagged |-> b, hooked |-> x.hooked,
              destroyed |-> x.destroyed]
         /\ [x EXCEPT !.hooked = b] = [kind |-> x.kind, class |-> x.class,
              slots |-> x.slots, alive |-> x.alive, flagged |-> x.flagged, hooked |-> b,
              destroyed |-> x.destroyed]
         /\ [x EXCEPT !.destroyed = b] = [kind |-> x.kind, class |-> x.class,
              slots |-> x.slots, alive |-> x.alive, flagged |-> x.flagged,
              hooked |-> x.hooked, destroyed |-> b]
BY DEF Entity

LEMMA Freed ==
  ASSUME NEW x \in Entity, Guarded(x)
  PROVE  /\ [x EXCEPT !.alive = FALSE, !.slots = Empty] \in Entity
         /\ Guarded([x EXCEPT !.alive = FALSE, !.slots = Empty])
<1> DEFINE y == [x EXCEPT !.alive = FALSE]
<1>1. y = [kind |-> x.kind, class |-> x.class, slots |-> x.slots, alive |-> FALSE,
           flagged |-> x.flagged, hooked |-> x.hooked, destroyed |-> x.destroyed]
  BY NewFlags
<1>2. y \in Entity /\ Guarded(y)
  BY <1>1 DEF Entity, Guarded
<1>3. Empty \in [Slots -> Nat]
  BY DEF Empty, None
<1> HIDE DEF y
<1>4. [y EXCEPT !.slots = Empty] \in Entity /\ Guarded([y EXCEPT !.slots = Empty])
  BY <1>2, <1>3, NewSlots
<1>5. QED
  BY <1>4 DEF y

(* A destructor is called on an object that is not flagged.                *)
LEMMA Destructed ==
  ASSUME NEW x \in Entity, Guarded(x), x.class.destructor, ~ x.flagged
  PROVE  /\ [x EXCEPT !.flagged = TRUE, !.destroyed = TRUE] \in Entity
         /\ Guarded([x EXCEPT !.flagged = TRUE, !.destroyed = TRUE])
<1> DEFINE y == [x EXCEPT !.flagged = TRUE]
           z == [y EXCEPT !.destroyed = TRUE]
<1>1. y = [kind |-> x.kind, class |-> x.class, slots |-> x.slots, alive |-> x.alive,
           flagged |-> TRUE, hooked |-> x.hooked, destroyed |-> x.destroyed]
  BY NewFlags
<1>2. y \in Entity
  BY <1>1 DEF Entity
<1>3. y.class = x.class /\ y.hooked = x.hooked /\ y.flagged
  BY <1>1
<1> HIDE DEF y
<1>4. z = [kind |-> y.kind, class |-> y.class, slots |-> y.slots, alive |-> y.alive,
           flagged |-> y.flagged, hooked |-> y.hooked, destroyed |-> TRUE]
  BY <1>2, NewFlags
<1>5. z \in Entity
  BY <1>2, <1>4 DEF Entity
<1>6. z.class = x.class /\ z.hooked = x.hooked /\ z.flagged
  BY <1>3, <1>4
<1>7. Guarded(z)
  BY <1>6 DEF Guarded, PrepareHook
<1>8. QED
  BY <1>5, <1>7 DEF y

(* A hook returned, or threw.                                              *)
LEMMA HookOver ==
  ASSUME NEW x \in Entity, Guarded(x), NEW threw
  PROVE  LET z == [x EXCEPT !.flagged = (x.flagged /\ ~ ClearsFlag(threw)),
                            !.hooked = (x.hooked \/ ~ threw)]
         IN z \in Entity /\ Guarded(z)
<1> DEFINE f == x.flagged /\ ~ ClearsFlag(threw)
           b == x.hooked \/ ~ threw
<1>1. f \in BOOLEAN /\ b \in BOOLEAN
  OBVIOUS
<1>2. f = (x.flagged /\ threw)
  BY DEF ClearsFlag, Entity
<1> HIDE DEF f, b
<1> DEFINE y == [x EXCEPT !.flagged = f]
           z == [y EXCEPT !.hooked = b]
<1>3. y = [kind |-> x.kind, class |-> x.class, slots |-> x.slots, alive |-> x.alive,
           flagged |-> f, hooked |-> x.hooked, destroyed |-> x.destroyed]
  BY <1>1, NewFlags
<1>4. y \in Entity
  BY <1>1, <1>3 DEF Entity
<1>5. y.class = x.class /\ y.flagged = f /\ y.destroyed = x.destroyed
  BY <1>3
<1> HIDE DEF y
<1>6. z = [kind |-> y.kind, class |-> y.class, slots |-> y.slots, alive |-> y.alive,
           flagged |-> y.flagged, hooked |-> b, destroyed |-> y.destroyed]
  BY <1>1, <1>4, NewFlags
<1>7. z \in Entity
  BY <1>1, <1>4, <1>6 DEF Entity
<1>8. z.class = x.class /\ z.flagged = f /\ z.hooked = b /\ z.destroyed = x.destroyed
  BY <1>5, <1>6
<1>9. Guarded(z)
  BY <1>2, <1>8 DEF Guarded, b
<1>10. QED
  BY <1>7, <1>9 DEF y, f, b

(* One entity's record is replaced by a safe one.                          *)
LEMMA Replace ==
  ASSUME NEW h, SafeHeap(h), NEW e, NEW r,
         e \in DOMAIN h => r \in Entity /\ Guarded(r)
  PROVE  SafeHeap([h EXCEPT ![e] = r]) /\ Len([h EXCEPT ![e] = r]) = Len(h)
<1> DEFINE g == [h EXCEPT ![e] = r]
<1>1. h \in [1 .. Len(h) -> Entity] /\ Len(h) \in Nat /\ DOMAIN h = 1 .. Len(h)
  BY LenProperties DEF SafeHeap
<1>2. DOMAIN g = 1 .. Len(h)
  BY <1>1
<1>3. ASSUME NEW x \in 1 .. Len(h)
      PROVE  g[x] \in Entity /\ Guarded(g[x])
  BY <1>1 DEF SafeHeap
<1>4. g \in [1 .. Len(h) -> Entity]
  BY <1>1, <1>3
<1>5. g \in Seq(Entity) /\ Len(g) = Len(h)
  BY <1>1, <1>2, <1>4
<1>6. QED
  BY <1>2, <1>3, <1>5 DEF SafeHeap

(* Writing a slot changes nothing that Guarded speaks of.                  *)
LEMMA SlotWrite ==
  ASSUME NEW h, SafeHeap(h), NEW e, NEW k, NEW v \in Nat
  PROVE  SafeHeap(Write(h, e, k, v)) /\ Len(Write(h, e, k, v)) = Len(h)
<1> DEFINE s == [h[e].slots EXCEPT ![k] = v]
           r == [h[e] EXCEPT !.slots = s]
<1>1. ASSUME e \in DOMAIN h
      PROVE  r \in Entity /\ Guarded(r)
  <2>1. h[e] \in Entity /\ Guarded(h[e])
    BY <1>1, LenProperties DEF SafeHeap
  <2>2. h[e].slots \in [Slots -> Nat]
    BY <2>1 DEF Entity
  <2>3. s \in [Slots -> Nat]
    BY <2>2
  <2> HIDE DEF s
  <2>4. QED
    BY <2>1, <2>3, NewSlots
<1>2. Write(h, e, k, v) = [h EXCEPT ![e] = r]
  BY DEF Write
<1> HIDE DEF r
<1>3. SafeHeap([h EXCEPT ![e] = r]) /\ Len([h EXCEPT ![e] = r]) = Len(h)
  BY <1>1, Replace
<1>4. QED
  BY <1>2, <1>3

(* An object is created with the flag its class calls for.                 *)
LEMMA CreateSafe ==
  ASSUME SafeHeap(heap), NEW kind \in {"object", "reference", "array"},
         NEW class \in Classes \cup {NoClass}
  PROVE  /\ SafeHeap(Create(kind, class))
         /\ Len(Create(kind, class)) = fresh
         /\ fresh \in Nat /\ Len(heap) \in Nat /\ fresh = Len(heap) + 1
<1> DEFINE x == [kind |-> kind, class |-> class, slots |-> Empty, alive |-> TRUE,
                 flagged |-> PrepareHook(class), hooked |-> FALSE, destroyed |-> FALSE]
<1>1. Create(kind, class) = Append(heap, x)
  BY DEF Create
<1>2. PrepareHook(class) \in BOOLEAN
  BY DEF PrepareHook
<1>3. Empty \in [Slots -> Nat]
  BY DEF Empty, None
<1>4. x \in Entity
  BY <1>2, <1>3 DEF Entity
<1>5. Guarded(x)
  BY <1>2 DEF Guarded
<1>6. heap \in Seq(Entity) /\ Len(heap) \in Nat
  BY DEF SafeHeap
<1> HIDE DEF x
<1>7. QED
  BY <1>1, <1>4, <1>5, <1>6 DEF SafeHeap, fresh

(* Freed entities keep what Guarded speaks of.                             *)
LEMMA FreeSafe ==
  ASSUME SafeHeap(heap), NEW set
  PROVE  SafeHeap(Free(set)) /\ Len(Free(set)) = Len(heap)
<1> DEFINE g == Free(set)
<1>1. heap \in [1 .. Len(heap) -> Entity] /\ Len(heap) \in Nat /\ DOMAIN heap = 1 .. Len(heap)
  BY LenProperties DEF SafeHeap
<1>2. ASSUME NEW e \in 1 .. Len(heap)
      PROVE  g[e] \in Entity /\ Guarded(g[e])
  <2>1. heap[e] \in Entity /\ Guarded(heap[e])
    BY <1>1 DEF SafeHeap
  <2>2. g[e] = heap[e] \/ g[e] = [heap[e] EXCEPT !.alive = FALSE, !.slots = Empty]
    BY <1>1 DEF Free, Entities
  <2>3. QED
    BY <2>1, <2>2, Freed
<1>3. g \in [1 .. Len(heap) -> Entity] /\ DOMAIN g = 1 .. Len(heap)
  BY <1>1, <1>2 DEF Free, Entities
<1>4. g \in Seq(Entity) /\ Len(g) = Len(heap)
  BY <1>1, <1>3
<1>5. QED
  BY <1>2, <1>3, <1>4 DEF SafeHeap

----------------------------------------------------------------------------
(* A decoded value may be put anywhere.                                    *)
LEMMA PutSafe ==
  ASSUME NEW v, NEW graph, NEW stack, NEW given, NEW noted,
         SafeHeap(graph), SafeFrames(stack, Len(graph)), v \in 0 .. Len(graph),
         Put(v, graph, stack, given, noted)
  PROVE  /\ SafeHeap(heap') /\ Len(heap') = Len(graph)
         /\ SafeFrames(frames', Len(graph))
<1> DEFINE C ==
      [what : {"props", "skip", "hooked", "reference", "referenced", "array", "shared"},
       entity : 1 .. Len(graph), data : 0 .. Len(graph), sawRef : BOOLEAN]
<1>1. Len(graph) \in Nat /\ v \in Nat /\ DOMAIN graph = 1 .. Len(graph)
  BY LenProperties DEF SafeHeap
<1>2. stack \in Seq(C)
  BY DEF SafeFrames
<1>3. CASE stack = <<>>
  BY <1>3 DEF Put
<1>4. CASE stack # <<>>
  <2> DEFINE n == Len(stack)
             f == stack[n]
  <2>1. n \in 1 .. Len(stack) /\ f \in C
    <3> HIDE DEF C
    <3>1. Len(stack) \in Nat \ {0}
      BY <1>2, <1>4, EmptySeq
    <3>2. QED
      BY <1>2, <3>1, ElementOfSeq
  <2>a. ASSUME NEW into, NEW k
        PROVE  SafeHeap(Write(graph, into, k, v)) /\ Len(Write(graph, into, k, v)) = Len(graph)
    BY <1>1, SlotWrite
  <2>2. CASE \E k \in Slots : heap' = Write(graph, f.entity, k, v) /\ frames' = stack
    <3> DEFINE into == f.entity
    <3>1. PICK k \in Slots : heap' = Write(graph, into, k, v) /\ frames' = stack
      BY <2>2
    <3> HIDE DEF into
    <3>2. SafeHeap(heap') /\ Len(heap') = Len(graph)
      BY <3>1, <2>a
    <3>3. QED
      BY <3>1, <3>2
  <2>3. CASE heap' = graph /\ frames' = stack
    BY <2>3
  <2>4. CASE /\ v \in Kind("array", graph)
             /\ heap' = graph /\ frames' = [stack EXCEPT ![n].data = v]
    <3>1. [f EXCEPT !.data = v] \in C
      BY <2>1
    <3>2. frames' = [stack EXCEPT ![n] = [f EXCEPT !.data = v]]
      BY <2>4
    <3>3. frames' \in Seq(C)
      BY <1>2, <2>1, <3>1, <3>2, ExceptSeq
    <3>4. QED
      BY <2>4, <3>3 DEF SafeFrames
  <2>5. CASE /\ heap' = Write(graph, f.entity, 1, v)
             /\ frames' = [stack EXCEPT ![n].what = "referenced"]
    <3>1. [f EXCEPT !.what = "referenced"] \in C
      BY <2>1
    <3>2. frames' = [stack EXCEPT ![n] = [f EXCEPT !.what = "referenced"]]
      BY <2>5
    <3>3. frames' \in Seq(C)
      BY <1>2, <2>1, <3>1, <3>2, ExceptSeq
    <3> DEFINE into == f.entity
    <3>a. heap' = Write(graph, into, 1, v)
      BY <2>5
    <3> HIDE DEF into
    <3>4. SafeHeap(heap') /\ Len(heap') = Len(graph)
      BY <3>a, <2>a
    <3>5. QED
      BY <3>3, <3>4 DEF SafeFrames
  <2>6. \/ \E k \in Slots : heap' = Write(graph, f.entity, k, v) /\ frames' = stack
        \/ heap' = graph /\ frames' = stack
        \/ /\ v \in Kind("array", graph)
           /\ heap' = graph /\ frames' = [stack EXCEPT ![n].data = v]
        \/ /\ heap' = Write(graph, f.entity, 1, v)
           /\ frames' = [stack EXCEPT ![n].what = "referenced"]
    BY <1>4 DEF Put
  <2>7. QED
    BY <2>2, <2>3, <2>4, <2>5, <2>6
<1>5. QED
  BY <1>3, <1>4

(* The frames around a value, and the last one.                            *)
LEMMA Stacked ==
  ASSUME NEW n \in Nat, SafeFrames(frames, n), frames # <<>>
  PROVE  SafeFrames(Outer(frames), n) /\ top.entity \in 1 .. n /\ top.data \in 0 .. n
<1> DEFINE C ==
      [what : {"props", "skip", "hooked", "reference", "referenced", "array", "shared"},
       entity : 1 .. n, data : 0 .. n, sawRef : BOOLEAN]
<1>1. frames \in Seq(C)
  BY DEF SafeFrames
<1>2. Len(frames) \in Nat \ {0} /\ \A i \in 1 .. Len(frames) : frames[i] \in C
  BY <1>1, EmptySeq, ElementOfSeq
<1>3. SubSeq(frames, 1, Len(frames) - 1) \in Seq(C)
  BY <1>2, SubSeqProperties
<1>4. QED
  BY <1>2, <1>3 DEF SafeFrames, Outer, top

LEMMA SawOne ==
  ASSUME NEW n, NEW b \in BOOLEAN,
         NEW x \in
           [what : {"props", "skip", "hooked", "reference", "referenced", "array", "shared"},
            entity : 1 .. n, data : 0 .. n, sawRef : BOOLEAN]
  PROVE  [x EXCEPT !.sawRef = b]
           = [what |-> x.what, entity |-> x.entity, data |-> x.data, sawRef |-> b]
OBVIOUS

LEMMA Seen ==
  ASSUME NEW n \in Nat, NEW stack, SafeFrames(stack, n)
  PROVE  SafeFrames(SawReference(stack), n)
<1> DEFINE C ==
      [what : {"props", "skip", "hooked", "reference", "referenced", "array", "shared"},
       entity : 1 .. n, data : 0 .. n, sawRef : BOOLEAN]
<1>1. stack \in Seq(C) /\ stack \in [1 .. Len(stack) -> C] /\ Len(stack) \in Nat
  BY LenProperties DEF SafeFrames
<1>2. \A i \in 1 .. Len(stack) : [stack[i] EXCEPT !.sawRef = TRUE] \in C
  <2> SUFFICES ASSUME NEW i \in 1 .. Len(stack) PROVE [stack[i] EXCEPT !.sawRef = TRUE] \in C
    OBVIOUS
  <2> DEFINE y == [stack[i] EXCEPT !.sawRef = TRUE]
  <2>1. stack[i] \in C
    BY <1>1
  <2>2. y = [what |-> stack[i].what, entity |-> stack[i].entity, data |-> stack[i].data,
             sawRef |-> TRUE]
    BY <2>1, SawOne
  <2>3. QED
    BY <2>1, <2>2
<1>3. SawReference(stack) \in [1 .. Len(stack) -> C]
  BY <1>1, <1>2 DEF SawReference
<1>4. SawReference(stack) \in Seq(C)
  BY <1>1, <1>3, SeqDef
<1>5. QED
  BY <1>4 DEF SafeFrames

LEMMA Pushed ==
  ASSUME NEW n \in Nat, NEW stack, SafeFrames(stack, n), NEW e \in 1 .. n,
         NEW what \in {"props", "skip", "hooked", "reference", "array", "shared"}
  PROVE  SafeFrames(Append(stack, Frame(what, e)), n)
BY DEF SafeFrames, Frame, None

LEMMA Registered ==
  ASSUME NEW n \in Nat, SafeIds(ids, n), NEW e \in 1 .. n, NEW kind, Register(e, kind)
  PROVE  SafeIds(ids', n)
BY DEF SafeIds, Register

----------------------------------------------------------------------------
(* Nothing has been decoded yet.                                           *)
LEMMA InitSafe == Init => LInv
BY SeqDef DEF Init, LInv, SafeHeap, SafeIds, SafeFrames

(* Steps that leave the heap, the ids and the frames alone.                *)
LEMMA Idle == LInv /\ UNCHANGED <<heap, ids, frames>> => LInv'
BY DEF LInv, SafeHeap, SafeIds, SafeFrames, Guarded

(* A step that only replaces the heap by a safe one of the same length.    *)
LEMMA SameTables ==
  ASSUME LInv, SafeHeap(heap'), Len(heap') = Len(heap), UNCHANGED <<ids, frames>>
  PROVE  LInv'
<1>1. SafeIds(ids', Len(heap')) /\ SafeFrames(frames', Len(heap'))
  BY DEF LInv
<1>2. QED
  BY <1>1 DEF LInv

(* Destructors run on objects that are not flagged, giving up a reference  *)
(* or collecting.                                                          *)
LEMMA DestructSafe ==
  ASSUME LInv, NEW e, Destructible(e), Destruct(e)
  PROVE  SafeHeap(heap') /\ Len(heap') = Len(heap)
<1> DEFINE r == [heap[e] EXCEPT !.flagged = TRUE, !.destroyed = TRUE]
<1>1. e \in DOMAIN heap => heap[e] \in Entity /\ Guarded(heap[e])
  BY LenProperties DEF LInv, SafeHeap
<1>2. e \in DOMAIN heap => r \in Entity /\ Guarded(r)
  BY <1>1, Destructed DEF Destructible
<1>3. heap' = [heap EXCEPT ![e] = r]
  BY DEF Destruct
<1>4. SafeHeap(heap)
  BY DEF LInv
<1> HIDE DEF r
<1>5. SafeHeap([heap EXCEPT ![e] = r]) /\ Len([heap EXCEPT ![e] = r]) = Len(heap)
  BY <1>2, <1>4, Replace
<1>6. QED
  BY <1>3, <1>5

(* A token that makes nothing new, but puts a value somewhere.             *)
LEMMA PutStep ==
  ASSUME LInv, NEW v \in 0 .. Len(heap), NEW graph, NEW stack, NEW given, NEW noted,
         SafeHeap(graph), Len(graph) = Len(heap), SafeFrames(stack, Len(heap)),
         Put(v, graph, stack, given, noted), SafeIds(ids', Len(heap))
  PROVE  LInv'
<1>1. /\ SafeHeap(heap') /\ Len(heap') = Len(graph)
      /\ SafeFrames(frames', Len(graph))
  BY PutSafe
<1>2. QED
  BY <1>1 DEF LInv

(* The tokens of one value: a scalar, or an entity that has an id.         *)
LEMMA ReadSafe == LInv /\ (ReadScalar \/ ReadBackReference) => LInv'
<1> SUFFICES ASSUME LInv, ReadScalar \/ ReadBackReference PROVE LInv'
  OBVIOUS
<1>1. SafeHeap(heap) /\ SafeIds(ids, Len(heap)) /\ SafeFrames(frames, Len(heap))
  BY DEF LInv
<1>2. Len(heap) \in Nat
  BY <1>1 DEF SafeHeap
<1>3. CASE ReadScalar
  <2>1. None \in 0 .. Len(heap) /\ SafeIds(ids', Len(heap))
    BY <1>1, <1>2, <1>3 DEF ReadScalar, None
  <2>2. Put(None, heap, frames, <<>>, FALSE)
    BY <1>3 DEF ReadScalar
  <2>3. QED
    BY <1>1, <2>1, <2>2, PutStep
<1>4. CASE ReadBackReference
  <2>1. PICK i \in DOMAIN ids :
          LET e == ids[i].entity
              stack == IF heap[e].kind = "reference" THEN SawReference(frames) ELSE frames
          IN Put(e, heap, stack, <<>>, FALSE)
    BY <1>4 DEF ReadBackReference
  <2> DEFINE e == ids[i].entity
             stack == IF heap[e].kind = "reference" THEN SawReference(frames) ELSE frames
  <2>2. e \in 0 .. Len(heap)
    <3>1. ids \in Seq([entity : 1 .. Len(heap), pinned : BOOLEAN])
      BY <1>1 DEF SafeIds
    <3>2. ids[i] \in [entity : 1 .. Len(heap), pinned : BOOLEAN]
      BY <2>1, <3>1, LenProperties
    <3>3. QED
      BY <1>2, <3>2
  <2>3. SafeFrames(stack, Len(heap))
    BY <1>1, <1>2, Seen
  <2>4. Put(e, heap, stack, <<>>, FALSE)
    BY <2>1
  <2>5. SafeIds(ids', Len(heap))
    BY <1>1, <1>4 DEF ReadBackReference
  <2> HIDE DEF e, stack
  <2>6. QED
    BY <1>1, <2>2, <2>3, <2>4, <2>5, PutStep
<1>5. QED
  BY <1>3, <1>4

(* The tokens that make an entity and open its frame.                      *)
LEMMA BeginSafe ==
  ASSUME LInv, \/ \E class \in Classes : BeginObject(class)
               \/ BeginReference \/ BeginArray
  PROVE  LInv'
<1>1. SafeHeap(heap) /\ SafeIds(ids, Len(heap)) /\ SafeFrames(frames, Len(heap))
  BY DEF LInv
<1>2. /\ Len(heap) \in Nat /\ fresh \in Nat /\ Len(heap) <= fresh
      /\ fresh \in 1 .. fresh
  BY <1>1 DEF SafeHeap, fresh
<1>3. SafeIds(ids, fresh) /\ SafeFrames(frames, fresh) /\ SafeFrames(SawReference(frames), fresh)
  BY <1>1, <1>2, Grow, Seen
<1>4. ASSUME NEW kind \in {"object", "reference", "array"},
             NEW class \in Classes \cup {NoClass}, heap' = Create(kind, class),
             SafeIds(ids', fresh), SafeFrames(frames', fresh)
      PROVE  LInv'
  <2>1. SafeHeap(heap') /\ Len(heap') = fresh
    BY <1>1, <1>4, CreateSafe
  <2>2. QED
    BY <1>4, <2>1 DEF LInv
<1>5. ASSUME NEW class \in Classes, BeginObject(class)
      PROVE  LInv'
  <2>1. heap' = Create("object", class) /\ Register(fresh, "object")
    BY <1>5 DEF BeginObject
  <2>2. PICK what \in ContentsOf(class) : frames' = Append(frames, Frame(what, fresh))
    BY <1>5 DEF BeginObject
  <2>3. what \in {"props", "hooked", "skip"}
    BY <2>2 DEF ContentsOf
  <2>4. SafeIds(ids', fresh) /\ SafeFrames(frames', fresh)
    BY <1>2, <1>3, <2>1, <2>2, <2>3, Registered, Pushed
  <2>5. QED
    BY <1>4, <2>1, <2>4
<1>6. CASE BeginReference
  <2>1. /\ heap' = Create("reference", NoClass) /\ Register(fresh, "reference")
        /\ frames' = Append(SawReference(frames), Frame("reference", fresh))
    BY <1>6 DEF BeginReference
  <2>2. SafeIds(ids', fresh) /\ SafeFrames(frames', fresh)
    BY <1>2, <1>3, <2>1, Registered, Pushed
  <2>3. QED
    BY <1>4, <2>1, <2>2
<1>7. CASE BeginArray
  <2>1. heap' = Create("array", NoClass) /\ ids' = ids
    BY <1>7 DEF BeginArray
  <2>2. PICK what \in {"array", "shared"} : frames' = Append(frames, Frame(what, fresh))
    BY <1>7 DEF BeginArray
  <2>3. SafeIds(ids', fresh) /\ SafeFrames(frames', fresh)
    BY <1>2, <1>3, <2>1, <2>2, Pushed
  <2>4. QED
    BY <1>4, <2>1, <2>3
<1>8. QED
  BY <1>5, <1>6, <1>7

(* The ends of values.                                                     *)
LEMMA EndSafe == LInv /\ (EndValue \/ EndHooked \/ EndApplied) => LInv'
<1> SUFFICES ASSUME LInv, EndValue \/ EndHooked \/ EndApplied PROVE LInv'
  OBVIOUS
<1>1. SafeHeap(heap) /\ SafeIds(ids, Len(heap)) /\ SafeFrames(frames, Len(heap))
  BY DEF LInv
<1>2. Len(heap) \in Nat
  BY <1>1 DEF SafeHeap
<1>3. frames # <<>>
  BY DEF EndValue, EndHooked, EndApplied
<1>4. /\ SafeFrames(Outer(frames), Len(heap))
      /\ top.entity \in 1 .. Len(heap) /\ top.data \in 0 .. Len(heap)
  BY <1>1, <1>2, <1>3, Stacked
<1>5. top.entity \in 0 .. Len(heap)
  BY <1>2, <1>4
<1>6. CASE EndValue
  <2>1. Register(top.entity, "array") \/ ids' = ids
    BY <1>6 DEF EndValue
  <2>2. SafeIds(ids', Len(heap))
    BY <1>1, <1>2, <1>4, <2>1, Registered
  <2>3. Put(top.entity, heap, Outer(frames), <<>>, FALSE)
    BY <1>6 DEF EndValue
  <2>4. QED
    BY <1>1, <1>4, <1>5, <2>2, <2>3, PutStep
<1>7. CASE EndHooked
  <2>1. SafeIds(ids', Len(heap)) /\ Put(top.entity, heap, Outer(frames), <<>>, FALSE)
    BY <1>1, <1>7 DEF EndHooked
  <2>2. QED
    BY <1>1, <1>4, <1>5, <2>1, PutStep
<1>8. CASE EndApplied
  <2> DEFINE e == top.entity
             s == heap[top.data].slots
             r == [heap[e] EXCEPT !.slots = s]
             g == [heap EXCEPT ![e].slots = s]
  <2>1. top.data \in 1 .. Len(heap)
    BY <1>2, <1>4, <1>8 DEF EndApplied, None
  <2>2. /\ heap[e] \in Entity /\ Guarded(heap[e])
        /\ heap[top.data] \in Entity
    BY <1>1, <1>4, <2>1, LenProperties DEF SafeHeap
  <2>3. s \in [Slots -> Nat]
    BY <2>2 DEF Entity
  <2>4. SafeIds(ids', Len(heap)) /\ Put(e, g, Outer(frames), <<top.data>>, NotesData(top.data))
    BY <1>1, <1>8 DEF EndApplied
  <2> HIDE DEF s
  <2>5. r \in Entity /\ Guarded(r)
    BY <2>2, <2>3, NewSlots
  <2>6. g = [heap EXCEPT ![e] = r]
    OBVIOUS
  <2> HIDE DEF r
  <2>7. SafeHeap([heap EXCEPT ![e] = r]) /\ Len([heap EXCEPT ![e] = r]) = Len(heap)
    BY <1>1, <2>5, Replace
  <2> HIDE DEF g
  <2>8. SafeHeap(g) /\ Len(g) = Len(heap)
    BY <2>6, <2>7
  <2>9. QED
    BY <1>4, <1>5, <2>4, <2>8, PutStep
<1>9. QED
  BY <1>6, <1>7, <1>8

(* An object that its class's own unserialize makes: it is made and filled *)
(* at once.                                                                *)
LEMMA LegacySafe ==
  ASSUME LInv, NEW class \in Classes, ReadLegacy(class)
  PROVE  LInv'
<1>1. SafeHeap(heap) /\ SafeIds(ids, Len(heap)) /\ SafeFrames(frames, Len(heap))
  BY DEF LInv
<1>2. /\ Len(heap) \in Nat /\ fresh \in Nat /\ Len(heap) <= fresh
      /\ fresh \in 1 .. fresh /\ fresh \in 0 .. fresh
  BY <1>1 DEF SafeHeap, fresh
<1>3. SafeIds(ids, fresh) /\ SafeFrames(frames, fresh)
  BY <1>1, <1>2, Grow
<1>4. PICK v \in Reach(user) \cup {fresh, None} :
        Put(fresh, Write(Create("object", class), fresh, 1, v), frames, <<>>, TRUE)
  BY DEF ReadLegacy
<1>5. v \in Nat
  <2>1. Entities \subseteq Nat
    BY <1>1, LenProperties DEF SafeHeap, Entities
  <2>2. Reach(user) \subseteq Entities
    BY DEF Reach
  <2>3. v \in Reach(user) \cup {fresh, None}
    BY <1>4
  <2>4. None \in Nat
    BY DEF None
  <2> QED
    BY <1>2, <2>1, <2>2, <2>3, <2>4
<1>6. SafeHeap(Create("object", class)) /\ Len(Create("object", class)) = fresh
  BY <1>1, CreateSafe
<1> DEFINE graph == Write(Create("object", class), fresh, 1, v)
<1>7. SafeHeap(graph) /\ Len(graph) = fresh
  BY <1>5, <1>6, SlotWrite
<1>8. Put(fresh, graph, frames, <<>>, TRUE)
  BY <1>4
<1> HIDE DEF graph
<1>9. SafeHeap(heap') /\ Len(heap') = fresh /\ SafeFrames(frames', fresh)
  <2>1. SafeFrames(frames, Len(graph)) /\ fresh \in 0 .. Len(graph)
    BY <1>2, <1>3, <1>7
  <2>2. /\ SafeHeap(heap') /\ Len(heap') = Len(graph)
        /\ SafeFrames(frames', Len(graph))
    BY <1>7, <1>8, <2>1, PutSafe
  <2>3. QED
    BY <1>7, <2>2
<1>10. SafeIds(ids', fresh)
  BY <1>2, <1>3, Registered DEF ReadLegacy
<1>11. QED
  BY <1>9, <1>10 DEF LInv

(* What a hook does to the properties of objects.                          *)
LEMMA AssignSafe == LInv /\ Assign => LInv'
<1> SUFFICES ASSUME LInv, Assign PROVE LInv'
  OBVIOUS
<1>1. SafeHeap(heap)
  BY DEF LInv
<1>2. PICK e \in Visible, k \in Slots, v \in Visible \cup {None} : heap' = Write(heap, e, k, v)
  BY DEF Assign
<1>3. v \in Nat
  <2>1. Entities \subseteq Nat
    BY <1>1, LenProperties DEF SafeHeap, Entities
  <2>2. Visible \subseteq Entities
    BY DEF Visible, Reach
  <2>3. QED
    BY <1>2, <2>1, <2>2 DEF None
<1>4. SafeHeap(heap') /\ Len(heap') = Len(heap)
  BY <1>1, <1>2, <1>3, SlotWrite
<1>5. UNCHANGED <<ids, frames>>
  BY DEF Assign, Statement
<1>6. QED
  BY <1>4, <1>5, SameTables

(* The end of a hook: only one that did not throw clears its object's flag.*)
LEMMA HookSafe == LInv /\ HookReturns => LInv'
<1> SUFFICES ASSUME LInv, HookReturns PROVE LInv'
  OBVIOUS
<1>1. SafeHeap(heap)
  BY DEF LInv
<1>2. PICK threw \in {exception, TRUE} :
        LET object == heap[called.object]
        IN heap' = [heap EXCEPT ![called.object] =
             [object EXCEPT !.flagged = (object.flagged /\ ~ ClearsFlag(threw)),
                            !.hooked = (object.hooked \/ ~ threw)]]
  BY DEF HookReturns
<1> DEFINE e == called.object
           r == [heap[e] EXCEPT !.flagged = (heap[e].flagged /\ ~ ClearsFlag(threw)),
                                !.hooked = (heap[e].hooked \/ ~ threw)]
<1>3. e \in DOMAIN heap => heap[e] \in Entity /\ Guarded(heap[e])
  BY <1>1, LenProperties DEF SafeHeap
<1>4. e \in DOMAIN heap => r \in Entity /\ Guarded(r)
  BY <1>3, HookOver
<1>5. heap' = [heap EXCEPT ![e] = r]
  BY <1>2
<1> HIDE DEF r
<1>6. SafeHeap([heap EXCEPT ![e] = r]) /\ Len([heap EXCEPT ![e] = r]) = Len(heap)
  BY <1>1, <1>4, Replace
<1>7. SafeHeap(heap') /\ Len(heap') = Len(heap)
  BY <1>5, <1>6
<1>8. UNCHANGED <<ids, frames>>
  BY DEF HookReturns
<1>9. QED
  BY <1>7, <1>8, SameTables

(* Steps of the release and of the program that touch no record.           *)
LEMMA EmptySafe ==
  ASSUME LInv, heap' = heap, ids' = <<>>, frames' = frames \/ frames' = <<>>
  PROVE  LInv'
<1>1. SafeIds(<<>>, Len(heap)) /\ SafeFrames(<<>>, Len(heap))
  BY SeqDef DEF SafeIds, SafeFrames
<1>2. QED
  BY <1>1 DEF LInv

(* Giving up references and collecting.                                    *)
LEMMA ReleaseSafe ==
  ASSUME LInv, \/ CallDestructor \/ CollectDestructor \/ FreeLast \/ Collect
  PROVE  LInv'
<1>1. SafeHeap(heap)
  BY DEF LInv
<1>2. UNCHANGED <<ids, frames>>
  BY DEF CallDestructor, CollectDestructor, FreeLast, Collect
<1>3. SafeHeap(heap') /\ Len(heap') = Len(heap)
  <2>1. CASE CallDestructor
    BY <2>1, DestructSafe DEF CallDestructor
  <2>2. CASE CollectDestructor
    BY <2>2, DestructSafe DEF CollectDestructor
  <2>3. CASE FreeLast
    BY <1>1, <2>3, FreeSafe DEF FreeLast
  <2>4. CASE Collect
    BY <1>1, <2>4, FreeSafe DEF Collect
  <2>5. QED
    BY <2>1, <2>2, <2>3, <2>4
<1>4. QED
  BY <1>2, <1>3, SameTables

LEMMA StepSafe == LInv /\ [Next]_vars => LInv'
<1> SUFFICES ASSUME LInv, [Next]_vars PROVE LInv'
  OBVIOUS
<1>1. CASE CallDestructor \/ CollectDestructor \/ FreeLast \/ Collect
  BY <1>1, ReleaseSafe
<1>2. CASE ReadScalar \/ ReadBackReference
  BY <1>2, ReadSafe
<1>3. CASE (\E class \in Classes : BeginObject(class)) \/ BeginReference \/ BeginArray
  BY <1>3, BeginSafe
<1>4. CASE EndValue \/ EndHooked \/ EndApplied
  BY <1>4, EndSafe
<1>5. CASE \E class \in Classes : ReadLegacy(class)
  BY <1>5, LegacySafe
<1>6. CASE Assign
  BY <1>6, AssignSafe
<1>7. CASE HookReturns
  BY <1>7, HookSafe
<1>8. CASE Fail \/ Refuse \/ HooksDone
  <2>1. heap' = heap /\ ids' = <<>> /\ (frames' = frames \/ frames' = <<>>)
    BY <1>8 DEF Fail, Refuse, HooksDone, Abandon, Destroy
  <2>2. QED
    BY <2>1, EmptySafe
<1>9. CASE \/ Survives \/ StartHooks \/ CallHook \/ Keep \/ Forget
           \/ Unwrap \/ Return \/ Discard
  <2>1. UNCHANGED <<heap, ids, frames>>
    BY <1>9 DEF Survives, StartHooks, CallHook, Keep, Forget, Statement, Unwrap, Return,
                Discard, graphVars
  <2>2. QED
    BY <2>1, Idle
<1>10. CASE UNCHANGED vars
  BY <1>10, Idle DEF vars
<1>11. QED
  BY <1>1, <1>2, <1>3, <1>4, <1>5, <1>6, <1>7, <1>8, <1>9, <1>10 DEF Next

(* The records of the entities, the ids and the frames are what the walk,  *)
(* the hooks, destructors and the collector may make of them.              *)
THEOREM LifetimeInvariant == Spec => []LInv
<1>1. QED
  BY InitSafe, StepSafe, PTL DEF Spec

(* An object whose class has a hook is not destructed unless its own hook  *)
(* ran to its end.                                                         *)
THEOREM HookBeforeDestructor == Spec => []NoDestructorBeforeHook
<1>1. LInv => NoDestructorBeforeHook
  BY DEF LInv, SafeHeap, Guarded, NoDestructorBeforeHook, Entities
<1>2. QED
  BY <1>1, LifetimeInvariant, PTL

----------------------------------------------------------------------------
(* Sequences of values.                                                    *)

(* Induction, for a set of numbers.                                        *)
LEMMA Induction ==
  ASSUME NEW T \in SUBSET Nat, 0 \in T, \A n \in T : n + 1 \in T
  PROVE  \A n \in Nat : n \in T
<1> DEFINE R == {ss \in Nat \X Nat : ss[1] < ss[2]}
           S == {n \in Nat : n \notin T}
<1>1. IsWellFoundedOn(R, Nat)
  BY NatLessThanWellFounded DEF OpToRel
<1>2. SUFFICES ASSUME S # {} PROVE FALSE
  OBVIOUS
<1> HIDE DEF R
<1>3. PICK m \in S : \A y \in S : ~ (<<y, m>> \in R)
  BY <1>1, <1>2, WFMin
<1>4. m - 1 \in Nat
  BY <1>3
<1>5. <<m - 1, m>> \in R
  BY <1>3, <1>4 DEF R
<1> QED
  BY <1>3, <1>4, <1>5

(* The recursion of Present has a solution.                                *)
LEMMA KeptExists ==
  ASSUME NEW seq
  PROVE  \A n \in Nat : \E f : f = [i \in 0 .. n |->
           IF i = 0 THEN <<>>
           ELSE IF seq[i] = None THEN f[i - 1] ELSE Append(f[i - 1], seq[i])]
<1> DEFINE Step(f, i) == IF i = 0 THEN <<>>
               ELSE IF seq[i] = None THEN f[i - 1] ELSE Append(f[i - 1], seq[i])
           T == {n \in Nat : \E f : f = [i \in 0 .. n |-> Step(f, i)]}
<1>1. 0 \in T
  <2>1. [i \in 0 .. 0 |-> <<>>] = [i \in 0 .. 0 |-> Step([j \in 0 .. 0 |-> <<>>], i)]
    OBVIOUS
  <2> QED
    BY <2>1
<1>2. ASSUME NEW n \in T PROVE n + 1 \in T
  <2>1. PICK f : f = [i \in 0 .. n |-> Step(f, i)]
    OBVIOUS
  <2> DEFINE g == [i \in 0 .. n + 1 |-> IF i = n + 1 THEN Step(f, i) ELSE f[i]]
  <2>2. \A i \in 0 .. n : f[i] = Step(f, i)
    BY <2>1
  <2>3. \A i \in 0 .. n + 1 : g[i] = Step(g, i)
    BY <2>2
  <2>4. g = [i \in 0 .. n + 1 |-> Step(g, i)]
    <3> HIDE DEF Step
    <3> QED
      BY <2>3
  <2>5. n + 1 \in Nat
    OBVIOUS
  <2> HIDE DEF Step, g
  <2> QED
    BY <2>4, <2>5
<1>3. T \in SUBSET Nat
  OBVIOUS
<1> HIDE DEF T
<1>4. \A n \in Nat : n \in T
  BY <1>1, <1>2, <1>3, Induction
<1> QED
  BY <1>4 DEF T

(* Present has the values that are not None, and nothing else.             *)
LEMMA PresentValues ==
  ASSUME NEW S, NEW seq \in Seq(S)
  PROVE  /\ Present(seq) \in Seq(S \ {None})
         /\ \A e : (\E i \in DOMAIN Present(seq) : Present(seq)[i] = e)
                     <=> (e # None /\ \E i \in DOMAIN seq : seq[i] = e)
<1> DEFINE F(f) == f = [i \in 0 .. Len(seq) |->
             IF i = 0 THEN <<>>
             ELSE IF seq[i] = None THEN f[i - 1] ELSE Append(f[i - 1], seq[i])]
           kept == CHOOSE f : F(f)
           Has(s, e) == \E i \in 1 .. Len(s) : s[i] = e
           Good(n) == /\ kept[n] \in Seq(S \ {None})
                      /\ \A e : Has(kept[n], e)
                                  <=> (e # None /\ \E i \in 1 .. n : seq[i] = e)
           T == {n \in Nat : n <= Len(seq) => Good(n)}
<1>0. Len(seq) \in Nat /\ DOMAIN seq = 1 .. Len(seq) /\ \A i \in 1 .. Len(seq) : seq[i] \in S
  BY LenProperties, ElementOfSeq
<1>1. F(kept)
  <2>1. \E f : F(f)
    BY <1>0, KeptExists
  <2> HIDE DEF F
  <2> QED
    BY <2>1
<1>2. Present(seq) = kept[Len(seq)]
  BY DEF Present
<1>a. \A i \in 0 .. Len(seq) : kept[i] =
        IF i = 0 THEN <<>>
        ELSE IF seq[i] = None THEN kept[i - 1] ELSE Append(kept[i - 1], seq[i])
  <2> HIDE DEF kept
  <2> QED
    BY <1>1
<1> HIDE DEF F, kept
<1>b. kept[0] = <<>>
  BY <1>0, <1>a
<1>3. \A i \in 1 .. Len(seq) :
        kept[i] = IF seq[i] = None THEN kept[i - 1] ELSE Append(kept[i - 1], seq[i])
  <2> SUFFICES ASSUME NEW i \in 1 .. Len(seq)
               PROVE  kept[i] = IF seq[i] = None THEN kept[i - 1]
                                ELSE Append(kept[i - 1], seq[i])
    OBVIOUS
  <2>1. i \in 0 .. Len(seq) /\ i # 0
    BY <1>0
  <2> QED
    BY <1>a, <2>1
<1>4. 0 \in T
  <2>1. kept[0] \in Seq(S \ {None})
    BY <1>b
  <2>2. \A e : ~ Has(kept[0], e)
    BY <1>b
  <2>3. \A e : ~ \E i \in 1 .. 0 : seq[i] = e
    OBVIOUS
  <2> HIDE DEF Has
  <2>4. Good(0)
    BY <2>1, <2>2, <2>3
  <2> HIDE DEF Good
  <2> QED
    BY <2>4
<1>5. ASSUME NEW n \in T PROVE n + 1 \in T
  <2> SUFFICES ASSUME n + 1 <= Len(seq) PROVE Good(n + 1)
    OBVIOUS
  <2>1. Good(n) /\ n + 1 \in 1 .. Len(seq) /\ n \in Nat /\ (n + 1) - 1 = n
    BY <1>0
  <2>2. seq[n + 1] \in S
    BY <1>0, <2>1
  <2>3. CASE seq[n + 1] = None
    <3>1. kept[n + 1] = kept[n]
      BY <1>3, <2>1, <2>3
    <3>2. ASSUME NEW e
          PROVE  (e # None /\ \E i \in 1 .. n : seq[i] = e)
                   <=> (e # None /\ \E i \in 1 .. n + 1 : seq[i] = e)
      BY <2>1, <2>3
    <3> HIDE DEF Has
    <3> QED
      BY <2>1, <3>1, <3>2
  <2>4. CASE seq[n + 1] # None
    <3> DEFINE q == kept[n]
               v == seq[n + 1]
    <3>1. kept[n + 1] = Append(q, v)
      BY <1>3, <2>1, <2>4
    <3>2. q \in Seq(S \ {None}) /\ v \in S \ {None}
      BY <2>1, <2>2, <2>4
    <3>3. ASSUME NEW e
          PROVE  (\E i \in 1 .. n + 1 : seq[i] = e) <=> (\E i \in 1 .. n : seq[i] = e) \/ e = v
      BY <2>1
    <3>4. \A e : Has(q, e) <=> (e # None /\ \E i \in 1 .. n : seq[i] = e)
      BY <2>1
    <3> HIDE DEF q, v
    <3>5. Append(q, v) \in Seq(S \ {None}) /\ \A e : Has(Append(q, v), e) <=> Has(q, e) \/ e = v
      <4>1. /\ Append(q, v) \in Seq(S \ {None}) /\ Len(Append(q, v)) = Len(q) + 1
            /\ Len(q) \in Nat
            /\ \A i \in 1 .. Len(q) : Append(q, v)[i] = q[i]
            /\ Append(q, v)[Len(q) + 1] = v
        BY <3>2, AppendProperties, LenProperties
      <4> QED
        BY <4>1
    <3> HIDE DEF Has
    <3> QED
      BY <3>1, <3>2, <3>3, <3>4, <3>5
  <2> QED
    BY <2>3, <2>4
<1>6. Good(Len(seq))
  <2>1. T \in SUBSET Nat
    OBVIOUS
  <2> HIDE DEF T
  <2>2. Len(seq) \in T
    BY <1>0, <1>4, <1>5, <2>1, Induction
  <2> QED
    BY <1>0, <2>2 DEF T
<1>7. DOMAIN Present(seq) = 1 .. Len(Present(seq))
  BY <1>2, <1>6, LenProperties
<1> QED
  BY <1>0, <1>2, <1>6, <1>7

----------------------------------------------------------------------------
(* What the state holds, for any heap, queue, frames and references on     *)
(* their way out.                                                          *)
In(seq, e) == \E i \in DOMAIN seq : seq[i] = e
Dropping(seq, e) == \E i \in DOMAIN seq : seq[i].entity = e
InFrames(stack, e) == \E i \in DOMAIN stack : stack[i].entity = e \/ stack[i].data = e
Queued(queue, e) == \E i \in DOMAIN queue : queue[i].object = e \/ queue[i].data = e
Identified(entries, e) == \E i \in DOMAIN entries : entries[i].entity = e
HeldIn(h, e) == \E x \in DOMAIN h, k \in Slots : h[x].slots[k] = e

Within(h) == \A x \in DOMAIN h, k \in Slots : h[x].slots[k] \in 0 .. Len(h)
SafeQueue(queue, n) == queue \in Seq([object : 1 .. n, data : 0 .. n])
SafeDrops(seq, n) == seq \in Seq([entity : 1 .. n, rooted : BOOLEAN, pin : BOOLEAN])

(* Everything in hand is an entity that was made.                          *)
HandInv ==
  /\ Within(heap) /\ Len(heap) <= MaxEntities
  /\ SafeQueue(deferred, Len(heap)) /\ SafeDrops(drops, Len(heap))
  /\ result \in 0 .. Len(heap)
  /\ user \subseteq 1 .. Len(heap) /\ buffer \subseteq 1 .. Len(heap)

(* What is dropped is what of the values has a reference count.            *)
LEMMA DropAllSafe ==
  ASSUME NEW n \in Nat, NEW seq \in Seq(0 .. n)
  PROVE  /\ SafeDrops(DropAll(seq), n)
         /\ \A e : Dropping(DropAll(seq), e) <=> e # None /\ In(seq, e)
         /\ \A i \in DOMAIN DropAll(seq) :
              DropAll(seq)[i].rooted /\ ~ DropAll(seq)[i].pin
<1> DEFINE p == Present(seq)
           d == DropAll(seq)
<1>1. p \in Seq((0 .. n) \ {None}) /\ \A e : (\E i \in DOMAIN p : p[i] = e) <=> (e # None /\ In(seq, e))
  BY PresentValues DEF In
<1>2. p \in Seq(1 .. n)
  <2>1. (0 .. n) \ {None} = 1 .. n
    BY DEF None
  <2> QED
    BY <1>1, <2>1
<1>3. d = [i \in DOMAIN p |-> Drop(p[i], TRUE)]
  BY DEF DropAll, Dropped
<1> HIDE DEF p, d
<1>4. Len(p) \in Nat /\ DOMAIN p = 1 .. Len(p) /\ \A i \in 1 .. Len(p) : p[i] \in 1 .. n
  BY <1>2, LenProperties, ElementOfSeq
<1>5. \A i \in 1 .. Len(p) : d[i] = [entity |-> p[i], rooted |-> TRUE, pin |-> FALSE]
  BY <1>3, <1>4 DEF Drop
<1> DEFINE D == [entity : 1 .. n, rooted : BOOLEAN, pin : BOOLEAN]
<1>6. d \in [1 .. Len(p) -> D]
  BY <1>3, <1>4, <1>5 DEF Drop
<1> HIDE DEF D
<1>7. SafeDrops(d, n) /\ DOMAIN d = 1 .. Len(p)
  <2>1. d \in Seq(D) /\ DOMAIN d = 1 .. Len(p)
    BY <1>4, <1>6, SeqDef
  <2> QED
    BY <2>1 DEF SafeDrops, D
<1>8. \A e : Dropping(d, e) <=> (\E i \in DOMAIN p : p[i] = e)
  BY <1>4, <1>5, <1>7 DEF Dropping
<1>9. \A i \in DOMAIN d : d[i].rooted /\ ~ d[i].pin
  BY <1>5, <1>7
<1> QED
  BY <1>1, <1>7, <1>8, <1>9 DEF d

(* Two queues of references on their way out, one after the other.         *)
LEMMA DropsJoin ==
  ASSUME NEW n \in Nat, NEW s, NEW t, SafeDrops(s, n), SafeDrops(t, n)
  PROVE  /\ SafeDrops(s \o t, n)
         /\ \A e : Dropping(s \o t, e) <=> Dropping(s, e) \/ Dropping(t, e)
         /\ \A i \in DOMAIN (s \o t) : \/ \E j \in DOMAIN s : (s \o t)[i] = s[j]
                                       \/ \E j \in DOMAIN t : (s \o t)[i] = t[j]
<1> DEFINE D == [entity : 1 .. n, rooted : BOOLEAN, pin : BOOLEAN]
           r == s \o t
<1>1. s \in Seq(D) /\ t \in Seq(D)
  BY DEF SafeDrops
<1> HIDE DEF D
<1>2. /\ Len(s) \in Nat /\ Len(t) \in Nat
      /\ DOMAIN s = 1 .. Len(s) /\ DOMAIN t = 1 .. Len(t)
  BY <1>1, LenProperties
<1>3. /\ r \in Seq(D) /\ Len(r) = Len(s) + Len(t)
      /\ \A i \in 1 .. Len(s) + Len(t) : r[i] = IF i <= Len(s) THEN s[i] ELSE t[i - Len(s)]
  BY <1>1, ConcatProperties
<1>4. DOMAIN r = 1 .. Len(s) + Len(t)
  BY <1>3, LenProperties
<1> HIDE DEF r
<1>5. \A i \in DOMAIN s : i \in DOMAIN r /\ r[i] = s[i]
  BY <1>2, <1>3, <1>4
<1>6. \A i \in DOMAIN t : i + Len(s) \in DOMAIN r /\ r[i + Len(s)] = t[i]
  BY <1>2, <1>3, <1>4
<1>7. \A i \in DOMAIN r : (i \in DOMAIN s /\ r[i] = s[i]) \/ (i - Len(s) \in DOMAIN t /\ r[i] = t[i - Len(s)])
  BY <1>2, <1>3, <1>4
<1>8. \A e : Dropping(r, e) <=> Dropping(s, e) \/ Dropping(t, e)
  BY <1>5, <1>6, <1>7 DEF Dropping
<1>9. SafeDrops(r, n)
  BY <1>3 DEF D, SafeDrops
<1> QED
  BY <1>7, <1>8, <1>9 DEF r

(* Values one after the other.                                             *)
LEMMA ValuesJoin ==
  ASSUME NEW S, NEW s \in Seq(S), NEW t \in Seq(S)
  PROVE  /\ s \o t \in Seq(S)
         /\ \A e : In(s \o t, e) <=> In(s, e) \/ In(t, e)
<1> DEFINE r == s \o t
<1>2. /\ Len(s) \in Nat /\ Len(t) \in Nat
      /\ DOMAIN s = 1 .. Len(s) /\ DOMAIN t = 1 .. Len(t)
  BY LenProperties
<1>3. /\ r \in Seq(S) /\ Len(r) = Len(s) + Len(t)
      /\ \A i \in 1 .. Len(s) + Len(t) : r[i] = IF i <= Len(s) THEN s[i] ELSE t[i - Len(s)]
  BY ConcatProperties
<1>4. DOMAIN r = 1 .. Len(s) + Len(t)
  BY <1>3, LenProperties
<1> HIDE DEF r
<1>5. \A i \in DOMAIN s : i \in DOMAIN r /\ r[i] = s[i]
  BY <1>2, <1>3, <1>4
<1>6. \A i \in DOMAIN t : i + Len(s) \in DOMAIN r /\ r[i + Len(s)] = t[i]
  BY <1>2, <1>3, <1>4
<1>7. \A i \in DOMAIN r : (i \in DOMAIN s /\ r[i] = s[i]) \/ (i - Len(s) \in DOMAIN t /\ r[i] = t[i - Len(s)])
  BY <1>2, <1>3, <1>4
<1>8. \A e : In(r, e) <=> In(s, e) \/ In(t, e)
  BY <1>5, <1>6, <1>7 DEF In
<1> QED
  BY <1>3, <1>8 DEF r

LEMMA OneValue ==
  ASSUME NEW v
  PROVE  <<v>> \in Seq({v}) /\ \A e : In(<<v>>, e) <=> e = v
BY DEF In

LEMMA NoValue ==
  ASSUME NEW S
  PROVE  <<>> \in Seq(S) /\ \A e : ~ In(<<>>, e) /\ ~ Dropping(<<>>, e)
BY DEF In, Dropping

(* Writing a slot changes that slot and nothing else.                      *)
Wrote(w, h, e, k, v) ==
  /\ DOMAIN w = DOMAIN h
  /\ \A x \in DOMAIN h :
       /\ x # e => w[x] = h[x]
       /\ w[x].alive = h[x].alive
       /\ w[x].kind = h[x].kind
       /\ w[x].class = h[x].class
       /\ \A j \in Slots : w[x].slots[j] = IF x = e /\ j = k THEN v ELSE h[x].slots[j]

LEMMA WriteOne ==
  ASSUME NEW h, SafeHeap(h), NEW e \in DOMAIN h, NEW k \in Slots, NEW v \in Nat
  PROVE  Wrote(Write(h, e, k, v), h, e, k, v)
<1> DEFINE s == [h[e].slots EXCEPT ![k] = v]
           r == [h[e] EXCEPT !.slots = s]
           w == Write(h, e, k, v)
<1>1. h[e] \in Entity /\ h[e].slots \in [Slots -> Nat]
  <2>1. h[e] \in Entity
    BY LenProperties, ElementOfSeq DEF SafeHeap
  <2> QED
    BY <2>1 DEF Entity
<1>2. w = [h EXCEPT ![e] = r]
  BY DEF Write
<1>3. \A j \in Slots : s[j] = IF j = k THEN v ELSE h[e].slots[j]
  BY <1>1
<1>4. s \in [Slots -> Nat]
  BY <1>1
<1> HIDE DEF s
<1>5. r.slots = s /\ r.alive = h[e].alive /\ r.kind = h[e].kind /\ r.class = h[e].class
  <2>1. r = [kind |-> h[e].kind, class |-> h[e].class, slots |-> s, alive |-> h[e].alive,
             flagged |-> h[e].flagged, hooked |-> h[e].hooked, destroyed |-> h[e].destroyed]
    BY <1>1 DEF Entity
  <2> QED
    BY <2>1
<1> HIDE DEF r
<1>6. DOMAIN w = DOMAIN h /\ w[e] = r /\ \A x \in DOMAIN h : x # e => w[x] = h[x]
  <2> HIDE DEF w
  <2>1. h = [x \in DOMAIN h |-> h[x]]
    BY LenProperties DEF SafeHeap
  <2> QED
    BY <1>2, <2>1
<1> HIDE DEF w
<1>7. Wrote(w, h, e, k, v)
  BY <1>3, <1>5, <1>6 DEF Wrote
<1> QED
  BY <1>7 DEF w

(* One frame is changed.                                                   *)
LEMMA FrameChange ==
  ASSUME NEW n \in Nat, NEW stack, SafeFrames(stack, n), NEW i \in DOMAIN stack, NEW g,
         g \in [what : {"props", "skip", "hooked", "reference", "referenced", "array", "shared"},
               entity : 1 .. n, data : 0 .. n, sawRef : BOOLEAN]
  PROVE  LET t == [stack EXCEPT ![i] = g]
         IN /\ SafeFrames(t, n) /\ DOMAIN t = DOMAIN stack /\ Len(t) = Len(stack)
            /\ \A j \in DOMAIN stack : t[j] = IF j = i THEN g ELSE stack[j]
<1> DEFINE C ==
      [what : {"props", "skip", "hooked", "reference", "referenced", "array", "shared"},
       entity : 1 .. n, data : 0 .. n, sawRef : BOOLEAN]
           t == [stack EXCEPT ![i] = g]
<1>1. /\ stack \in [1 .. Len(stack) -> C] /\ Len(stack) \in Nat /\ DOMAIN stack = 1 .. Len(stack)
      /\ g \in C
  BY LenProperties DEF SafeFrames
<1> HIDE DEF C
<1>2. t \in [1 .. Len(stack) -> C] /\ \A j \in DOMAIN stack : t[j] = IF j = i THEN g ELSE stack[j]
  BY <1>1
<1>3. t \in Seq(C)
  BY <1>1, <1>2, SeqDef
<1>4. DOMAIN t = DOMAIN stack /\ Len(t) = Len(stack)
  BY <1>1, <1>2, <1>3, LenProperties
<1> QED
  BY <1>2, <1>3, <1>4 DEF SafeFrames, C

LEMMA FrameWhat ==
  ASSUME NEW n \in Nat, NEW f,
         NEW w \in {"props", "skip", "hooked", "reference", "referenced", "array", "shared"},
         f \in [what : {"props", "skip", "hooked", "reference", "referenced", "array", "shared"},
               entity : 1 .. n, data : 0 .. n, sawRef : BOOLEAN]
  PROVE  [f EXCEPT !.what = w]
           = [what |-> w, entity |-> f.entity, data |-> f.data, sawRef |-> f.sawRef]
OBVIOUS

(* The frames that are left when a value is put somewhere.                 *)
PutAs(stack) ==
  /\ (phase' = "walked" /\ frames' = <<>>) \/ phase' = phase
  /\ Len(frames') = Len(stack)
  /\ \A i \in DOMAIN stack : frames'[i].entity = stack[i].entity
  /\ orphan' \in BOOLEAN

(* Everything that a decoded value's step leaves somewhere was the value,  *)
(* what its call dropped, or held already; records keep all but slots.     *)
PutNames(v, graph, stack, given) ==
  /\ Within(heap') /\ SafeDrops(drops', Len(graph)) /\ result' \in 0 .. Len(graph)
  /\ \A e : /\ e # None
            /\ \/ HeldIn(heap', e) \/ InFrames(frames', e) \/ Dropping(drops', e)
               \/ result' = e
            => e = v \/ HeldIn(graph, e) \/ InFrames(stack, e) \/ In(given, e) \/ result = e
  /\ \A x \in DOMAIN graph :
       /\ heap'[x].alive = graph[x].alive /\ heap'[x].kind = graph[x].kind
       /\ heap'[x].class = graph[x].class
       /\ heap'[x].slots = graph[x].slots \/ InFrames(stack, x)
  /\ PutAs(stack)

LEMMA PutNamed ==
  ASSUME NEW v, NEW graph, NEW stack, NEW given, NEW noted,
         SafeHeap(graph), Within(graph), SafeFrames(stack, Len(graph)), v \in 0 .. Len(graph),
         given \in Seq(0 .. Len(graph)), result \in 0 .. Len(graph),
         Put(v, graph, stack, given, noted)
  PROVE  PutNames(v, graph, stack, given)
<1> DEFINE n == Len(graph)
<1>0. n \in Nat /\ DOMAIN graph = 1 .. n /\ v \in Nat
  BY LenProperties DEF SafeHeap
<1>a. orphan' \in BOOLEAN
  <2>1. CASE stack = <<>>
    BY <2>1 DEF Put
  <2>2. CASE stack # <<>>
    BY <2>2 DEF Put
  <2> QED
    BY <2>1, <2>2
<1>b. /\ SafeDrops(DropAll(given), n)
      /\ \A e : Dropping(DropAll(given), e) <=> e # None /\ In(given, e)
  BY <1>0, DropAllSafe
<1>1. CASE stack = <<>>
  <2>1. /\ heap' = graph /\ frames' = stack /\ result' = v /\ phase' = "walked"
        /\ drops' = DropAll(given)
    BY <1>1 DEF Put
  <2>2. QED
    BY <1>0, <1>1, <1>a, <1>b, <2>1 DEF PutNames, PutAs
<1>2. CASE stack # <<>>
  <2> DEFINE f == stack[Len(stack)]
             into == f.entity
             C ==
      [what : {"props", "skip", "hooked", "reference", "referenced", "array", "shared"},
       entity : 1 .. n, data : 0 .. n, sawRef : BOOLEAN]
  <2>c. Len(stack) \in 1 .. Len(stack) /\ DOMAIN stack = 1 .. Len(stack) /\ f \in C
    <3>1. stack \in Seq(C)
      BY DEF SafeFrames
    <3> HIDE DEF C
    <3> QED
      BY <1>2, <3>1, EmptySeq, LenProperties, ElementOfSeq
  <2>0. Len(stack) \in DOMAIN stack /\ into \in 1 .. n /\ DOMAIN stack = 1 .. Len(stack)
    BY <2>c
  <2>a. into \in DOMAIN graph /\ InFrames(stack, into)
    BY <1>0, <2>0 DEF InFrames
  <2>b. ASSUME NEW one \in 0 .. n
        PROVE  /\ SafeDrops(DropAll(given \o <<one>>), n)
               /\ \A e : Dropping(DropAll(given \o <<one>>), e)
                           <=> e # None /\ (In(given, e) \/ e = one)
    <3>1. <<one>> \in Seq(0 .. n)
      OBVIOUS
    <3>2. given \o <<one>> \in Seq(0 .. n)
          /\ \A e : In(given \o <<one>>, e) <=> In(given, e) \/ In(<<one>>, e)
      BY <3>1, ValuesJoin
    <3> QED
      BY <1>0, <3>2, DropAllSafe, OneValue
  <2>w. ASSUME NEW k \in Slots
        PROVE  LET w == Write(graph, into, k, v)
               IN /\ DOMAIN w = DOMAIN graph /\ Len(w) = n /\ Within(w)
                  /\ \A e : HeldIn(w, e) => HeldIn(graph, e) \/ e = v
                  /\ \A x \in DOMAIN graph :
                       /\ w[x].alive = graph[x].alive /\ w[x].kind = graph[x].kind
                       /\ w[x].class = graph[x].class
                       /\ w[x].slots = graph[x].slots \/ InFrames(stack, x)
    <3> DEFINE w == Write(graph, into, k, v)
    <3> HIDE DEF into
    <3>1. Len(w) = n
      BY <1>0, SlotWrite
    <3>2. Wrote(w, graph, into, k, v)
      BY <1>0, <2>a, WriteOne
    <3> HIDE DEF w
    <3>3. Within(w)
      BY <3>1, <3>2, <1>0 DEF Within, Wrote
    <3>4. \A e : HeldIn(w, e) => HeldIn(graph, e) \/ e = v
      BY <3>2 DEF HeldIn, Wrote
    <3>5. \A x \in DOMAIN graph :
            /\ w[x].alive = graph[x].alive /\ w[x].kind = graph[x].kind
            /\ w[x].class = graph[x].class
            /\ w[x].slots = graph[x].slots \/ InFrames(stack, x)
      BY <2>a, <3>2 DEF Wrote
    <3>6. QED
      BY <3>1, <3>2, <3>3, <3>4, <3>5 DEF w, Wrote
  <2>1. CASE \E k \in Slots : /\ heap' = Write(graph, into, k, v)
                              /\ drops' = DropAll(given \o <<graph[into].slots[k]>>)
                              /\ frames' = stack /\ UNCHANGED <<result, phase>>
    <3>1. PICK k \in Slots : /\ heap' = Write(graph, into, k, v)
                             /\ drops' = DropAll(given \o <<graph[into].slots[k]>>)
                             /\ frames' = stack /\ UNCHANGED <<result, phase>>
      BY <2>1
    <3> DEFINE one == graph[into].slots[k]
    <3>2. one \in 0 .. n /\ HeldIn(graph, one)
      BY <2>a DEF Within, HeldIn
    <3> HIDE DEF into, one
    <3>3. /\ SafeDrops(DropAll(given \o <<one>>), n)
          /\ \A e : Dropping(DropAll(given \o <<one>>), e)
                           <=> e # None /\ (In(given, e) \/ e = one)
      BY <2>b, <3>2
    <3>4. drops' = DropAll(given \o <<one>>)
      BY <3>1 DEF one
    <3>5. /\ SafeDrops(drops', n)
          /\ \A e : Dropping(drops', e) <=> e # None /\ (In(given, e) \/ e = one)
      BY <3>3, <3>4
    <3>6. /\ Within(heap')
          /\ \A e : HeldIn(heap', e) => HeldIn(graph, e) \/ e = v
          /\ \A x \in DOMAIN graph :
               /\ heap'[x].alive = graph[x].alive /\ heap'[x].kind = graph[x].kind
               /\ heap'[x].class = graph[x].class
               /\ heap'[x].slots = graph[x].slots \/ InFrames(stack, x)
      BY <2>w, <3>1
    <3> QED
      BY <1>a, <3>1, <3>2, <3>5, <3>6 DEF PutNames, PutAs
  <2>2. CASE /\ heap' = graph /\ drops' = DropAll(given \o <<v>>) /\ frames' = stack
             /\ UNCHANGED <<result, phase>>
    <3>1. /\ SafeDrops(drops', n)
          /\ \A e : Dropping(drops', e) <=> e # None /\ (In(given, e) \/ e = v)
      BY <2>2, <2>b
    <3> QED
      BY <1>a, <2>2, <3>1 DEF PutNames, PutAs
  <2>3. CASE /\ heap' = graph /\ drops' = DropAll(given)
             /\ frames' = [stack EXCEPT ![Len(stack)].data = v]
             /\ UNCHANGED <<result, phase>>
    <3>1. /\ DOMAIN frames' = DOMAIN stack /\ Len(frames') = Len(stack)
          /\ \A i \in DOMAIN stack : /\ frames'[i].entity = stack[i].entity
                                     /\ frames'[i].data = v \/ frames'[i].data = stack[i].data
      <4> DEFINE g == [f EXCEPT !.data = v]
      <4>1. g = [what |-> f.what, entity |-> f.entity, data |-> v, sawRef |-> f.sawRef]
        BY <1>0, <2>c
      <4>2. g \in C /\ g.entity = f.entity /\ g.data = v
        BY <1>0, <2>c, <4>1
      <4>3. frames' = [stack EXCEPT ![Len(stack)] = g]
        BY <2>3
      <4> HIDE DEF g
      <4>4. /\ DOMAIN frames' = DOMAIN stack /\ Len(frames') = Len(stack)
            /\ \A j \in DOMAIN stack : frames'[j] = IF j = Len(stack) THEN g ELSE stack[j]
        BY <1>0, <2>0, <4>2, <4>3, FrameChange
      <4> QED
        BY <4>2, <4>4
    <3>2. \A e : InFrames(frames', e) => e = v \/ InFrames(stack, e)
      BY <3>1 DEF InFrames
    <3> QED
      BY <1>a, <1>b, <2>3, <3>1, <3>2 DEF PutNames, PutAs
  <2>4. CASE /\ heap' = Write(graph, into, 1, v) /\ drops' = DropAll(given)
             /\ frames' = [stack EXCEPT ![Len(stack)].what = "referenced"]
             /\ UNCHANGED <<result, phase>>
    <3>1. /\ DOMAIN frames' = DOMAIN stack /\ Len(frames') = Len(stack)
          /\ \A i \in DOMAIN stack : /\ frames'[i].entity = stack[i].entity
                                     /\ frames'[i].data = stack[i].data
      <4> DEFINE g == [f EXCEPT !.what = "referenced"]
      <4>1. g = [what |-> "referenced", entity |-> f.entity, data |-> f.data,
                 sawRef |-> f.sawRef]
        BY <1>0, <2>c, FrameWhat
      <4>2. g \in C /\ g.entity = f.entity /\ g.data = f.data
        BY <1>0, <2>c, <4>1
      <4>3. frames' = [stack EXCEPT ![Len(stack)] = g]
        BY <2>4
      <4> HIDE DEF g
      <4>4. /\ DOMAIN frames' = DOMAIN stack /\ Len(frames') = Len(stack)
            /\ \A j \in DOMAIN stack : frames'[j] = IF j = Len(stack) THEN g ELSE stack[j]
        BY <1>0, <2>0, <4>2, <4>3, FrameChange
      <4> QED
        BY <4>2, <4>4
    <3>2. \A e : InFrames(frames', e) => InFrames(stack, e)
      BY <3>1 DEF InFrames
    <3>3. 1 \in Slots
      BY LifetimeAssumption DEF Slots
    <3>6. /\ Within(heap')
          /\ \A e : HeldIn(heap', e) => HeldIn(graph, e) \/ e = v
          /\ \A x \in DOMAIN graph :
               /\ heap'[x].alive = graph[x].alive /\ heap'[x].kind = graph[x].kind
               /\ heap'[x].class = graph[x].class
               /\ heap'[x].slots = graph[x].slots \/ InFrames(stack, x)
      <4> HIDE DEF into
      <4> QED
        BY <2>w, <2>4, <3>3
    <3> QED
      BY <1>a, <1>b, <2>4, <3>1, <3>2, <3>6 DEF PutNames, PutAs
  <2>5. QED
    BY <1>2, <2>1, <2>2, <2>3, <2>4 DEF Put
<1>3. QED
  BY <1>1, <1>2

(* Pairs in a row.                                                         *)
LEMMA UnpairedValues ==
  ASSUME NEW S, NEW n \in Nat, NEW pairs, Len(pairs) = n,
         \A i \in 1 .. n : pairs[i][1] \in S /\ pairs[i][2] \in S
  PROVE  /\ Unpaired(pairs) \in Seq(S)
         /\ \A e : In(Unpaired(pairs), e) <=> \E i \in 1 .. n : pairs[i][1] = e \/ pairs[i][2] = e
<1> DEFINE u == Unpaired(pairs)
<1>1. u = [j \in 1 .. 2 * n |-> pairs[(j + 1) \div 2][2 - (j % 2)]]
  BY DEF Unpaired
<1>2. \A i \in 1 .. n : pairs[i][1] \in S /\ pairs[i][2] \in S
  OBVIOUS
<1> HIDE DEF u
<1>3. \A i \in 1 .. n : /\ 2 * i - 1 \in 1 .. 2 * n /\ ((2 * i - 1) + 1) \div 2 = i
                        /\ 2 - ((2 * i - 1) % 2) = 1
                        /\ 2 * i \in 1 .. 2 * n /\ ((2 * i) + 1) \div 2 = i
                        /\ 2 - ((2 * i) % 2) = 2
  OBVIOUS
<1>4. \A j \in 1 .. 2 * n : (j + 1) \div 2 \in 1 .. n /\ 2 - (j % 2) \in {1, 2}
  OBVIOUS
<1>5. \A i \in 1 .. n : u[2 * i - 1] = pairs[i][1] /\ u[2 * i] = pairs[i][2]
  <2> SUFFICES ASSUME NEW i \in 1 .. n PROVE u[2 * i - 1] = pairs[i][1] /\ u[2 * i] = pairs[i][2]
    OBVIOUS
  <2> DEFINE a == 2 * i - 1
             b == 2 * i
  <2>1. /\ a \in 1 .. 2 * n /\ (a + 1) \div 2 = i /\ 2 - (a % 2) = 1
        /\ b \in 1 .. 2 * n /\ (b + 1) \div 2 = i /\ 2 - (b % 2) = 2
    BY <1>3
  <2> HIDE DEF a, b
  <2>2. u[a] = pairs[i][1] /\ u[b] = pairs[i][2]
    BY <1>1, <2>1
  <2> QED
    BY <2>2 DEF a, b
<1>6. \A j \in 1 .. 2 * n : \E i \in 1 .. n : u[j] = pairs[i][1] \/ u[j] = pairs[i][2]
  <2> SUFFICES ASSUME NEW j \in 1 .. 2 * n
               PROVE  \E i \in 1 .. n : u[j] = pairs[i][1] \/ u[j] = pairs[i][2]
    OBVIOUS
  <2> DEFINE i == (j + 1) \div 2
             k == 2 - (j % 2)
  <2>1. i \in 1 .. n /\ (k = 1 \/ k = 2)
    BY <1>4
  <2>2. u[j] = pairs[i][k]
    BY <1>1
  <2> HIDE DEF i, k
  <2> QED
    BY <2>1, <2>2
<1>7. u \in [1 .. 2 * n -> S]
  BY <1>1, <1>2, <1>6
<1>8. u \in Seq(S) /\ DOMAIN u = 1 .. 2 * n
  <2>1. 2 * n \in Nat
    OBVIOUS
  <2> QED
    BY <1>7, <2>1, SeqDef
<1>9. ASSUME NEW e
      PROVE  In(u, e) <=> \E i \in 1 .. n : pairs[i][1] = e \/ pairs[i][2] = e
  <2>1. ASSUME NEW i \in 1 .. n, pairs[i][1] = e \/ pairs[i][2] = e
        PROVE  \E j \in 1 .. 2 * n : u[j] = e
    <3>1. 2 * i - 1 \in 1 .. 2 * n /\ 2 * i \in 1 .. 2 * n
      OBVIOUS
    <3>2. u[2 * i - 1] = e \/ u[2 * i] = e
      BY <1>5, <2>1
    <3> QED
      BY <3>1, <3>2
  <2>2. In(u, e) <=> \E j \in 1 .. 2 * n : u[j] = e
    BY <1>8 DEF In
  <2> QED
    BY <1>6, <2>1, <2>2
<1> QED
  BY <1>8, <1>9 DEF u

(* What the frames hold, as they are given up.                             *)
LEMMA UnwoundValues ==
  ASSUME NEW n \in Nat, SafeFrames(frames, n)
  PROVE  /\ Unwound \in Seq(0 .. n)
         /\ \A e : In(Unwound, e) <=> InFrames(frames, e)
<1> DEFINE C ==
      [what : {"props", "skip", "hooked", "reference", "referenced", "array", "shared"},
       entity : 1 .. n, data : 0 .. n, sawRef : BOOLEAN]
           m == Len(frames)
           p == [i \in DOMAIN frames |->
                  LET f == frames[m + 1 - i] IN <<f.data, f.entity>>]
<1>1. /\ frames \in Seq(C) /\ m \in Nat /\ DOMAIN frames = 1 .. m
      /\ \A i \in 1 .. m : frames[i] \in C
  BY LenProperties, ElementOfSeq DEF SafeFrames
<1>2. \A i \in 1 .. m : m + 1 - i \in 1 .. m /\ m + 1 - (m + 1 - i) = i
  BY <1>1
<1>3. \A i \in 1 .. m : frames[i].data \in 0 .. n /\ frames[i].entity \in 0 .. n
  BY <1>1
<1>4. p \in [1 .. m -> (0 .. n) \X (0 .. n)]
  BY <1>1, <1>2, <1>3
<1>5. /\ \A i \in 1 .. m : /\ p[i][1] = frames[m + 1 - i].data
                           /\ p[i][2] = frames[m + 1 - i].entity
  BY <1>1
<1>6. p \in Seq((0 .. n) \X (0 .. n)) /\ Len(p) = m
  BY <1>1, <1>4, SeqDef, LenProperties
<1>7. Unwound = Unpaired(p)
  BY DEF Unwound
<1> HIDE DEF p
<1>8. /\ Unpaired(p) \in Seq(0 .. n)
      /\ \A e : In(Unpaired(p), e) <=> \E i \in 1 .. m : p[i][1] = e \/ p[i][2] = e
  <2> DEFINE S == 0 .. n
  <2>1. \A i \in 1 .. m : p[i][1] \in S /\ p[i][2] \in S
    BY <1>2, <1>3, <1>5
  <2> HIDE DEF S, m
  <2>2. /\ Unpaired(p) \in Seq(S)
        /\ \A e : In(Unpaired(p), e) <=> \E i \in 1 .. m : p[i][1] = e \/ p[i][2] = e
    BY <1>1, <1>6, <2>1, UnpairedValues
  <2> QED
    BY <2>2 DEF S
<1>9. \A e : (\E i \in 1 .. m : p[i][1] = e \/ p[i][2] = e) <=> InFrames(frames, e)
  <2> HIDE DEF C, m
  <2>1. ASSUME NEW e, NEW i \in 1 .. m, p[i][1] = e \/ p[i][2] = e
        PROVE  InFrames(frames, e)
    BY <1>1, <1>2, <1>5, <2>1 DEF InFrames
  <2>2. ASSUME NEW e, NEW i \in 1 .. m, frames[i].data = e \/ frames[i].entity = e
        PROVE  \E j \in 1 .. m : p[j][1] = e \/ p[j][2] = e
    <3>1. m + 1 - i \in 1 .. m
      BY <1>2
    <3>2. p[m + 1 - i][1] = frames[i].data /\ p[m + 1 - i][2] = frames[i].entity
      BY <1>2, <1>5, <3>1
    <3> QED
      BY <2>2, <3>1, <3>2
  <2> QED
    BY <1>1, <2>1, <2>2 DEF InFrames
<1> QED
  BY <1>7, <1>8, <1>9

Pinned(entries, e) == \E i \in DOMAIN entries : entries[i].entity = e /\ entries[i].pinned

(* What decode_destroy gives up: the pins, and the queue.                  *)
LEMMA ReleasedValues ==
  ASSUME NEW n \in Nat, SafeIds(ids, n), SafeQueue(deferred, n), NEW live \in BOOLEAN
  PROVE  /\ SafeDrops(Releases(live), n)
         /\ \A e : Dropping(Releases(live), e)
                     <=> Pinned(ids, e) \/ (e # None /\ Queued(deferred, e))
         /\ \A i \in DOMAIN Releases(live) :
              LET d == Releases(live)[i]
              IN (d.pin /\ d.rooted = ~ live) \/ (~ d.pin /\ d.rooted /\ deferred # <<>>)
<1> DEFINE p == [i \in DOMAIN ids |-> IF ids[i].pinned THEN ids[i].entity ELSE None]
           pins == Present(p)
           queue == [i \in DOMAIN deferred |-> <<deferred[i].object, deferred[i].data>>]
           first == [i \in DOMAIN pins |-> [entity |-> pins[i], rooted |-> ~ live, pin |-> TRUE]]
           second == DropAll(Unpaired(queue))
<1>1. Releases(live) = first \o second
  BY DEF Releases
<1>2. p \in Seq(0 .. n) /\ \A e : e # None => (In(p, e) <=> Pinned(ids, e))
  <2>1. /\ DOMAIN ids = 1 .. Len(ids) /\ Len(ids) \in Nat
        /\ \A i \in 1 .. Len(ids) : ids[i] \in [entity : 1 .. n, pinned : BOOLEAN]
    BY LenProperties, ElementOfSeq DEF SafeIds
  <2>2. \A i \in 1 .. Len(ids) : ids[i].entity \in 0 .. n
    BY <2>1
  <2>3. p \in [1 .. Len(ids) -> 0 .. n]
    BY <2>1, <2>2 DEF None
  <2>4. p \in Seq(0 .. n)
    BY <2>1, <2>3, SeqDef
  <2> QED
    BY <2>1, <2>4 DEF In, Pinned
<1> HIDE DEF p
<1>3. /\ pins \in Seq((0 .. n) \ {None})
      /\ \A e : In(pins, e) <=> e # None /\ Pinned(ids, e)
  <2>1. \A e : (\E i \in DOMAIN pins : pins[i] = e) <=> (e # None /\ \E i \in DOMAIN p : p[i] = e)
    BY <1>2, PresentValues
  <2>2. \A e : In(pins, e) <=> e # None /\ In(p, e)
    <3> HIDE DEF pins
    <3> QED
      BY <2>1 DEF In
  <2> QED
    BY <1>2, <2>2, PresentValues
<1>4. \A e : Pinned(ids, e) => e # None
  <2>1. /\ DOMAIN ids = 1 .. Len(ids) /\ Len(ids) \in Nat
        /\ \A i \in 1 .. Len(ids) : ids[i] \in [entity : 1 .. n, pinned : BOOLEAN]
    BY LenProperties, ElementOfSeq DEF SafeIds
  <2> QED
    BY <2>1 DEF Pinned, None
<1> HIDE DEF pins
<1>5. pins \in Seq(1 .. n)
  <2>1. (0 .. n) \ {None} = 1 .. n
    BY DEF None
  <2> QED
    BY <1>3, <2>1
<1>6. Len(pins) \in Nat /\ DOMAIN pins = 1 .. Len(pins) /\ \A i \in 1 .. Len(pins) : pins[i] \in 1 .. n
  BY <1>5, LenProperties, ElementOfSeq
<1>7. /\ SafeDrops(first, n) /\ DOMAIN first = 1 .. Len(pins)
      /\ \A i \in 1 .. Len(pins) : /\ first[i].entity = pins[i] /\ first[i].rooted = ~ live
                                   /\ first[i].pin
  <2> DEFINE D == [entity : 1 .. n, rooted : BOOLEAN, pin : BOOLEAN]
  <2>1. first \in [1 .. Len(pins) -> D]
    BY <1>6
  <2> HIDE DEF D
  <2>2. first \in Seq(D) /\ DOMAIN first = 1 .. Len(pins)
    BY <1>6, <2>1, SeqDef
  <2>3. SafeDrops(first, n)
    BY <2>2 DEF SafeDrops, D
  <2> QED
    BY <1>6, <2>2, <2>3
<1>8. \A e : Dropping(first, e) <=> In(pins, e)
  BY <1>6, <1>7 DEF Dropping, In
<1>9. /\ SafeDrops(second, n)
      /\ \A e : Dropping(second, e) <=> e # None /\ Queued(deferred, e)
      /\ \A i \in DOMAIN second : second[i].rooted /\ ~ second[i].pin
      /\ deferred = <<>> => second = <<>>
  <2> DEFINE Q == [object : 1 .. n, data : 0 .. n]
             m == Len(deferred)
  <2>1. /\ DOMAIN deferred = 1 .. m /\ m \in Nat
        /\ \A i \in 1 .. m : deferred[i] \in Q
    BY LenProperties, ElementOfSeq DEF SafeQueue
  <2>2. \A i \in 1 .. m : deferred[i].object \in 0 .. n /\ deferred[i].data \in 0 .. n
    BY <2>1
  <2>3. queue \in [1 .. m -> (0 .. n) \X (0 .. n)]
    BY <2>1, <2>2
  <2>4. \A i \in 1 .. m : queue[i][1] = deferred[i].object /\ queue[i][2] = deferred[i].data
    BY <2>1
  <2>5. Len(queue) = m
    BY <2>1, <2>3, SeqDef, LenProperties
  <2> HIDE DEF queue
  <2>6. /\ Unpaired(queue) \in Seq(0 .. n)
        /\ \A e : In(Unpaired(queue), e) <=> \E i \in 1 .. m : queue[i][1] = e \/ queue[i][2] = e
    <3> DEFINE S == 0 .. n
    <3>1. \A i \in 1 .. m : queue[i][1] \in S /\ queue[i][2] \in S
      BY <2>2, <2>4
    <3> HIDE DEF m, S
    <3>2. /\ Unpaired(queue) \in Seq(S)
          /\ \A e : In(Unpaired(queue), e)
                      <=> \E i \in 1 .. m : queue[i][1] = e \/ queue[i][2] = e
      BY <2>1, <2>5, <3>1, UnpairedValues
    <3> QED
      BY <3>2 DEF S
  <2>7. ASSUME NEW e PROVE In(Unpaired(queue), e) <=> Queued(deferred, e)
    <3>1. Queued(deferred, e) <=> \E i \in 1 .. m : queue[i][1] = e \/ queue[i][2] = e
      BY <2>1, <2>4 DEF Queued
    <3> QED
      BY <2>6, <3>1
  <2>8. /\ SafeDrops(second, n)
        /\ \A e : Dropping(second, e) <=> e # None /\ In(Unpaired(queue), e)
        /\ \A i \in DOMAIN second : second[i].rooted /\ ~ second[i].pin
    BY <2>6, DropAllSafe
  <2>9. ASSUME deferred = <<>> PROVE second = <<>>
    <3>1. m = 0
      BY <2>9
    <3>2. Unpaired(queue) = <<>>
      <4>1. Unpaired(queue) = [j \in 1 .. 0 |-> queue[(j + 1) \div 2][2 - (j % 2)]]
        BY <2>5, <3>1 DEF Unpaired
      <4>2. DOMAIN Unpaired(queue) = {}
        BY <4>1
      <4>3. DOMAIN Unpaired(queue) = 1 .. Len(Unpaired(queue)) /\ Len(Unpaired(queue)) \in Nat
        BY <2>6, LenProperties
      <4>4. Len(Unpaired(queue)) = 0
        BY <4>2, <4>3
      <4> QED
        BY <2>6, <4>4, EmptySeq
    <3>3. \A e : ~ Dropping(second, e)
      BY <2>8, <3>2, NoValue
    <3>4. DOMAIN second = {}
      BY <3>3 DEF Dropping
    <3>5. second \in Seq([entity : 1 .. n, rooted : BOOLEAN, pin : BOOLEAN])
      BY <2>8 DEF SafeDrops
    <3>6. DOMAIN second = 1 .. Len(second) /\ Len(second) \in Nat
      <4> HIDE DEF second
      <4> QED
        BY <3>5, LenProperties
    <3>7. Len(second) = 0
      BY <3>4, <3>6
    <3> HIDE DEF second
    <3> QED
      BY <3>5, <3>7, EmptySeq
  <2> QED
    BY <2>7, <2>8, <2>9
<1> HIDE DEF first, second
<1>10. /\ SafeDrops(first \o second, n)
       /\ \A e : Dropping(first \o second, e) <=> Dropping(first, e) \/ Dropping(second, e)
       /\ \A i \in DOMAIN (first \o second) :
            \/ \E j \in DOMAIN first : (first \o second)[i] = first[j]
            \/ \E j \in DOMAIN second : (first \o second)[i] = second[j]
  BY <1>7, <1>9, DropsJoin
<1>11. ASSUME NEW i \in DOMAIN Releases(live)
       PROVE  \/ Releases(live)[i].pin /\ Releases(live)[i].rooted = ~ live
              \/ ~ Releases(live)[i].pin /\ Releases(live)[i].rooted /\ deferred # <<>>
  <2>1. CASE \E j \in DOMAIN first : Releases(live)[i] = first[j]
    BY <1>7, <2>1
  <2>2. CASE \E j \in DOMAIN second : Releases(live)[i] = second[j]
    <3>1. second # <<>>
      BY <2>2
    <3> QED
      BY <1>9, <2>2, <3>1
  <2> QED
    BY <1>1, <1>10, <2>1, <2>2
<1> QED
  BY <1>1, <1>3, <1>4, <1>8, <1>9, <1>10, <1>11

(* A set in some order.                                                    *)
LEMMA InSomeOrder ==
  ASSUME NEW S, IsFiniteSet(S)
  PROVE  SE!SetToSeq(S) \in Seq(S)
<1>1. SE!SetToSeq(S) = CHOOSE f \in [1 .. SE!Cardinality(S) -> S] : SE!IsInjective(f)
  BY DEF SE!SetToSeq
<1>2. SE!Cardinality(S) = Cardinality(S)
  BY DEF Cardinality, SE!Cardinality
<1>3. PICK f \in [1 .. Cardinality(S) -> S] : SE!IsInjective(f)
  <2>1. PICK f : f \in Bijection(1 .. Cardinality(S), S)
    BY FS_CardinalityType DEF ExistsBijection
  <2> QED
    BY <2>1 DEF Bijection, Injection, IsInjective, SE!IsInjective
<1>4. SE!SetToSeq(S) \in [1 .. Cardinality(S) -> S]
  BY <1>1, <1>2, <1>3
<1>5. Cardinality(S) \in Nat
  BY FS_CardinalityType
<1> QED
  BY <1>4, <1>5, SeqDef

(* Entities and their slots, from the records.                             *)
LEMMA Records ==
  ASSUME LInv
  PROVE  /\ Len(heap) \in Nat /\ Entities = 1 .. Len(heap) /\ DOMAIN heap = 1 .. Len(heap)
         /\ IsFiniteSet(Entities) /\ IsFiniteSet(Slots) /\ Slots = 1 .. Width /\ Width \in Nat
         /\ 1 \in Slots
         /\ \A e \in Entities : heap[e] \in Entity /\ heap[e].slots \in [Slots -> Nat]
         /\ fresh = Len(heap) + 1 /\ fresh \notin Entities
         /\ \A from : Reach(from) \subseteq Entities
<1>1. Len(heap) \in Nat /\ DOMAIN heap = 1 .. Len(heap) /\ \A e \in DOMAIN heap : heap[e] \in Entity
  BY LenProperties, ElementOfSeq DEF LInv, SafeHeap
<1>2. \A e \in DOMAIN heap : heap[e].slots \in [Slots -> Nat]
  BY <1>1 DEF Entity
<1>3. Width \in Nat \ {0}
  BY LifetimeAssumption
<1>4. IsFiniteSet(1 .. Len(heap)) /\ IsFiniteSet(1 .. Width)
  BY <1>1, <1>3, FS_Interval
<1> QED
  BY <1>1, <1>2, <1>3, <1>4 DEF Entities, Slots, fresh, Reach

(* The slots of an entity, in order, are dropped when it is freed.         *)
LEMMA SlotsInOrder ==
  ASSUME LInv, Within(heap), NEW e \in Entities
  PROVE  /\ heap[e].slots \in Seq(0 .. Len(heap))
         /\ \A x : In(heap[e].slots, x) <=> \E k \in Slots : heap[e].slots[k] = x
<1>1. /\ heap[e].slots \in [1 .. Width -> Nat] /\ Width \in Nat /\ Slots = 1 .. Width
      /\ e \in DOMAIN heap
  BY Records
<1>2. \A k \in 1 .. Width : heap[e].slots[k] \in 0 .. Len(heap)
  BY <1>1 DEF Within
<1>3. heap[e].slots \in [1 .. Width -> 0 .. Len(heap)]
  BY <1>1, <1>2
<1>4. heap[e].slots \in Seq(0 .. Len(heap))
  BY <1>1, <1>3, SeqDef
<1> QED
  BY <1>1, <1>4 DEF In

(* Steps that change no slot.                                              *)
SameSlots(h, g) ==
  /\ Len(g) = Len(h) /\ DOMAIN g = DOMAIN h
  /\ \A x \in DOMAIN h : /\ g[x].slots = h[x].slots /\ g[x].alive = h[x].alive
                         /\ g[x].kind = h[x].kind /\ g[x].class = h[x].class

LEMMA FlagsOnly ==
  ASSUME LInv, NEW e,
         \/ Destruct(e)
         \/ HookReturns /\ e = called.object
  PROVE  SameSlots(heap, heap')
<1>1. PICK flagged, hooked, destroyed :
        heap' = [heap EXCEPT ![e] = [[[heap[e] EXCEPT !.flagged = flagged] EXCEPT !.hooked = hooked]
                                     EXCEPT !.destroyed = destroyed]]
  <2>1. CASE Destruct(e)
    <3> DEFINE r == [heap[e] EXCEPT !.flagged = TRUE, !.destroyed = TRUE]
               s == [[[heap[e] EXCEPT !.flagged = TRUE] EXCEPT !.hooked = heap[e].hooked]
                                     EXCEPT !.destroyed = TRUE]
    <3>1. heap' = [heap EXCEPT ![e] = r]
      BY <2>1 DEF Destruct
    <3>2. e \in Entities => r = s
      <4> SUFFICES ASSUME e \in Entities PROVE r = s
        OBVIOUS
      <4>1. heap[e] \in Entity
        BY Records
      <4> QED
        BY <4>1 DEF Entity
    <3>3. [heap EXCEPT ![e] = r] = [heap EXCEPT ![e] = s]
      <4>1. heap = [x \in DOMAIN heap |-> heap[x]]
        BY LenProperties DEF LInv, SafeHeap
      <4> HIDE DEF r, s
      <4> QED
        BY <3>2, <4>1 DEF Entities
    <3> QED
      BY <3>1, <3>3
  <2>2. CASE HookReturns /\ e = called.object
    <3>1. PICK threw \in {exception, TRUE} :
            LET object == heap[e]
            IN heap' = [heap EXCEPT ![e] =
                 [object EXCEPT !.flagged = (object.flagged /\ ~ ClearsFlag(threw)),
                                !.hooked = (object.hooked \/ ~ threw)]]
      BY <2>2 DEF HookReturns
    <3> DEFINE f == heap[e].flagged /\ ~ ClearsFlag(threw)
               b == heap[e].hooked \/ ~ threw
               r == [heap[e] EXCEPT !.flagged = f, !.hooked = b]
               s == [[[heap[e] EXCEPT !.flagged = f] EXCEPT !.hooked = b]
                                     EXCEPT !.destroyed = heap[e].destroyed]
    <3>2. heap' = [heap EXCEPT ![e] = r]
      BY <3>1
    <3> HIDE DEF f, b
    <3>3. e \in Entities => r = s
      <4> SUFFICES ASSUME e \in Entities PROVE r = s
        OBVIOUS
      <4>1. heap[e] \in Entity
        BY Records
      <4> QED
        BY <4>1 DEF Entity
    <3>4. [heap EXCEPT ![e] = r] = [heap EXCEPT ![e] = s]
      <4>1. heap = [x \in DOMAIN heap |-> heap[x]]
        BY LenProperties DEF LInv, SafeHeap
      <4> HIDE DEF r, s
      <4> QED
        BY <3>3, <4>1 DEF Entities
    <3>5. heap' = [heap EXCEPT ![e] = s]
      BY <3>2, <3>4
    <3> HIDE DEF r
    <3> QED
      BY <3>5, Zenon
  <2> QED
    BY <2>1, <2>2
<1> DEFINE s == [[[heap[e] EXCEPT !.flagged = flagged] EXCEPT !.hooked = hooked]
                                     EXCEPT !.destroyed = destroyed]
<1>2. e \in Entities => /\ s.slots = heap[e].slots /\ s.alive = heap[e].alive
                        /\ s.kind = heap[e].kind /\ s.class = heap[e].class
  <2> SUFFICES ASSUME e \in Entities
               PROVE  /\ s.slots = heap[e].slots /\ s.alive = heap[e].alive
                      /\ s.kind = heap[e].kind /\ s.class = heap[e].class
    OBVIOUS
  <2>1. heap[e] \in Entity
    BY Records
  <2> QED
    BY <2>1 DEF Entity
<1>3. heap' = [heap EXCEPT ![e] = s]
  BY <1>1
<1> HIDE DEF s
<1>4. heap \in [1 .. Len(heap) -> Entity] /\ Len(heap) \in Nat /\ Entities = DOMAIN heap
  BY LenProperties DEF LInv, SafeHeap, Entities
<1>5. DOMAIN heap' = DOMAIN heap /\ \A x \in DOMAIN heap : heap'[x] = IF x = e THEN s ELSE heap[x]
  BY <1>3, <1>4
<1>6. Len(heap') = Len(heap)
  BY <1>3, <1>4
<1> QED
  BY <1>2, <1>4, <1>5, <1>6 DEF SameSlots

(* A new entity changes no other.                                          *)
LEMMA CreateAdds ==
  ASSUME LInv, Within(heap), NEW kind \in {"object", "reference", "array"},
         NEW class \in Classes \cup {NoClass}
  PROVE  LET c == Create(kind, class)
         IN /\ SafeHeap(c) /\ Len(c) = fresh /\ DOMAIN c = 1 .. fresh /\ Within(c)
            /\ \A x \in Entities : c[x] = heap[x]
            /\ c[fresh].slots = Empty /\ c[fresh].alive /\ c[fresh].kind = kind
            /\ c[fresh].class = class
            /\ \A e : e # None /\ HeldIn(c, e) => HeldIn(heap, e)
<1> DEFINE c == Create(kind, class)
           r == [kind |-> kind, class |-> class, slots |-> Empty, alive |-> TRUE,
                 flagged |-> PrepareHook(class), hooked |-> FALSE, destroyed |-> FALSE]
<1>1. SafeHeap(c) /\ Len(c) = fresh /\ fresh \in Nat /\ fresh = Len(heap) + 1
  BY CreateSafe DEF LInv
<1>2. heap \in Seq(Entity) /\ Len(heap) \in Nat /\ Entities = 1 .. Len(heap)
  BY Records DEF LInv, SafeHeap
<1>3. DOMAIN c = 1 .. fresh
  BY <1>1, LenProperties DEF SafeHeap
<1>4. r.slots = Empty /\ r.alive /\ r.kind = kind /\ r.class = class
  OBVIOUS
<1>5. c = Append(heap, r)
  BY DEF Create
<1> HIDE DEF r
<1>6. \A x \in Entities : c[x] = heap[x]
  BY <1>1, <1>2, <1>5
<1>7. c[fresh] = r
  BY <1>1, <1>2, <1>5
<1> HIDE DEF c
<1>8. \A k \in Slots : Empty[k] = None
  BY DEF Empty
<1>9. 1 .. fresh = Entities \cup {fresh} /\ fresh \notin Entities /\ DOMAIN heap = Entities
  BY <1>1, <1>2 DEF Entities
<1>10. Within(c)
  BY <1>1, <1>2, <1>3, <1>4, <1>6, <1>7, <1>8, <1>9 DEF Within, None
<1>11. \A e : e # None /\ HeldIn(c, e) => HeldIn(heap, e)
  BY <1>3, <1>4, <1>6, <1>7, <1>8, <1>9 DEF HeldIn
<1> QED
  BY <1>1, <1>3, <1>4, <1>6, <1>7, <1>10, <1>11 DEF c

(* What a slot holds is an entity.                                         *)
LEMMA HeldWithin ==
  ASSUME LInv, Within(heap)
  PROVE  /\ \A x \in Entities : Held(x) \subseteq Entities
         /\ \A x \in Entities : \A e : e \in Held(x) <=> e # None /\ \E k \in Slots : heap[x].slots[k] = e
BY Records DEF Held, Within, None

(* What is reached is a start, or held in a slot.                          *)
LEMMA ReachSeen ==
  ASSUME LInv, Within(heap), NEW from, from \subseteq Entities, NEW e \in Reach(from)
  PROVE  e \in from \/ HeldIn(heap, e)
<1> SUFFICES ASSUME e \notin from, ~ HeldIn(heap, e) PROVE FALSE
  OBVIOUS
<1> DEFINE rest == Entities \ {e}
<1>1. rest \in SUBSET Entities /\ from \subseteq rest /\ e \notin rest
  OBVIOUS
<1>2. \A x \in Entities : e \notin Held(x) /\ Held(x) \subseteq Entities
  BY HeldWithin DEF HeldIn, Entities
<1>3. ~ Closed(rest)
  <2> HIDE DEF rest
  <2> QED
    BY <1>1 DEF Reach
<1> QED
  BY <1>2, <1>3 DEF Closed

LEMMA SawSame ==
  ASSUME NEW n \in Nat, NEW stack, SafeFrames(stack, n)
  PROVE  /\ DOMAIN SawReference(stack) = DOMAIN stack
         /\ \A i \in DOMAIN stack : LET f == SawReference(stack)[i]
                                    IN /\ f.entity = stack[i].entity /\ f.data = stack[i].data
                                       /\ f.what = stack[i].what
         /\ \A e : InFrames(SawReference(stack), e) <=> InFrames(stack, e)
<1> DEFINE t == SawReference(stack)
<1>1. DOMAIN t = DOMAIN stack
  BY DEF SawReference
<1>2. ASSUME NEW i \in DOMAIN stack
      PROVE  t[i].entity = stack[i].entity /\ t[i].data = stack[i].data /\ t[i].what = stack[i].what
  <2>1. t[i] = [stack[i] EXCEPT !.sawRef = TRUE]
    BY <1>2 DEF SawReference
  <2>2. stack[i] \in
      [what : {"props", "skip", "hooked", "reference", "referenced", "array", "shared"},
       entity : 1 .. n, data : 0 .. n, sawRef : BOOLEAN]
    BY LenProperties, ElementOfSeq DEF SafeFrames
  <2>3. t[i] = [what |-> stack[i].what, entity |-> stack[i].entity, data |-> stack[i].data,
                sawRef |-> TRUE]
    BY <2>1, <2>2, SawOne
  <2> QED
    BY <2>3
<1> HIDE DEF t
<1>3. \A e : InFrames(t, e) <=> InFrames(stack, e)
  BY <1>1, <1>2 DEF InFrames
<1> QED
  BY <1>1, <1>2, <1>3 DEF t

(* What holds an entity other than a slot and a root: the id table, the    *)
(* queue, the frames, references on their way out, the result, the program.*)
Named(e) ==
  \/ Identified(ids, e) \/ Queued(deferred, e) \/ InFrames(frames, e)
  \/ Dropping(drops, e) \/ result = e \/ e \in user
Known(e) == Named(e) \/ e \in buffer \/ HeldIn(heap, e)

(* What is known is not freed, and what is freed holds nothing.            *)
AliveInv ==
  \A e \in Entities : /\ Known(e) => heap[e].alive
                      /\ heap[e].alive \/ heap[e].slots = Empty

(* A step that frees nothing and gets hold of nothing that was not known   *)
(* or new.                                                                 *)
Kept(graph) ==
  /\ \A x \in Entities :
       /\ x \in DOMAIN graph
       /\ graph[x].alive = heap[x].alive /\ graph[x].kind = heap[x].kind
       /\ graph[x].class = heap[x].class
       /\ graph[x].slots = heap[x].slots \/ heap[x].alive
  /\ \A x \in DOMAIN graph : x \in Entities \/ (x = fresh /\ graph[x].alive)
Tame ==
  /\ HandInv'
  /\ Kept(heap')
  /\ \A e : e # None /\ Known(e)' => Known(e) \/ e = fresh

LEMMA TameAlive ==
  ASSUME LInv, AliveInv, Tame
  PROVE  AliveInv'
<1>1. fresh \notin Entities /\ \A e \in Entities : e # None
  BY Records DEF None
<1>2. Entities' = DOMAIN heap' /\ Entities = DOMAIN heap
  BY DEF Entities
<1>3. ASSUME NEW e \in DOMAIN heap', Known(e)' PROVE heap'[e].alive
  <2>1. e # None
    BY <1>1, Records DEF Tame, Kept, None
  <2>2. CASE e \in Entities
    BY <1>1, <1>3, <2>1, <2>2 DEF Tame, Kept, AliveInv
  <2>3. CASE e \notin Entities
    BY <2>3 DEF Tame, Kept
  <2> QED
    BY <2>2, <2>3
<1>4. ASSUME NEW e \in DOMAIN heap', ~ heap'[e].alive PROVE heap'[e].slots = Empty
  BY <1>4 DEF Tame, Kept, AliveInv
<1>5. Empty' = Empty
  BY DEF Empty, None, Slots
<1> QED
  BY <1>2, <1>3, <1>4, <1>5 DEF AliveInv

(* A decoded value, the heap its call leaves and the frames around it.     *)
Decoded(v, graph, stack, given) ==
  /\ SafeHeap(graph) /\ Within(graph) /\ Len(graph) <= MaxEntities
  /\ Len(heap) <= Len(graph) /\ Kept(graph)
  /\ SafeFrames(stack, Len(graph))
  /\ v \in 0 .. Len(graph) /\ (v # None => Known(v) \/ v = fresh)
  /\ given \in Seq(0 .. Len(graph)) /\ \A e : e # None /\ In(given, e) => Known(e)
  /\ \A e : e # None /\ HeldIn(graph, e) => Known(e) \/ e = fresh
  /\ \A e : InFrames(stack, e) => InFrames(frames, e)

(* The tables it leaves.                                                   *)
Tables(n) ==
  /\ SafeQueue(deferred', n)
  /\ \A e : e # None /\ Queued(deferred', e) => Known(e)
  /\ \A e : Identified(ids', e) => Known(e) \/ e = fresh
  /\ user' \subseteq 1 .. n /\ \A e \in user' : Known(e) \/ e = fresh
  /\ buffer' = buffer

(* Putting a decoded value somewhere is tame.                              *)
LEMMA PutTame ==
  ASSUME LInv, HandInv, AliveInv,
         NEW v, NEW graph, NEW stack, NEW given, NEW noted,
         Decoded(v, graph, stack, given), Tables(Len(graph)),
         Put(v, graph, stack, given, noted)
  PROVE  Tame /\ PutNames(v, graph, stack, given)
<1>1. Len(heap) \in Nat /\ Len(graph) \in Nat /\ Entities = 1 .. Len(heap)
      /\ DOMAIN graph = 1 .. Len(graph)
  BY Records, LenProperties DEF SafeHeap, Decoded
<1>2. PutNames(v, graph, stack, given)
  BY <1>1, PutNamed DEF HandInv, Decoded
<1>3. SafeHeap(heap') /\ Len(heap') = Len(graph)
  BY PutSafe DEF Decoded
<1>4. DOMAIN heap' = DOMAIN graph
  BY <1>1, <1>3, LenProperties DEF SafeHeap
<1>5. HandInv'
  BY <1>1, <1>2, <1>3 DEF PutNames, HandInv, Decoded, Tables
<1>6. Kept(heap')
  <2>1. ASSUME NEW x \in DOMAIN graph, InFrames(stack, x), x \in Entities PROVE heap[x].alive
    BY <2>1 DEF AliveInv, Known, Named, Decoded
  <2>2. \A x \in DOMAIN graph :
       /\ heap'[x].alive = graph[x].alive /\ heap'[x].kind = graph[x].kind
       /\ heap'[x].class = graph[x].class
       /\ heap'[x].slots = graph[x].slots \/ InFrames(stack, x)
    BY <1>2 DEF PutNames
  <2> QED
    BY <1>4, <2>1, <2>2 DEF Kept, Decoded
<1>7. ASSUME NEW e, e # None, Known(e)' PROVE Known(e) \/ e = fresh
  <2>1. \/ HeldIn(heap', e) \/ InFrames(frames', e) \/ Dropping(drops', e) \/ result' = e
        \/ Identified(ids', e) \/ Queued(deferred', e) \/ e \in user' \/ e \in buffer
    BY <1>7 DEF Known, Named, Tables
  <2>2. CASE HeldIn(heap', e) \/ InFrames(frames', e) \/ Dropping(drops', e) \/ result' = e
    <3>1. e = v \/ HeldIn(graph, e) \/ InFrames(stack, e) \/ In(given, e) \/ result = e
      BY <1>2, <1>7, <2>2 DEF PutNames
    <3> QED
      BY <1>7, <3>1 DEF Known, Named, Decoded
  <2>3. QED
    BY <1>7, <2>1, <2>2 DEF Known, Tables
<1> QED
  BY <1>2, <1>5, <1>6, <1>7 DEF Tame

(* The heap as it is, for PutTame.                                         *)
LEMMA SameKept ==
  ASSUME LInv
  PROVE  Kept(heap)
BY DEF Kept, Entities

LEMMA TameRead ==
  ASSUME LInv, HandInv, AliveInv, ReadScalar \/ ReadBackReference
  PROVE  Tame /\ PutAs(frames)
<1>1. /\ SafeHeap(heap) /\ SafeIds(ids, Len(heap)) /\ SafeFrames(frames, Len(heap))
      /\ Len(heap) \in Nat /\ Kept(heap)
  BY Records, SameKept DEF LInv
<1>2. \A e : e # None /\ HeldIn(heap, e) => Known(e)
  BY DEF Known
<1>3. UNCHANGED <<ids, deferred, user, buffer>>
  BY DEF ReadScalar, ReadBackReference, Token
<1>4. Tables(Len(heap))
  BY <1>3 DEF Known, Named, HandInv, Tables
<1>5. <<>> \in Seq(0 .. Len(heap)) /\ \A e : ~ In(<<>>, e)
  BY NoValue
<1>6. ASSUME NEW v \in 0 .. Len(heap), NEW stack, SafeFrames(stack, Len(heap)),
             \A e : InFrames(stack, e) => InFrames(frames, e),
             v # None => Known(v), Put(v, heap, stack, <<>>, FALSE),
             DOMAIN stack = DOMAIN frames, Len(stack) = Len(frames),
             \A i \in DOMAIN frames : stack[i].entity = frames[i].entity
      PROVE  Tame /\ PutAs(frames)
  <2>1. Decoded(v, heap, stack, <<>>)
    BY <1>1, <1>2, <1>5, <1>6 DEF HandInv, Decoded
  <2> QED
    <3>1. Tame /\ PutNames(v, heap, stack, <<>>)
      BY <1>4, <1>6, <2>1, PutTame
    <3>2. PutAs(stack)
      BY <3>1 DEF PutNames
    <3> QED
      BY <1>6, <3>1, <3>2 DEF PutAs
<1>7. CASE ReadScalar
  <2>1. Put(None, heap, frames, <<>>, FALSE)
    BY <1>7 DEF ReadScalar
  <2>2. None \in 0 .. Len(heap)
    BY <1>1 DEF None
  <2> QED
    BY <1>1, <1>6, <2>1, <2>2
<1>8. CASE ReadBackReference
  <2>1. PICK i \in DOMAIN ids :
          LET e == ids[i].entity
              stack == IF heap[e].kind = "reference" THEN SawReference(frames) ELSE frames
          IN Put(e, heap, stack, <<>>, FALSE)
    BY <1>8 DEF ReadBackReference
  <2> DEFINE e == ids[i].entity
             stack == IF heap[e].kind = "reference" THEN SawReference(frames) ELSE frames
  <2>2. e \in 0 .. Len(heap)
    <3>1. ids \in Seq([entity : 1 .. Len(heap), pinned : BOOLEAN])
      BY <1>1 DEF SafeIds
    <3>2. ids[i] \in [entity : 1 .. Len(heap), pinned : BOOLEAN]
      BY <2>1, <3>1, LenProperties
    <3>3. QED
      BY <1>1, <3>2
  <2>3. SafeFrames(stack, Len(heap))
    BY <1>1, Seen
  <2>4. \A x : InFrames(stack, x) => InFrames(frames, x)
    BY <1>1, SawSame
  <2>a. /\ DOMAIN stack = DOMAIN frames /\ Len(stack) = Len(frames)
        /\ \A j \in DOMAIN frames : stack[j].entity = frames[j].entity
    <3>1. /\ DOMAIN stack = DOMAIN frames
          /\ \A j \in DOMAIN frames : stack[j].entity = frames[j].entity
      BY <1>1, SawSame
    <3> QED
      BY <1>1, <2>3, <3>1, LenProperties DEF SafeFrames
  <2>5. Known(e)
    BY DEF Known, Named, Identified
  <2>6. Put(e, heap, stack, <<>>, FALSE)
    BY <2>1
  <2> HIDE DEF e, stack
  <2> QED
    BY <1>6, <2>2, <2>3, <2>4, <2>a, <2>5, <2>6
<1> QED
  BY <1>7, <1>8

(* The last frame and the frames around it hold what the frames hold.      *)
LEMMA OuterFrames ==
  ASSUME NEW n \in Nat, SafeFrames(frames, n), frames # <<>>
  PROVE  /\ Len(frames) \in Nat \ {0} /\ DOMAIN frames = 1 .. Len(frames)
         /\ Len(Outer(frames)) = Len(frames) - 1
         /\ DOMAIN Outer(frames) = 1 .. Len(frames) - 1
         /\ \A i \in 1 .. Len(frames) - 1 : Outer(frames)[i] = frames[i]
         /\ \A e : InFrames(Outer(frames), e) => InFrames(frames, e)
         /\ InFrames(frames, top.entity) /\ InFrames(frames, top.data)
         /\ \A e : InFrames(frames, e) => \/ InFrames(Outer(frames), e)
                                          \/ e = top.entity \/ e = top.data
<1> DEFINE C ==
      [what : {"props", "skip", "hooked", "reference", "referenced", "array", "shared"},
       entity : 1 .. n, data : 0 .. n, sawRef : BOOLEAN]
           m == Len(frames)
<1>1. frames \in Seq(C)
  BY DEF SafeFrames
<1> HIDE DEF C
<1>2. m \in Nat \ {0} /\ DOMAIN frames = 1 .. m
  BY <1>1, EmptySeq, LenProperties
<1>3. /\ Outer(frames) \in Seq(C) /\ Len(Outer(frames)) = m - 1
      /\ \A i \in 1 .. m - 1 : Outer(frames)[i] = frames[i]
  <2>1. 1 \in 1 .. m + 1 /\ m - 1 \in 0 .. m /\ (m - 1) - 1 + 1 = m - 1
    BY <1>2
  <2> QED
    BY <1>1, <1>2, <2>1, SubSeqProperties DEF Outer
<1>4. DOMAIN Outer(frames) = 1 .. m - 1
  BY <1>3, LenProperties
<1>5. \A i \in 1 .. m : i \in 1 .. m - 1 \/ i = m
  <2> HIDE DEF m
  <2> QED
    BY <1>2
<1>6. m \in 1 .. m /\ \A i \in 1 .. m - 1 : i \in 1 .. m
  <2> HIDE DEF m
  <2> QED
    BY <1>2
<1> QED
  BY <1>2, <1>3, <1>4, <1>5, <1>6 DEF InFrames, top

(* A call that is queued.                                                  *)
LEMMA QueueOne ==
  ASSUME NEW n \in Nat, SafeQueue(deferred, n), NEW e \in 1 .. n, NEW data \in 0 .. n,
         Queue(e, data)
  PROVE  /\ SafeQueue(deferred', n) /\ Len(deferred') = Len(deferred) + 1
         /\ DOMAIN deferred = 1 .. Len(deferred) /\ Len(deferred) \in Nat
         /\ DOMAIN deferred' = 1 .. Len(deferred) + 1
         /\ \A i \in 1 .. Len(deferred) : deferred'[i] = deferred[i]
         /\ deferred'[Len(deferred) + 1] = [object |-> e, data |-> data]
         /\ \A x : Queued(deferred', x) <=> Queued(deferred, x) \/ x = e \/ x = data
<1> DEFINE Q == [object : 1 .. n, data : 0 .. n]
           c == [object |-> e, data |-> data]
           m == Len(deferred)
<1>1. deferred \in Seq(Q) /\ c \in Q /\ c.object = e /\ c.data = data
  BY DEF SafeQueue
<1>2. deferred' = Append(deferred, c)
  BY DEF Queue
<1> HIDE DEF Q, c
<1>3. /\ deferred' \in Seq(Q) /\ Len(deferred') = m + 1 /\ m \in Nat
      /\ DOMAIN deferred = 1 .. m
      /\ \A i \in 1 .. m : deferred'[i] = deferred[i]
      /\ deferred'[m + 1] = c
  BY <1>1, <1>2, AppendProperties, LenProperties
<1>4. DOMAIN deferred' = 1 .. m + 1
  BY <1>3, LenProperties
<1>5. m + 1 \in 1 .. m + 1 /\ \A i \in 1 .. m + 1 : i \in 1 .. m \/ i = m + 1
  BY <1>3
<1>6. \A i \in 1 .. m : i \in 1 .. m + 1
  BY <1>3
<1>7. \A x : Queued(deferred', x) <=> Queued(deferred, x) \/ x = e \/ x = data
  BY <1>1, <1>3, <1>4, <1>5, <1>6 DEF Queued
<1> QED
  BY <1>3, <1>4, <1>7 DEF Q, c, SafeQueue

LEMMA RegisterOne ==
  ASSUME NEW n \in Nat, SafeIds(ids, n), NEW e \in 1 .. n, NEW kind, Register(e, kind)
  PROVE  /\ DOMAIN ids = 1 .. Len(ids) /\ Len(ids) \in Nat
         /\ DOMAIN ids' = 1 .. Len(ids) + 1
         /\ \A i \in 1 .. Len(ids) : ids'[i] = ids[i]
         /\ ids'[Len(ids) + 1] = [entity |-> e, pinned |-> TRUE]
         /\ \A x : Identified(ids', x) <=> Identified(ids, x) \/ x = e
<1> DEFINE D == [entity : 1 .. n, pinned : BOOLEAN]
           c == [entity |-> e, pinned |-> TRUE]
           m == Len(ids)
<1>1. ids \in Seq(D) /\ c \in D /\ c.entity = e
  BY DEF SafeIds
<1>2. ids' = Append(ids, c)
  BY DEF Register
<1> HIDE DEF D, c
<1>3. /\ ids' \in Seq(D) /\ Len(ids') = m + 1 /\ m \in Nat
      /\ DOMAIN ids = 1 .. m
      /\ \A i \in 1 .. m : ids'[i] = ids[i]
      /\ ids'[m + 1] = c
  BY <1>1, <1>2, AppendProperties, LenProperties
<1>4. DOMAIN ids' = 1 .. m + 1
  BY <1>3, LenProperties
<1>5. m + 1 \in 1 .. m + 1 /\ \A i \in 1 .. m + 1 : i \in 1 .. m \/ i = m + 1
  BY <1>3
<1>6. \A i \in 1 .. m : i \in 1 .. m + 1
  BY <1>3
<1>7. \A x : Identified(ids', x) <=> Identified(ids, x) \/ x = e
  BY <1>1, <1>3, <1>4, <1>5, <1>6 DEF Identified
<1> QED
  BY <1>3, <1>4, <1>7 DEF c

(* The ends of values.  What EndApplied copies is what the data hold.      *)
Copied == [heap EXCEPT ![top.entity].slots = heap[top.data].slots]

LEMMA CopiedKept ==
  ASSUME LInv, HandInv, AliveInv, frames # <<>>, top.data # None
  PROVE  /\ SafeHeap(Copied) /\ Within(Copied) /\ Len(Copied) = Len(heap) /\ Kept(Copied)
         /\ \A e : HeldIn(Copied, e) => HeldIn(heap, e)
         /\ top.data \in Entities /\ top.entity \in Entities
         /\ \A x \in Entities : Copied[x].slots = IF x = top.entity THEN heap[top.data].slots
                                                  ELSE heap[x].slots
<1> DEFINE e == top.entity
           s == heap[top.data].slots
           r == [heap[e] EXCEPT !.slots = s]
           g == [heap EXCEPT ![e].slots = s]
<1>1. /\ SafeHeap(heap) /\ SafeFrames(frames, Len(heap)) /\ Len(heap) \in Nat
      /\ Entities = 1 .. Len(heap) /\ DOMAIN heap = Entities
  BY Records DEF LInv, Entities
<1>2. top.data \in Entities /\ e \in Entities
  BY <1>1, Stacked DEF None
<1>3. heap[e] \in Entity /\ Guarded(heap[e]) /\ s \in [Slots -> Nat]
  BY <1>1, <1>2, Records DEF SafeHeap
<1>4. \A k \in Slots : s[k] \in 0 .. Len(heap)
  BY <1>1, <1>2 DEF Within, HandInv
<1>5. \A x : (\E k \in Slots : s[k] = x) => HeldIn(heap, x)
  BY <1>1, <1>2 DEF HeldIn
<1>6. heap[e].alive
  BY <1>1, <1>2, OuterFrames DEF AliveInv, Known, Named
<1> HIDE DEF s
<1>7. r \in Entity /\ Guarded(r)
  BY <1>3, NewSlots
<1>8. r.slots = s /\ r.alive = heap[e].alive /\ r.kind = heap[e].kind /\ r.class = heap[e].class
  BY <1>3 DEF Entity
<1>9. g = [heap EXCEPT ![e] = r]
  OBVIOUS
<1> HIDE DEF r
<1>10. SafeHeap([heap EXCEPT ![e] = r]) /\ Len([heap EXCEPT ![e] = r]) = Len(heap)
  BY <1>1, <1>7, Replace
<1> HIDE DEF g
<1>11. SafeHeap(g) /\ Len(g) = Len(heap)
  BY <1>9, <1>10
<1>12. DOMAIN g = Entities /\ \A x \in Entities : g[x] = IF x = e THEN r ELSE heap[x]
  <2>1. heap = [x \in Entities |-> heap[x]]
    BY <1>1, LenProperties DEF SafeHeap
  <2> HIDE DEF e
  <2> QED
    BY <1>9, <2>1
<1>13. Within(g)
  BY <1>1, <1>4, <1>8, <1>11, <1>12 DEF Within, HandInv
<1>14. ASSUME NEW x, HeldIn(g, x) PROVE HeldIn(heap, x)
  <2>1. PICK y \in Entities, k \in Slots : g[y].slots[k] = x
    BY <1>12, <1>14 DEF HeldIn
  <2>2. CASE y = e
    BY <1>5, <1>8, <1>12, <2>1, <2>2
  <2>3. CASE y # e
    BY <1>1, <1>12, <2>1, <2>3 DEF HeldIn
  <2> QED
    BY <2>2, <2>3
<1>15. Kept(g)
  BY <1>1, <1>6, <1>8, <1>12 DEF Kept
<1>16. \A x \in Entities : g[x].slots = IF x = e THEN s ELSE heap[x].slots
  BY <1>8, <1>12
<1>17. Copied = g
  BY DEF Copied, g, s
<1> QED
  BY <1>2, <1>11, <1>13, <1>14, <1>15, <1>16, <1>17 DEF s

LEMMA TameEnd ==
  ASSUME LInv, HandInv, AliveInv, EndValue \/ EndHooked \/ EndApplied
  PROVE  Tame /\ PutAs(Outer(frames))
<1>1. /\ SafeHeap(heap) /\ SafeIds(ids, Len(heap)) /\ SafeFrames(frames, Len(heap))
      /\ Len(heap) \in Nat /\ Kept(heap) /\ frames # <<>>
  BY Records, SameKept DEF LInv, EndValue, EndHooked, EndApplied
<1>2. \A e : e # None /\ HeldIn(heap, e) => Known(e)
  BY DEF Known
<1>3. /\ SafeFrames(Outer(frames), Len(heap)) /\ top.entity \in 1 .. Len(heap)
      /\ top.data \in 0 .. Len(heap) /\ top.entity \in 0 .. Len(heap)
      /\ \A e : InFrames(Outer(frames), e) => InFrames(frames, e)
      /\ Known(top.entity) /\ Known(top.data)
  BY <1>1, Stacked, OuterFrames DEF Known, Named
<1>4. user' = user /\ buffer' = buffer
  BY DEF EndValue, EndHooked, EndApplied, Token
<1>5. \/ deferred' = deferred \/ Queue(top.entity, None) \/ Queue(top.entity, top.data)
  BY DEF EndValue, EndHooked, EndApplied
<1>6. ids' = ids \/ Register(top.entity, "array")
  BY DEF EndValue, EndHooked, EndApplied
<1>7. /\ SafeQueue(deferred', Len(heap))
      /\ \A e : e # None /\ Queued(deferred', e) => Known(e)
  <2>1. SafeQueue(deferred, Len(heap)) /\ None \in 0 .. Len(heap)
    BY <1>1 DEF HandInv, None
  <2>2. \A e : Queued(deferred, e) => Known(e)
    BY DEF Known, Named
  <2>3. CASE deferred' = deferred
    BY <2>1, <2>2, <2>3
  <2>4. ASSUME NEW data \in 0 .. Len(heap), data # None => Known(data), Queue(top.entity, data)
        PROVE  /\ SafeQueue(deferred', Len(heap))
               /\ \A e : e # None /\ Queued(deferred', e) => Known(e)
    <3> DEFINE n == Len(heap)
               e == top.entity
    <3>1. n \in Nat /\ SafeQueue(deferred, n) /\ e \in 1 .. n /\ data \in 0 .. n
          /\ Queue(e, data)
      BY <1>1, <1>3, <2>1, <2>4
    <3> HIDE DEF n, e
    <3>2. /\ SafeQueue(deferred', n)
          /\ \A x : Queued(deferred', x) <=> Queued(deferred, x) \/ x = e \/ x = data
      BY <3>1, QueueOne
    <3> QED
      BY <1>3, <2>2, <2>4, <3>2 DEF n, e
  <2>5. CASE Queue(top.entity, None)
    BY <2>1, <2>4, <2>5
  <2>6. CASE Queue(top.entity, top.data)
    BY <1>3, <2>4, <2>6
  <2> QED
    BY <1>5, <2>3, <2>5, <2>6
<1>8. \A e : Identified(ids', e) => Known(e)
  <2>1. \A e : Identified(ids, e) => Known(e)
    BY DEF Known, Named
  <2>2. CASE ids' = ids
    BY <2>1, <2>2
  <2>3. CASE Register(top.entity, "array")
    <3>1. \A x : Identified(ids', x) <=> Identified(ids, x) \/ x = top.entity
      BY <1>1, <1>3, <2>3, RegisterOne
    <3> QED
      BY <1>3, <2>1, <3>1
  <2> QED
    BY <1>6, <2>2, <2>3
<1>9. Tables(Len(heap))
  BY <1>4, <1>7, <1>8 DEF Known, Named, HandInv, Tables
<1>10. CASE EndValue \/ EndHooked
  <2>1. Put(top.entity, heap, Outer(frames), <<>>, FALSE)
    BY <1>10 DEF EndValue, EndHooked
  <2>2. Decoded(top.entity, heap, Outer(frames), <<>>)
    BY <1>1, <1>2, <1>3, NoValue DEF HandInv, Decoded
  <2> QED
    BY <1>9, <2>1, <2>2, PutTame DEF PutNames
<1>11. CASE EndApplied
  <2>1. Put(top.entity, Copied, Outer(frames), <<top.data>>, NotesData(top.data)) /\ top.data # None
    BY <1>11 DEF EndApplied, Copied
  <2>2. /\ SafeHeap(Copied) /\ Within(Copied) /\ Len(Copied) = Len(heap) /\ Kept(Copied)
        /\ \A e : HeldIn(Copied, e) => HeldIn(heap, e)
    BY <1>1, <2>1, CopiedKept
  <2>3. <<top.data>> \in Seq(0 .. Len(heap)) /\ \A e : In(<<top.data>>, e) => Known(e)
    BY <1>3, OneValue
  <2>4. Decoded(top.entity, Copied, Outer(frames), <<top.data>>)
    BY <1>1, <1>2, <1>3, <2>2, <2>3 DEF HandInv, Decoded
  <2> QED
    BY <1>9, <2>1, <2>2, <2>4, PutTame DEF PutNames
<1> QED
  BY <1>10, <1>11

LEMMA PushOne ==
  ASSUME NEW n \in Nat, NEW stack, SafeFrames(stack, n), NEW e \in 1 .. n,
         NEW what \in {"props", "skip", "hooked", "reference", "array", "shared"}
  PROVE  LET t == Append(stack, Frame(what, e))
         IN /\ DOMAIN stack = 1 .. Len(stack) /\ Len(stack) \in Nat
            /\ Len(t) = Len(stack) + 1 /\ DOMAIN t = 1 .. Len(stack) + 1
            /\ \A i \in 1 .. Len(stack) : t[i] = stack[i]
            /\ t[Len(stack) + 1] = Frame(what, e)
            /\ \A x : InFrames(t, x) <=> InFrames(stack, x) \/ x = e \/ x = None
<1> DEFINE C ==
      [what : {"props", "skip", "hooked", "reference", "referenced", "array", "shared"},
       entity : 1 .. n, data : 0 .. n, sawRef : BOOLEAN]
           c == Frame(what, e)
           m == Len(stack)
           t == Append(stack, c)
<1>1. stack \in Seq(C) /\ c \in C /\ c.entity = e /\ c.data = None
  BY DEF SafeFrames, Frame, None
<1> HIDE DEF C, c
<1>3. /\ t \in Seq(C) /\ Len(t) = m + 1 /\ m \in Nat
      /\ DOMAIN stack = 1 .. m
      /\ \A i \in 1 .. m : t[i] = stack[i]
      /\ t[m + 1] = c
  BY <1>1, AppendProperties, LenProperties
<1>4. DOMAIN t = 1 .. m + 1
  BY <1>3, LenProperties
<1> HIDE DEF t, m
<1>5. m + 1 \in 1 .. m + 1 /\ \A i \in 1 .. m + 1 : i \in 1 .. m \/ i = m + 1
  BY <1>3
<1>6. \A i \in 1 .. m : i \in 1 .. m + 1
  BY <1>3
<1>7. \A x : InFrames(t, x) <=> InFrames(stack, x) \/ x = e \/ x = None
  BY <1>1, <1>3, <1>4, <1>5, <1>6 DEF InFrames
<1> QED
  BY <1>3, <1>4, <1>7 DEF c, t, m

(* The tables and what is in hand still fit when an entity is added.       *)
LEMMA HandGrows ==
  ASSUME NEW n \in Nat, NEW m \in Nat, n <= m, NEW queue, NEW d, SafeQueue(queue, n), SafeDrops(d, n)
  PROVE  SafeQueue(queue, m) /\ SafeDrops(d, m)
<1> DEFINE Q(k) == [object : 1 .. k, data : 0 .. k]
           D(k) == [entity : 1 .. k, rooted : BOOLEAN, pin : BOOLEAN]
<1>1. Q(n) \subseteq Q(m)
  OBVIOUS
<1>2. D(n) \subseteq D(m)
  OBVIOUS
<1> QED
  BY <1>1, <1>2, SeqMonotonic DEF SafeQueue, SafeDrops

LEMMA TameBegin ==
  ASSUME LInv, HandInv, AliveInv, \/ \E class \in Classes : BeginObject(class)
                                  \/ BeginReference \/ BeginArray
  PROVE  Tame
<1>1. /\ SafeHeap(heap) /\ SafeIds(ids, Len(heap)) /\ SafeFrames(frames, Len(heap))
      /\ Len(heap) \in Nat /\ fresh = Len(heap) + 1 /\ fresh \in 1 .. fresh /\ fresh \in Nat
      /\ Entities = 1 .. Len(heap) /\ fresh \notin Entities /\ Len(heap) < MaxEntities
      /\ MaxEntities \in Nat
  BY Records, LifetimeAssumption DEF LInv, BeginObject, BeginReference, BeginArray, MayCreate
<1>2. UNCHANGED <<deferred, result, drops, user, buffer>>
  BY DEF BeginObject, BeginReference, BeginArray, Token
<1>3. PICK kind \in {"object", "reference", "array"}, class \in Classes \cup {NoClass} :
        heap' = Create(kind, class)
  BY DEF BeginObject, BeginReference, BeginArray
<1>4. ids' = ids \/ \E kinds \in {"object", "reference"} : Register(fresh, kinds)
  BY DEF BeginObject, BeginReference, BeginArray
<1>5. \E stack \in {frames, SawReference(frames)},
         what \in {"props", "skip", "hooked", "reference", "array", "shared"} :
           frames' = Append(stack, Frame(what, fresh))
  BY DEF BeginObject, BeginReference, BeginArray, ContentsOf
<1>6. \A x : InFrames(frames', x) => InFrames(frames, x) \/ x = fresh \/ x = None
  <2>1. PICK stack \in {frames, SawReference(frames)},
             what \in {"props", "skip", "hooked", "reference", "array", "shared"} :
           frames' = Append(stack, Frame(what, fresh))
    BY <1>5
  <2>2. SafeFrames(stack, Len(heap)) /\ \A x : InFrames(stack, x) <=> InFrames(frames, x)
    BY <1>1, Seen, SawSame
  <2>3. SafeFrames(stack, fresh)
    BY <1>1, <2>2, Grow
  <2>4. \A x : InFrames(frames', x) <=> InFrames(stack, x) \/ x = fresh \/ x = None
    <3> HIDE DEF fresh
    <3> QED
      BY <1>1, <2>1, <2>3, PushOne
  <2> QED
    BY <2>2, <2>4
<1>7. \A x : Identified(ids', x) => Identified(ids, x) \/ x = fresh
  <2>1. SafeIds(ids, fresh)
    BY <1>1, Grow
  <2>2. CASE ids' = ids
    BY <2>2
  <2>3. CASE \E kinds \in {"object", "reference"} : Register(fresh, kinds)
    <3> HIDE DEF fresh
    <3> QED
      BY <1>1, <2>1, <2>3, RegisterOne
  <2> QED
    BY <1>4, <2>2, <2>3
<1>8. /\ SafeHeap(heap') /\ Len(heap') = fresh /\ DOMAIN heap' = 1 .. fresh /\ Within(heap')
      /\ \A x \in Entities : heap'[x] = heap[x]
      /\ heap'[fresh].slots = Empty /\ heap'[fresh].alive
      /\ \A e : e # None /\ HeldIn(heap', e) => HeldIn(heap, e)
  BY <1>1, <1>3, CreateAdds DEF HandInv
<1>9. HandInv'
  <2>1. SafeQueue(deferred, fresh) /\ SafeDrops(drops, fresh)
    BY <1>1, HandGrows DEF HandInv
  <2>2. result \in 0 .. fresh /\ user \subseteq 1 .. fresh /\ buffer \subseteq 1 .. fresh
        /\ fresh <= MaxEntities
    BY <1>1 DEF HandInv
  <2> QED
    BY <1>2, <1>8, <2>1, <2>2 DEF HandInv
<1>10. Kept(heap')
  BY <1>1, <1>8 DEF Kept
<1>11. ASSUME NEW e, e # None, Known(e)' PROVE Known(e) \/ e = fresh
  BY <1>2, <1>6, <1>7, <1>8, <1>11 DEF Known, Named
<1> QED
  BY <1>9, <1>10, <1>11 DEF Tame

LEMMA TameLegacy ==
  ASSUME LInv, HandInv, AliveInv, NEW class \in Classes, ReadLegacy(class)
  PROVE  Tame /\ PutAs(frames)
<1>1. /\ SafeHeap(heap) /\ SafeIds(ids, Len(heap)) /\ SafeFrames(frames, Len(heap))
      /\ Len(heap) \in Nat /\ fresh = Len(heap) + 1 /\ fresh \in 1 .. fresh /\ fresh \in Nat
      /\ Entities = 1 .. Len(heap) /\ fresh \notin Entities /\ Len(heap) < MaxEntities
      /\ MaxEntities \in Nat /\ 1 \in Slots
  BY Records, LifetimeAssumption DEF LInv, ReadLegacy, MayCreate
<1>2. /\ UNCHANGED <<deferred, buffer>> /\ user' \subseteq user \cup {fresh}
      /\ Register(fresh, "object")
  BY DEF ReadLegacy, Token
<1>3. PICK v \in Reach(user) \cup {fresh, None} :
        Put(fresh, Write(Create("object", class), fresh, 1, v), frames, <<>>, TRUE)
  BY DEF ReadLegacy
<1>4. user \subseteq Entities
  BY <1>1 DEF HandInv
<1>5. (v # None => Known(v) \/ v = fresh) /\ v \in 0 .. fresh /\ v \in Nat
  <2>1. CASE v \in Reach(user)
    <3>1. v \in user \/ HeldIn(heap, v)
      BY <1>4, <2>1, ReachSeen DEF HandInv
    <3>2. v \in 1 .. Len(heap)
      BY <1>1, <2>1, Records
    <3> QED
      BY <1>1, <3>1, <3>2 DEF Known, Named
  <2>2. CASE v \notin Reach(user)
    BY <1>1, <1>3, <2>2 DEF None
  <2> QED
    BY <2>1, <2>2
<1> DEFINE c == Create("object", class)
           graph == Write(c, fresh, 1, v)
<1>6. /\ SafeHeap(c) /\ Len(c) = fresh /\ DOMAIN c = 1 .. fresh /\ Within(c)
      /\ \A x \in Entities : c[x] = heap[x]
      /\ c[fresh].alive
      /\ \A e : e # None /\ HeldIn(c, e) => HeldIn(heap, e)
  BY CreateAdds DEF HandInv
<1> HIDE DEF c
<1>7. SafeHeap(graph) /\ Len(graph) = fresh
  BY <1>5, <1>6, SlotWrite
<1>8. Wrote(graph, c, fresh, 1, v)
  BY <1>1, <1>5, <1>6, WriteOne
<1>9. Put(fresh, graph, frames, <<>>, TRUE)
  BY <1>3 DEF c
<1> HIDE DEF graph
<1>10. DOMAIN graph = 1 .. fresh /\ Within(graph)
  BY <1>1, <1>5, <1>6, <1>7, <1>8 DEF Within, Wrote
<1>11. ASSUME NEW e, e # None, HeldIn(graph, e) PROVE Known(e) \/ e = fresh
  <2>1. HeldIn(c, e) \/ e = v
    BY <1>8, <1>11 DEF HeldIn, Wrote
  <2> QED
    BY <1>5, <1>6, <1>11, <2>1 DEF Known
<1>12. Kept(graph)
  BY <1>1, <1>6, <1>8, <1>10 DEF Kept, Wrote
<1>13. Decoded(fresh, graph, frames, <<>>)
  <2>1. SafeFrames(frames, fresh) /\ fresh \in 0 .. fresh
    BY <1>1, Grow
  <2>2. <<>> \in Seq(0 .. fresh) /\ \A e : ~ In(<<>>, e)
    BY NoValue
  <2> QED
    BY <1>1, <1>7, <1>10, <1>11, <1>12, <2>1, <2>2 DEF Decoded
<1>14. Tables(Len(graph))
  <2>1. \A x : Identified(ids', x) <=> Identified(ids, x) \/ x = fresh
    <3>1. SafeIds(ids, fresh)
      BY <1>1, Grow
    <3> HIDE DEF fresh
    <3> QED
      BY <1>1, <1>2, <3>1, RegisterOne
  <2>2. SafeQueue(deferred, fresh)
    BY <1>1, HandGrows DEF HandInv
  <2>3. user' \subseteq 1 .. fresh
    BY <1>1, <1>2 DEF HandInv
  <2> QED
    BY <1>2, <1>7, <2>1, <2>2, <2>3 DEF Tables, Known, Named
<1> QED
  BY <1>9, <1>13, <1>14, PutTame DEF PutNames

(* Steps that change no slot and make nothing.                             *)
LEMMA SlotsSame ==
  ASSUME LInv, NEW g, SameSlots(heap, g)
  PROVE  /\ Kept(g) /\ \A e : HeldIn(g, e) <=> HeldIn(heap, e)
         /\ (Within(heap) => Within(g))
BY DEF SameSlots, Kept, HeldIn, Within, Entities

LEMMA TameSame ==
  ASSUME LInv, HandInv, SameSlots(heap, heap'),
         SafeQueue(deferred', Len(heap)), SafeDrops(drops', Len(heap)),
         result' \in 0 .. Len(heap),
         user' \subseteq 1 .. Len(heap), buffer' \subseteq 1 .. Len(heap),
         \A e : e # None /\ Named(e)' => Known(e),
         \A e \in buffer' : Known(e)
  PROVE  Tame
<1>1. Kept(heap') /\ (\A e : HeldIn(heap', e) <=> HeldIn(heap, e)) /\ Within(heap')
      /\ Len(heap') = Len(heap)
  BY SlotsSame DEF HandInv, SameSlots
<1>2. HandInv'
  BY <1>1 DEF HandInv
<1>3. ASSUME NEW e, e # None, Known(e)' PROVE Known(e)
  BY <1>1, <1>3 DEF Known
<1> QED
  BY <1>1, <1>2, <1>3 DEF Tame

(* User code that keeps what it can reach from something known.            *)
LEMMA ReachKnown ==
  ASSUME LInv, HandInv, NEW from, from \subseteq Entities, \A e \in from : Known(e)
  PROVE  \A e \in Reach(from) : Known(e) /\ e \in 1 .. Len(heap)
<1> SUFFICES ASSUME NEW e \in Reach(from) PROVE Known(e) /\ e \in 1 .. Len(heap)
  OBVIOUS
<1>1. e \in from \/ HeldIn(heap, e)
  BY ReachSeen DEF HandInv
<1>2. e \in Entities /\ Entities = 1 .. Len(heap)
  BY Records
<1> QED
  BY <1>1, <1>2 DEF Known

LEMMA SuspectsReached ==
  ASSUME LInv, HandInv
  PROVE  /\ Garbage \subseteq Suspects /\ Suspects \subseteq Entities
         /\ \A e \in Suspects : Known(e)
<1>1. buffer \subseteq Entities
  BY Records DEF HandInv
<1>2. \A e \in buffer : Known(e)
  BY DEF Known
<1> QED
  BY <1>1, <1>2, ReachKnown, Records DEF Garbage, Suspects

LEMMA HeadDropped ==
  ASSUME LInv, HandInv, Busy
  PROVE  /\ head \in [entity : 1 .. Len(heap), rooted : BOOLEAN, pin : BOOLEAN]
         /\ head = drops[1] /\ 1 \in DOMAIN drops /\ DOMAIN drops = 1 .. Len(drops)
         /\ head.entity \in Entities /\ Known(head.entity) /\ Dropping(drops, head.entity)
         /\ SafeDrops(Tail(drops), Len(heap))
         /\ \A e : Dropping(Tail(drops), e) => Dropping(drops, e)
         /\ DOMAIN Tail(drops) = 1 .. Len(drops) - 1
         /\ \A i \in 1 .. Len(drops) - 1 : Tail(drops)[i] = drops[i + 1]
         /\ Len(drops) \in Nat \ {0}
         /\ \A e : Dropping(drops, e) => e = head.entity \/ Dropping(Tail(drops), e)
<1> DEFINE D == [entity : 1 .. Len(heap), rooted : BOOLEAN, pin : BOOLEAN]
           t == Tail(drops)
           m == Len(drops)
<1>1. drops \in Seq(D) /\ drops # <<>>
  BY DEF HandInv, SafeDrops, Busy
<1> HIDE DEF D
<1>2. m \in Nat \ {0} /\ DOMAIN drops = 1 .. m /\ drops[1] \in D
      /\ head = drops[1]
  BY <1>1, EmptySeq, LenProperties, ElementOfSeq, HeadTailProperties DEF head
<1>3. t \in Seq(D) /\ Len(t) = m - 1 /\ \A i \in 1 .. Len(t) : t[i] = drops[i + 1]
  BY <1>1, HeadTailProperties
<1>4. DOMAIN t = 1 .. m - 1
  BY <1>3, LenProperties
<1>5. Len(heap) \in Nat /\ Entities = 1 .. Len(heap)
  BY Records
<1> HIDE DEF t, m
<1>6. \A i \in 1 .. m - 1 : i + 1 \in 1 .. m
  BY <1>2
<1>7. 1 \in 1 .. m /\ \A i \in 1 .. m : i = 1 \/ (i - 1 \in 1 .. m - 1 /\ i = (i - 1) + 1)
  BY <1>2
<1>8. \A e : Dropping(t, e) => Dropping(drops, e)
  BY <1>2, <1>3, <1>4, <1>6 DEF Dropping
<1>9. ASSUME NEW e, Dropping(drops, e) PROVE e = head.entity \/ Dropping(t, e)
  <2>1. PICK i \in 1 .. m : drops[i].entity = e
    BY <1>2, <1>9 DEF Dropping
  <2>2. CASE i = 1
    BY <1>2, <2>1, <2>2
  <2>3. CASE i # 1
    <3>1. i - 1 \in 1 .. m - 1 /\ i = (i - 1) + 1
      BY <1>7, <2>3
    <3>2. t[i - 1] = drops[(i - 1) + 1]
      BY <1>3, <1>4, <3>1
    <3>3. t[i - 1].entity = e
      BY <2>1, <3>1, <3>2
    <3> QED
      BY <1>4, <3>1, <3>3 DEF Dropping
  <2> QED
    BY <2>2, <2>3
<1>10. head.entity \in Entities /\ Dropping(drops, head.entity)
  BY <1>2, <1>5, <1>7 DEF D, Dropping
<1>11. SafeDrops(t, Len(heap))
  BY <1>3 DEF SafeDrops, D
<1>12. \A i \in 1 .. m - 1 : t[i] = drops[i + 1]
  BY <1>3, <1>4
<1>13. Known(head.entity)
  BY <1>10 DEF Known, Named
<1> QED
  BY <1>2, <1>4, <1>7, <1>8, <1>9, <1>10, <1>11, <1>12, <1>13 DEF D, t, m

LEMMA TameSurvives ==
  ASSUME LInv, HandInv, AliveInv, Survives
  PROVE  Tame
<1>1. /\ UNCHANGED <<heap, ids, deferred, frames, result, user>> /\ drops' = Tail(drops) /\ Busy
      /\ buffer' \subseteq buffer \cup Offered(head.entity)
  BY DEF Survives, graphVars
<1>2. /\ SafeDrops(Tail(drops), Len(heap)) /\ head.entity \in Entities /\ Known(head.entity)
      /\ \A e : Dropping(Tail(drops), e) => Dropping(drops, e)
  BY <1>1, HeadDropped
<1>3. \A e \in Offered(head.entity) : e \in Entities /\ Known(e)
  BY <1>2, HeldWithin DEF HandInv, Offered, Known, HeldIn, Entities
<1>4. SameSlots(heap, heap') /\ Entities = 1 .. Len(heap)
  BY <1>1, Records DEF SameSlots
<1>5. ASSUME NEW e, e # None, Named(e)' PROVE Known(e)
  BY <1>1, <1>2, <1>5 DEF Named, Known
<1>6. \A e \in buffer' : Known(e)
  BY <1>1, <1>3 DEF Known
<1>7. buffer' \subseteq 1 .. Len(heap)
  BY <1>1, <1>3, <1>4 DEF HandInv
<1> QED
  BY <1>1, <1>2, <1>4, <1>5, <1>6, <1>7, TameSame DEF HandInv

LEMMA TameDestruct ==
  ASSUME LInv, HandInv, AliveInv, CallDestructor \/ CollectDestructor
  PROVE  Tame
<1>1. PICK e \in Entities : Known(e) /\ Destruct(e)
  <2>1. CASE CallDestructor
    BY <2>1, HeadDropped DEF CallDestructor
  <2>2. CASE CollectDestructor
    BY <2>2, SuspectsReached DEF CollectDestructor
  <2> QED
    BY <2>1, <2>2
<1>2. UNCHANGED <<ids, deferred, frames, result, drops, buffer>>
  BY DEF CallDestructor, CollectDestructor
<1>3. SameSlots(heap, heap') /\ Entities = 1 .. Len(heap)
  BY <1>1, FlagsOnly, Records
<1>4. \A x \in Reach({e}) : Known(x) /\ x \in 1 .. Len(heap)
  BY <1>1, ReachKnown
<1>5. user' \subseteq user \cup Reach({e})
  BY <1>1 DEF Destruct
<1>6. user' \subseteq 1 .. Len(heap) /\ \A x \in user' : Known(x)
  BY <1>4, <1>5 DEF HandInv, Known, Named
<1>7. ASSUME NEW x, x # None, Named(x)' PROVE Known(x)
  BY <1>2, <1>6, <1>7 DEF Named, Known
<1>8. \A x \in buffer' : Known(x)
  BY <1>2 DEF Known
<1> QED
  BY <1>2, <1>3, <1>6, <1>7, <1>8, TameSame DEF HandInv

(* What a hook sees.                                                       *)
LEMMA VisibleKnown ==
  ASSUME LInv, HandInv, next \in DOMAIN deferred
  PROVE  /\ \A e \in Visible : Known(e) /\ e \in 1 .. Len(heap)
         /\ called.object \in Entities /\ called.data \in 0 .. Len(heap)
<1>1. called \in [object : 1 .. Len(heap), data : 0 .. Len(heap)]
  BY LenProperties, ElementOfSeq DEF HandInv, SafeQueue, called
<1>2. Entities = 1 .. Len(heap) /\ Len(heap) \in Nat
  BY Records
<1>3. called.object \in Entities /\ called.data \in 0 .. Len(heap)
  BY <1>1, <1>2
<1> DEFINE from == user \cup ({called.object, called.data} \ {None})
<1>4. from \subseteq Entities
  <2>1. user \subseteq Entities
    BY <1>2 DEF HandInv
  <2>2. called.data # None => called.data \in Entities
    BY <1>2, <1>3 DEF None
  <2> QED
    BY <1>3, <2>1, <2>2
<1>5. \A e \in from : Known(e)
  BY DEF Known, Named, Queued, called
<1> HIDE DEF from
<1>6. \A e \in Reach(from) : Known(e) /\ e \in 1 .. Len(heap)
  BY <1>4, <1>5, ReachKnown
<1>7. Visible = Reach(from)
  BY DEF Visible, from
<1> QED
  BY <1>3, <1>6, <1>7

LEMMA TameAssign ==
  ASSUME LInv, HandInv, AliveInv, next \in DOMAIN deferred, Assign
  PROVE  Tame
<1>1. PICK e \in Visible, k \in Slots, v \in Visible \cup {None} :
        heap' = Write(heap, e, k, v) /\ drops' = DropAll(<<heap[e].slots[k]>>)
  BY DEF Assign
<1>2. UNCHANGED <<ids, deferred, frames, result, user, buffer>>
  BY DEF Assign, Statement
<1>3. /\ SafeHeap(heap) /\ Len(heap) \in Nat /\ Entities = 1 .. Len(heap) /\ DOMAIN heap = Entities
      /\ Len(heap) <= MaxEntities
  BY Records DEF LInv, HandInv, Entities
<1>4. Known(e) /\ e \in Entities /\ (v # None => Known(v)) /\ v \in 0 .. Len(heap) /\ v \in Nat
  BY <1>1, <1>3, VisibleKnown DEF None
<1> DEFINE w == Write(heap, e, k, v)
           old == heap[e].slots[k]
<1>5. SafeHeap(w) /\ Len(w) = Len(heap)
  BY <1>3, <1>4, SlotWrite
<1>6. Wrote(w, heap, e, k, v)
  BY <1>1, <1>3, <1>4, WriteOne
<1>7. heap' = w
  BY <1>1
<1> HIDE DEF w
<1>8. Within(w)
  BY <1>3, <1>4, <1>5, <1>6 DEF Within, Wrote, HandInv
<1>9. old \in 0 .. Len(heap) /\ (old # None => Known(old))
  BY <1>1, <1>3, <1>4 DEF Within, HandInv, Known, HeldIn
<1> HIDE DEF old
<1>10. /\ SafeDrops(DropAll(<<old>>), Len(heap))
       /\ \A x : Dropping(DropAll(<<old>>), x) => x = old /\ x # None
  <2>1. <<old>> \in Seq(0 .. Len(heap))
    BY <1>9
  <2> QED
    BY <1>3, <2>1, DropAllSafe, OneValue
<1>11. drops' = DropAll(<<old>>)
  BY <1>1 DEF old
<1>12. HandInv'
  BY <1>2, <1>5, <1>7, <1>8, <1>10, <1>11 DEF HandInv
<1>13. Kept(heap')
  <2>1. heap[e].alive
    BY <1>4 DEF AliveInv
  <2>2. \A x \in Entities : w[x].slots = heap[x].slots \/ heap[x].alive
    BY <1>3, <1>6, <2>1 DEF Wrote
  <2> QED
    BY <1>3, <1>6, <1>7, <2>2 DEF Kept, Wrote
<1>14. ASSUME NEW x, x # None, Known(x)' PROVE Known(x)
  <2>1. HeldIn(w, x) => HeldIn(heap, x) \/ x = v
    BY <1>6 DEF HeldIn, Wrote
  <2>2. Dropping(drops', x) => Known(x)
    BY <1>9, <1>10, <1>11
  <2> QED
    BY <1>2, <1>4, <1>7, <1>14, <2>1, <2>2 DEF Known, Named
<1> QED
  BY <1>12, <1>13, <1>14 DEF Tame

LEMMA OneDropped ==
  ASSUME NEW n \in Nat, NEW e \in 0 .. n
  PROVE  /\ SafeDrops(DropAll(<<e>>), n)
         /\ \A x : Dropping(DropAll(<<e>>), x) <=> x = e /\ x # None
<1>1. <<e>> \in Seq(0 .. n)
  OBVIOUS
<1> QED
  BY <1>1, DropAllSafe, OneValue

LEMMA TameKeep ==
  ASSUME LInv, HandInv, AliveInv, next \in DOMAIN deferred, Keep \/ Forget
  PROVE  Tame
<1>1. UNCHANGED <<heap, ids, deferred, frames, result, buffer>>
  BY DEF Keep, Forget, Statement
<1>2. SameSlots(heap, heap') /\ Len(heap) \in Nat
  BY <1>1, Records DEF SameSlots
<1>3. user' \subseteq 1 .. Len(heap) /\ \A e \in user' : Known(e)
  <2>1. CASE Keep
    BY <2>1, VisibleKnown DEF Keep, HandInv, Known, Named
  <2>2. CASE Forget
    BY <2>2 DEF Forget, HandInv, Known, Named
  <2> QED
    BY <2>1, <2>2
<1>4. /\ SafeDrops(drops', Len(heap))
      /\ \A e : Dropping(drops', e) => Known(e)
  <2>1. CASE Keep
    BY <2>1 DEF Keep, HandInv, Known, Named
  <2>2. CASE Forget
    <3>1. PICK e \in user : drops' = DropAll(<<e>>)
      BY <2>2 DEF Forget
    <3>2. e \in 0 .. Len(heap)
      BY <1>2, <3>1 DEF HandInv
    <3>3. Known(e)
      BY DEF Known, Named
    <3> QED
      BY <1>2, <3>1, <3>2, <3>3, OneDropped
  <2> QED
    BY <2>1, <2>2
<1>5. ASSUME NEW x, x # None, Named(x)' PROVE Known(x)
  BY <1>1, <1>3, <1>4, <1>5 DEF Named, Known
<1>6. \A x \in buffer' : Known(x)
  BY <1>1 DEF Known
<1> QED
  BY <1>1, <1>2, <1>3, <1>4, <1>5, <1>6, TameSame DEF HandInv

LEMMA TameHook ==
  ASSUME LInv, HandInv, AliveInv, HookReturns
  PROVE  Tame
<1>1. UNCHANGED <<ids, deferred, frames, result, buffer, drops, user>>
  BY DEF HookReturns, Rest
<1>2. SameSlots(heap, heap')
  BY FlagsOnly
<1>3. ASSUME NEW x, x # None, Named(x)' PROVE Known(x)
  BY <1>1, <1>3 DEF Named, Known
<1>4. \A x \in buffer' : Known(x)
  BY <1>1 DEF Known
<1> QED
  BY <1>1, <1>2, <1>3, <1>4, TameSame DEF HandInv

LEMMA TameIdle ==
  ASSUME LInv, HandInv, AliveInv, UNCHANGED <<heap, ids, deferred, frames, result, buffer, drops, user>>
  PROVE  Tame
<1>1. SameSlots(heap, heap')
  BY DEF SameSlots
<1>2. ASSUME NEW x, x # None, Named(x)' PROVE Known(x)
  BY <1>2 DEF Named, Known
<1>3. \A x \in buffer' : Known(x)
  BY DEF Known
<1> QED
  BY <1>1, <1>2, <1>3, TameSame DEF HandInv

(* The whole walk is given up: what it held is dropped.                    *)
LEMMA AbandonDrops ==
  ASSUME LInv, HandInv, NEW value \in Seq(0 .. Len(heap)), Abandon(value)
  PROVE  /\ SafeDrops(drops', Len(heap))
         /\ \A e : Dropping(drops', e) <=>
              \/ e # None /\ (In(value, e) \/ InFrames(frames, e) \/ result = e)
              \/ Pinned(ids, e) \/ (e # None /\ Queued(deferred, e))
         /\ \A i \in DOMAIN drops' : drops'[i].rooted
<1> DEFINE n == Len(heap)
           first == DropAll(value \o Unwound \o <<result>>)
<1>1. n \in Nat /\ SafeFrames(frames, n) /\ SafeIds(ids, n) /\ SafeQueue(deferred, n)
      /\ value \in Seq(0 .. n) /\ result \in 0 .. n
  BY Records DEF LInv, HandInv
<1>2. drops' = first \o Releases(FALSE)
  BY DEF Abandon, Destroy
<1> HIDE DEF n
<1>3. Unwound \in Seq(0 .. n) /\ \A e : In(Unwound, e) <=> InFrames(frames, e)
  BY <1>1, UnwoundValues
<1>4. /\ (value \o Unwound) \o <<result>> \in Seq(0 .. n)
      /\ \A e : In((value \o Unwound) \o <<result>>, e)
                  <=> In(value, e) \/ InFrames(frames, e) \/ e = result
  <2> DEFINE S == 0 .. n
  <2>1. value \in Seq(S) /\ Unwound \in Seq(S) /\ <<result>> \in Seq(S)
    BY <1>1, <1>3
  <2> HIDE DEF S
  <2>2. value \o Unwound \in Seq(S) /\ \A e : In(value \o Unwound, e) <=> In(value, e) \/ In(Unwound, e)
    BY <2>1, ValuesJoin
  <2> DEFINE vu == value \o Unwound
  <2>3. vu \in Seq(S)
    BY <2>2
  <2> HIDE DEF vu
  <2>4. vu \o <<result>> \in Seq(S)
        /\ \A e : In(vu \o <<result>>, e) <=> In(vu, e) \/ In(<<result>>, e)
    BY <2>1, <2>3, ValuesJoin
  <2> QED
    BY <1>3, <2>2, <2>4, OneValue DEF vu, S
<1>5. /\ SafeDrops(first, n)
      /\ \A e : Dropping(first, e) <=> e # None /\ (In(value, e) \/ InFrames(frames, e) \/ e = result)
      /\ \A i \in DOMAIN first : first[i].rooted
  BY <1>1, <1>4, DropAllSafe
<1>6. /\ SafeDrops(Releases(FALSE), n)
      /\ \A e : Dropping(Releases(FALSE), e)
                     <=> Pinned(ids, e) \/ (e # None /\ Queued(deferred, e))
      /\ \A i \in DOMAIN Releases(FALSE) : Releases(FALSE)[i].rooted
  BY <1>1, ReleasedValues
<1> HIDE DEF first
<1>7. /\ SafeDrops(drops', n)
      /\ \A e : Dropping(drops', e) <=> Dropping(first, e) \/ Dropping(Releases(FALSE), e)
      /\ \A i \in DOMAIN drops' :
           \/ \E j \in DOMAIN first : drops'[i] = first[j]
           \/ \E j \in DOMAIN Releases(FALSE) : drops'[i] = Releases(FALSE)[j]
  <2> DEFINE second == Releases(FALSE)
             d == first \o second
  <2>1. SafeDrops(first, n) /\ SafeDrops(second, n)
    BY <1>5, <1>6
  <2> HIDE DEF second
  <2>2. /\ SafeDrops(d, n)
        /\ \A e : Dropping(d, e) <=> Dropping(first, e) \/ Dropping(second, e)
        /\ \A i \in DOMAIN d : \/ \E j \in DOMAIN first : d[i] = first[j]
                               \/ \E j \in DOMAIN second : d[i] = second[j]
    BY <1>1, <2>1, DropsJoin
  <2>3. drops' = d
    BY <1>2 DEF second
  <2> HIDE DEF d
  <2> QED
    BY <2>2, <2>3 DEF second
<1> QED
  BY <1>5, <1>6, <1>7 DEF n

(* The steps that end the decode.                                          *)
LEMMA TameEnds ==
  ASSUME LInv, HandInv, AliveInv, Fail \/ Refuse \/ HooksDone
  PROVE  Tame
<1>1. /\ UNCHANGED <<heap, user, buffer>> /\ ids' = <<>> /\ deferred' = <<>>
      /\ frames' = <<>> \/ frames' = frames
      /\ result' = None \/ result' = result
  BY DEF Fail, Refuse, HooksDone, Abandon, Destroy, Rest
<1>2. SameSlots(heap, heap') /\ Len(heap) \in Nat
  BY <1>1, Records DEF SameSlots
<1>3. /\ SafeDrops(drops', Len(heap))
      /\ \A e : Dropping(drops', e) => Known(e)
  <2>1. ASSUME NEW value \in Seq(0 .. Len(heap)), \A e : In(value, e) => Known(e), Abandon(value)
        PROVE  /\ SafeDrops(drops', Len(heap))
               /\ \A e : Dropping(drops', e) => Known(e)
    BY <2>1, AbandonDrops DEF Known, Named, Pinned, Identified
  <2>2. CASE Fail
    <3>1. Abandon(<<>>) /\ <<>> \in Seq(0 .. Len(heap)) /\ \A e : ~ In(<<>>, e)
      BY <2>2, NoValue DEF Fail
    <3> QED
      BY <2>1, <3>1
  <2>3. CASE Refuse
    <3>1. PICK i \in DOMAIN ids : Abandon(<<ids[i].entity>>)
      BY <2>3 DEF Refuse
    <3>2. Known(ids[i].entity) /\ ids[i].entity \in 0 .. Len(heap)
      <4>1. ids[i] \in [entity : 1 .. Len(heap), pinned : BOOLEAN]
        BY LenProperties, ElementOfSeq DEF LInv, SafeIds
      <4> QED
        BY <1>2, <4>1 DEF Known, Named, Identified
    <3> DEFINE e == ids[i].entity
    <3>3. <<e>> \in Seq(0 .. Len(heap)) /\ \A x : In(<<e>>, x) => Known(x)
      BY <3>2, OneValue
    <3> HIDE DEF e
    <3>4. Abandon(<<e>>)
      BY <3>1 DEF e
    <3> QED
      BY <2>1, <3>3, <3>4
  <2>4. CASE HooksDone
    <3>1. drops' = <<>> \o Releases(ResultLive) /\ ResultLive \in BOOLEAN
      BY <2>4 DEF HooksDone, Destroy, ResultLive
    <3>2. /\ SafeDrops(Releases(ResultLive), Len(heap))
          /\ \A e : Dropping(Releases(ResultLive), e) => Known(e)
      BY <1>2, <3>1, ReleasedValues DEF HandInv, LInv, Known, Named, Pinned, Identified
    <3>3. drops' = Releases(ResultLive)
      BY <3>1, <3>2, ConcatEmptySeq DEF SafeDrops
    <3> QED
      BY <3>2, <3>3
  <2> QED
    BY <2>2, <2>3, <2>4
<1>4. SafeQueue(<<>>, Len(heap)) /\ None \in 0 .. Len(heap)
  BY <1>2 DEF SafeQueue, None
<1>5. ASSUME NEW x, x # None, Named(x)' PROVE Known(x)
  BY <1>1, <1>3, <1>5 DEF Named, Known, Identified, Queued, InFrames
<1>6. \A x \in buffer' : Known(x)
  BY <1>1 DEF Known
<1>7. SafeQueue(deferred', Len(heap)) /\ result' \in 0 .. Len(heap)
  BY <1>1, <1>4 DEF HandInv
<1> QED
  BY <1>1, <1>2, <1>3, <1>5, <1>6, <1>7, TameSame DEF HandInv

LEMMA SingleDrop ==
  ASSUME NEW n \in Nat, NEW e \in 1 .. n, NEW d,
         (\E b \in BOOLEAN : d = <<Drop(e, b)>>) \/ d = Dropped(<<e>>)
  PROVE  SafeDrops(d, n) /\ \A x : Dropping(d, x) <=> x = e
<1> DEFINE D == [entity : 1 .. n, rooted : BOOLEAN, pin : BOOLEAN]
<1>1. CASE \E b \in BOOLEAN : d = <<Drop(e, b)>>
  <2>1. PICK b \in BOOLEAN : d = <<Drop(e, b)>>
    BY <1>1
  <2>2. Drop(e, b) \in D /\ Drop(e, b).entity = e
    BY DEF Drop
  <2> HIDE DEF D
  <2>3. <<Drop(e, b)>> \in Seq(D)
    BY <2>2
  <2> QED
    BY <2>1, <2>2, <2>3 DEF SafeDrops, D, Dropping
<1>2. CASE d = Dropped(<<e>>)
  <2> DEFINE q == <<e>>
  <2>0. DOMAIN q = 1 .. 1 /\ q[1] = e
    OBVIOUS
  <2>a. d = [i \in DOMAIN q |-> Drop(q[i], TRUE)]
    BY <1>2 DEF Dropped
  <2> HIDE DEF q
  <2>1. DOMAIN d = 1 .. 1 /\ \A i \in 1 .. 1 : d[i] = Drop(q[i], TRUE) /\ i = 1
    BY <2>0, <2>a
  <2>2. Drop(e, TRUE) \in D /\ Drop(e, TRUE).entity = e
    BY DEF Drop
  <2>3. \A i \in 1 .. 1 : d[i] = Drop(e, TRUE)
    BY <2>0, <2>1
  <2>b. 1 \in 1 .. 1 /\ 1 \in Nat
    OBVIOUS
  <2> HIDE DEF D
  <2>4. d \in [1 .. 1 -> D]
    BY <2>0, <2>a, <2>2, <2>3
  <2>5. d \in Seq(D)
    BY <2>b, <2>4, SeqDef
  <2>6. \A x : Dropping(d, x) <=> x = e
    BY <2>b, <2>1, <2>2, <2>3 DEF Dropping
  <2> QED
    BY <2>5, <2>6 DEF SafeDrops, D
<1> QED
  BY <1>1, <1>2

LEMMA TameReturns ==
  ASSUME LInv, HandInv, AliveInv, Unwrap \/ Return \/ Discard
  PROVE  Tame
<1>1. UNCHANGED <<heap, ids, deferred, frames, user>>
  BY DEF Unwrap, Return, Discard, Rest
<1>2. SameSlots(heap, heap') /\ Len(heap) \in Nat /\ Entities = 1 .. Len(heap) /\ 1 \in Slots
  BY <1>1, Records DEF SameSlots
<1>3. result \in 0 .. Len(heap) /\ None \in 0 .. Len(heap) /\ (result # None => Known(result))
      /\ (result # None => result \in Entities)
  BY <1>2 DEF HandInv, None, Known, Named
<1>4. CASE Unwrap
  <2>1. CASE result \in Kind("reference", heap)
    <3> DEFINE v == heap[result].slots[1]
    <3>1. result' = v /\ drops' = Dropped(<<result>>) /\ buffer' = buffer
      BY <1>4, <2>1 DEF Unwrap, Rest
    <3>2. result \in 1 .. Len(heap) /\ result # None
      BY <1>2, <2>1 DEF Kind, Entities, None
    <3>3. v \in 0 .. Len(heap) /\ HeldIn(heap, v)
      BY <1>2, <3>2 DEF HandInv, Within, HeldIn, Entities
    <3> HIDE DEF v
    <3>4. SafeDrops(drops', Len(heap)) /\ \A x : Dropping(drops', x) <=> x = result
      BY <1>2, <3>1, <3>2, SingleDrop
    <3>5. ASSUME NEW x, x # None, Named(x)' PROVE Known(x)
      BY <1>1, <1>3, <3>1, <3>3, <3>4, <3>5 DEF Named, Known
    <3>6. \A x \in buffer' : Known(x)
      BY <3>1 DEF Known
    <3> QED
      BY <1>1, <1>2, <3>1, <3>3, <3>4, <3>5, <3>6, TameSame DEF HandInv
  <2>2. CASE result \notin Kind("reference", heap)
    <3>1. UNCHANGED <<heap, ids, deferred, frames, result, buffer, drops, user>>
      BY <1>1, <1>4, <2>2 DEF Unwrap, Rest
    <3> QED
      BY <3>1, TameIdle
  <2> QED
    BY <2>1, <2>2
<1>5. CASE Return
  <2>1. /\ drops' = drops \/ drops' = DropAll(<<result>>)
        /\ result' = None \/ result' = result
        /\ buffer' \subseteq buffer \cup Offered(result)
    BY <1>5 DEF Return
  <2>2. SafeDrops(drops', Len(heap)) /\ \A x : Dropping(drops', x) => Known(x)
    <3>1. SafeDrops(DropAll(<<result>>), Len(heap))
          /\ \A x : Dropping(DropAll(<<result>>), x) <=> x = result /\ x # None
      BY <1>2, <1>3, OneDropped
    <3> QED
      BY <1>3, <2>1, <3>1 DEF HandInv, Known, Named
  <2>3. \A x \in Offered(result) : x \in Entities /\ Known(x)
    <3>1. CASE result \in Kind("reference", heap)
      <4>1. result \in Entities
        BY <3>1 DEF Kind, Entities
      <4> QED
        BY <3>1, <4>1, HeldWithin DEF HandInv, Offered, Known, HeldIn, Entities
    <3>2. CASE result \notin Kind("reference", heap)
      BY <1>3, <3>2 DEF Offered
    <3> QED
      BY <3>1, <3>2
  <2>4. ASSUME NEW x, x # None, Named(x)' PROVE Known(x)
    BY <1>1, <1>3, <2>1, <2>2, <2>4 DEF Named, Known
  <2>5. \A x \in buffer' : Known(x)
    BY <2>1, <2>3 DEF Known
  <2>6. buffer' \subseteq 1 .. Len(heap) /\ result' \in 0 .. Len(heap)
    BY <1>2, <1>3, <2>1, <2>3 DEF HandInv
  <2> QED
    BY <1>1, <1>2, <2>2, <2>4, <2>5, <2>6, TameSame DEF HandInv
<1>6. CASE Discard
  <2>1. drops' = <<Drop(result, FALSE)>> /\ result' = None /\ buffer' = buffer /\ result # None
    BY <1>6 DEF Discard, Rest
  <2>2. result \in 1 .. Len(heap)
    BY <1>2, <1>3, <2>1
  <2>3. SafeDrops(drops', Len(heap)) /\ \A x : Dropping(drops', x) <=> x = result
    BY <1>2, <2>1, <2>2, SingleDrop
  <2>4. ASSUME NEW x, x # None, Named(x)' PROVE Known(x)
    BY <1>1, <1>3, <2>1, <2>3, <2>4 DEF Named, Known
  <2>5. \A x \in buffer' : Known(x)
    BY <2>1 DEF Known
  <2> QED
    BY <1>1, <1>2, <1>3, <2>1, <2>3, <2>4, <2>5, TameSame DEF HandInv
<1> QED
  BY <1>4, <1>5, <1>6

----------------------------------------------------------------------------
(* Reference counts.                                                       *)

LEMMA CountSome ==
  ASSUME NEW S, IsFiniteSet(S)
  PROVE  Cardinality(S) \in Nat /\ (Cardinality(S) = 0 <=> S = {})
BY FS_CardinalityType, FS_EmptySet

LEMMA TimesCount ==
  ASSUME NEW seq, NEW n \in Nat, DOMAIN seq = 1 .. n, NEW e
  PROVE  Times(seq, e) \in Nat /\ (Times(seq, e) = 0 <=> ~ In(seq, e))
<1> DEFINE S == {i \in DOMAIN seq : seq[i] = e}
<1>1. IsFiniteSet(S)
  BY FS_Interval, FS_Subset
<1>2. S = {} <=> ~ In(seq, e)
  BY DEF In
<1> QED
  BY <1>1, <1>2, CountSome DEF Times

(* The parts of a reference count: each counts the holders of its kind.    *)
ObjectsOf(queue) == [i \in DOMAIN queue |-> queue[i].object]
DataOf(queue) == [i \in DOMAIN queue |-> queue[i].data]
EntitiesOf(seq) == [i \in DOMAIN seq |-> seq[i].entity]

Others(e) ==
  Pins(e) + Times(ObjectsOf(deferred), e) + Times(DataOf(deferred), e)
  + Times(EntitiesOf(frames), e) + Times(DataOf(frames), e)
  + (IF result = e THEN 1 ELSE 0) + (IF e \in user THEN 1 ELSE 0)

LEMMA OthersCount ==
  ASSUME LInv, HandInv, NEW e
  PROVE  /\ Others(e) \in Nat
         /\ Others(e) = 0 <=> ~ (\/ Pinned(ids, e) \/ Queued(deferred, e) \/ InFrames(frames, e)
                                 \/ result = e \/ e \in user)
<1>1. /\ DOMAIN ids = 1 .. Len(ids) /\ Len(ids) \in Nat
      /\ DOMAIN frames = 1 .. Len(frames) /\ Len(frames) \in Nat
      /\ DOMAIN deferred = 1 .. Len(deferred) /\ Len(deferred) \in Nat
  BY LenProperties DEF LInv, SafeIds, SafeFrames, HandInv, SafeQueue
<1> DEFINE P == {i \in DOMAIN ids : ids[i].entity = e /\ ids[i].pinned}
<1>2. Pins(e) \in Nat /\ (Pins(e) = 0 <=> ~ Pinned(ids, e))
  <2>1. IsFiniteSet(P)
    <3>1. P \in SUBSET DOMAIN ids /\ IsFiniteSet(DOMAIN ids)
      BY <1>1, FS_Interval
    <3> HIDE DEF P
    <3> QED
      BY <3>1, FS_Subset
  <2>2. P = {} <=> ~ Pinned(ids, e)
    BY DEF Pinned
  <2> QED
    BY <2>1, <2>2, CountSome DEF Pins
<1>3. \A seq \in {ObjectsOf(deferred), DataOf(deferred), EntitiesOf(frames), DataOf(frames)} :
        Times(seq, e) \in Nat /\ (Times(seq, e) = 0 <=> ~ In(seq, e))
  <2>1. /\ DOMAIN ObjectsOf(deferred) = 1 .. Len(deferred)
        /\ DOMAIN DataOf(deferred) = 1 .. Len(deferred)
        /\ DOMAIN EntitiesOf(frames) = 1 .. Len(frames)
        /\ DOMAIN DataOf(frames) = 1 .. Len(frames)
    BY <1>1 DEF ObjectsOf, DataOf, EntitiesOf
  <2> QED
    BY <1>1, <2>1, TimesCount
<1>4. /\ Queued(deferred, e) <=> In(ObjectsOf(deferred), e) \/ In(DataOf(deferred), e)
      /\ InFrames(frames, e) <=> In(EntitiesOf(frames), e) \/ In(DataOf(frames), e)
  BY DEF Queued, InFrames, In, ObjectsOf, DataOf, EntitiesOf
<1> DEFINE a == Times(ObjectsOf(deferred), e)
           b == Times(DataOf(deferred), e)
           c == Times(EntitiesOf(frames), e)
           d == Times(DataOf(frames), e)
           p == Pins(e)
           q == IF result = e THEN 1 ELSE 0
           r == IF e \in user THEN 1 ELSE 0
<1>5. /\ q \in Nat /\ (q = 0 <=> result # e)
      /\ r \in Nat /\ (r = 0 <=> e \notin user)
  OBVIOUS
<1>6. /\ a \in Nat /\ b \in Nat /\ c \in Nat /\ d \in Nat /\ p \in Nat
      /\ a + b = 0 <=> ~ Queued(deferred, e)
      /\ c + d = 0 <=> ~ InFrames(frames, e)
      /\ p = 0 <=> ~ Pinned(ids, e)
  <2>1. /\ a \in Nat /\ b \in Nat /\ c \in Nat /\ d \in Nat /\ p \in Nat
        /\ (a = 0 <=> ~ In(ObjectsOf(deferred), e)) /\ (b = 0 <=> ~ In(DataOf(deferred), e))
        /\ (c = 0 <=> ~ In(EntitiesOf(frames), e)) /\ (d = 0 <=> ~ In(DataOf(frames), e))
    BY <1>2, <1>3
  <2> HIDE DEF a, b, c, d, p
  <2>2. (a + b = 0 <=> a = 0 /\ b = 0) /\ (c + d = 0 <=> c = 0 /\ d = 0)
    BY <2>1
  <2>3. p = 0 <=> ~ Pinned(ids, e)
    BY <1>2 DEF p
  <2> QED
    BY <1>4, <2>1, <2>2, <2>3
<1>7. Others(e) = p + a + b + c + d + q + r
  BY DEF Others
<1> HIDE DEF a, b, c, d, p, q, r
<1>8. Others(e) \in Nat /\ (Others(e) = 0 <=> p = 0 /\ a + b = 0 /\ c + d = 0 /\ q = 0 /\ r = 0)
  BY <1>5, <1>6, <1>7
<1> QED
  BY <1>5, <1>6, <1>8

LEMMA SlotsCount ==
  ASSUME LInv, NEW set \in SUBSET Entities, NEW e
  PROVE  /\ SlotsThatHold(set, e) \in Nat /\ SlotsThatHold(Entities, e) \in Nat
         /\ SlotsThatHold(set, e) <= SlotsThatHold(Entities, e)
         /\ SlotsThatHold(set, e) = SlotsThatHold(Entities, e)
              <=> \A x \in Entities \ set, k \in Slots : heap[x].slots[k] # e
         /\ SlotsThatHold(Entities, e) = 0 <=> ~ HeldIn(heap, e)
<1> DEFINE H(X) == {s \in X \X Slots : heap[s[1]].slots[s[2]] = e}
<1>1. IsFiniteSet(Entities \X Slots)
  BY Records, FS_Product
<1>2. H(set) \in SUBSET H(Entities) /\ H(Entities) \in SUBSET (Entities \X Slots)
  OBVIOUS
<1>3. IsFiniteSet(H(Entities)) /\ IsFiniteSet(H(set))
  <2> HIDE DEF H
  <2>1. IsFiniteSet(H(Entities))
    BY <1>1, <1>2, FS_Subset
  <2> QED
    BY <1>2, <2>1, FS_Subset
<1>4. H(Entities) = {} <=> ~ HeldIn(heap, e)
  <2>1. ASSUME NEW s \in H(Entities) PROVE HeldIn(heap, e)
    BY DEF HeldIn, Entities
  <2>2. ASSUME NEW x \in Entities, NEW k \in Slots, heap[x].slots[k] = e PROVE <<x, k>> \in H(Entities)
    BY <2>2
  <2> QED
    BY <2>1, <2>2 DEF HeldIn, Entities
<1>5. H(set) = H(Entities) <=> \A x \in Entities \ set, k \in Slots : heap[x].slots[k] # e
  <2>1. ASSUME H(set) = H(Entities), NEW x \in Entities \ set, NEW k \in Slots,
               heap[x].slots[k] = e
        PROVE  FALSE
    <3>1. <<x, k>> \in H(Entities)
      BY <2>1
    <3>2. <<x, k>> \notin H(set)
      OBVIOUS
    <3> QED
      BY <2>1, <3>1, <3>2
  <2>2. ASSUME \A x \in Entities \ set, k \in Slots : heap[x].slots[k] # e
        PROVE  H(Entities) \subseteq H(set)
    BY <2>2
  <2> QED
    BY <1>2, <2>1, <2>2
<1>6. /\ SlotsThatHold(set, e) = Cardinality(H(set))
      /\ SlotsThatHold(Entities, e) = Cardinality(H(Entities))
  BY DEF SlotsThatHold
<1> HIDE DEF H
<1>7. /\ Cardinality(H(set)) <= Cardinality(H(Entities))
      /\ Cardinality(H(Entities)) = Cardinality(H(set)) => H(Entities) = H(set)
  BY <1>2, <1>3, FS_Subset
<1> QED
  BY <1>3, <1>4, <1>5, <1>6, <1>7, CountSome

LEMMA DropsCount ==
  ASSUME LInv, HandInv, NEW e
  PROVE  /\ Times(EntitiesOf(drops), e) \in Nat
         /\ Times(EntitiesOf(drops), e) = 0 <=> ~ Dropping(drops, e)
         /\ Busy /\ e = head.entity =>
              /\ Times(EntitiesOf(drops), e) >= 1
              /\ Times(EntitiesOf(drops), e) = 1 <=> ~ Dropping(Tail(drops), e)
<1> DEFINE S == {i \in DOMAIN EntitiesOf(drops) : EntitiesOf(drops)[i] = e}
<1>1. DOMAIN drops = 1 .. Len(drops) /\ Len(drops) \in Nat
  BY LenProperties DEF HandInv, SafeDrops
<1>2. /\ Times(EntitiesOf(drops), e) \in Nat
      /\ Times(EntitiesOf(drops), e) = 0 <=> ~ Dropping(drops, e)
  <2>1. DOMAIN EntitiesOf(drops) = 1 .. Len(drops)
    BY <1>1 DEF EntitiesOf
  <2>2. In(EntitiesOf(drops), e) <=> Dropping(drops, e)
    BY DEF In, Dropping, EntitiesOf
  <2> QED
    BY <1>1, <2>1, <2>2, TimesCount
<1>3. ASSUME Busy, e = head.entity
      PROVE  /\ Times(EntitiesOf(drops), e) >= 1
             /\ Times(EntitiesOf(drops), e) = 1 <=> ~ Dropping(Tail(drops), e)
  <2> DEFINE m == Len(drops)
             t == Tail(drops)
  <2>1. /\ head = drops[1] /\ 1 \in DOMAIN drops /\ Dropping(drops, e)
        /\ DOMAIN t = 1 .. m - 1 /\ \A i \in 1 .. m - 1 : t[i] = drops[i + 1]
        /\ m \in Nat \ {0} /\ DOMAIN drops = 1 .. m
    BY <1>3, HeadDropped
  <2>2. S = {i \in 1 .. m : drops[i].entity = e} /\ 1 \in S
    BY <1>3, <2>1 DEF EntitiesOf
  <2>3. IsFiniteSet(S)
    <3>1. IsFiniteSet(1 .. m)
      BY <2>1, FS_Interval
    <3>2. S \in SUBSET (1 .. m)
      BY <2>2
    <3> HIDE DEF S
    <3> QED
      BY <3>1, <3>2, FS_Subset
  <2> HIDE DEF t
  <2>4. (\E x : S = {x}) <=> ~ Dropping(t, e)
    <3>1. ASSUME Dropping(t, e), NEW x, S = {x} PROVE FALSE
      <4>1. PICK i \in 1 .. m - 1 : t[i].entity = e
        BY <2>1, <3>1 DEF Dropping
      <4>2. i + 1 \in 1 .. m /\ i + 1 # 1 /\ drops[i + 1].entity = e
        BY <2>1, <4>1
      <4>3. i + 1 \in S
        BY <2>2, <4>2
      <4> HIDE DEF S
      <4> QED
        BY <2>2, <3>1, <4>2, <4>3
    <3>2. ASSUME ~ Dropping(t, e), NEW i \in S PROVE i = 1
      <4> SUFFICES ASSUME i # 1 PROVE FALSE
        OBVIOUS
      <4>0. i \in 1 .. m /\ drops[i].entity = e
        BY <2>2
      <4>1. i - 1 \in 1 .. m - 1 /\ (i - 1) + 1 = i
        BY <2>1, <4>0
      <4>2. t[i - 1] = drops[(i - 1) + 1]
        BY <2>1, <4>1
      <4>3. t[i - 1].entity = e
        BY <4>0, <4>1, <4>2
      <4> QED
        BY <2>1, <3>2, <4>1, <4>3 DEF Dropping
    <3> HIDE DEF S
    <3>3. ~ Dropping(t, e) => S = {1}
      BY <2>2, <3>2
    <3> QED
      BY <3>1, <3>3
  <2>5. Cardinality(S) = 1 <=> \E x : S = {x}
    <3> HIDE DEF S
    <3> QED
      BY <2>3, FS_Singleton
  <2>6. Times(EntitiesOf(drops), e) = Cardinality(S)
    BY DEF Times
  <2> HIDE DEF S
  <2>7. Cardinality(S) # 0
    BY <2>2, <2>3, CountSome
  <2> QED
    BY <1>2, <2>4, <2>5, <2>6, <2>7 DEF t
<1> QED
  BY <1>2, <1>3

(* A reference count in three parts.                                       *)
LEMMA CountParts ==
  ASSUME LInv, HandInv, NEW e
  PROVE  Refcount(e) = SlotsThatHold(Entities, e) + Others(e) + Times(EntitiesOf(drops), e)
<1> DEFINE a == Times(ObjectsOf(deferred), e)
           b == Times(DataOf(deferred), e)
           c == Times(EntitiesOf(frames), e)
           d == Times(DataOf(frames), e)
           p == Pins(e)
           q == IF result = e THEN 1 ELSE 0
           r == IF e \in user THEN 1 ELSE 0
           s == SlotsThatHold(Entities, e)
           t == Times(EntitiesOf(drops), e)
<1>1. Refcount(e) = s + p + a + b + c + d + t + q + r
  BY DEF Refcount, ObjectsOf, DataOf, EntitiesOf
<1>2. Others(e) = p + a + b + c + d + q + r
  BY DEF Others
<1>3. /\ DOMAIN ids = 1 .. Len(ids) /\ Len(ids) \in Nat
      /\ DOMAIN frames = 1 .. Len(frames) /\ Len(frames) \in Nat
      /\ DOMAIN deferred = 1 .. Len(deferred) /\ Len(deferred) \in Nat
  BY LenProperties DEF LInv, SafeIds, SafeFrames, HandInv, SafeQueue
<1>4. p \in Nat
  <2> DEFINE P == {i \in DOMAIN ids : ids[i].entity = e /\ ids[i].pinned}
  <2>1. IsFiniteSet(P)
    <3>1. P \in SUBSET DOMAIN ids /\ IsFiniteSet(DOMAIN ids)
      BY <1>3, FS_Interval
    <3> HIDE DEF P
    <3> QED
      BY <3>1, FS_Subset
  <2> QED
    BY <2>1, CountSome DEF Pins
<1>5. a \in Nat /\ b \in Nat /\ c \in Nat /\ d \in Nat
  <2>1. /\ DOMAIN ObjectsOf(deferred) = 1 .. Len(deferred)
        /\ DOMAIN DataOf(deferred) = 1 .. Len(deferred)
        /\ DOMAIN EntitiesOf(frames) = 1 .. Len(frames)
        /\ DOMAIN DataOf(frames) = 1 .. Len(frames)
    BY <1>3 DEF ObjectsOf, DataOf, EntitiesOf
  <2> QED
    BY <1>3, <2>1, TimesCount
<1>6. s \in Nat /\ t \in Nat /\ q \in Nat /\ r \in Nat
  BY SlotsCount, DropsCount
<1> HIDE DEF a, b, c, d, p, q, r, s, t
<1>7. Refcount(e) = s + Others(e) + t
  BY <1>1, <1>2, <1>4, <1>5, <1>6
<1> QED
  BY <1>7 DEF s, t

(* Every id is pinned: its entry holds a reference.                        *)
AllPinned == \A i \in DOMAIN ids : ids[i].pinned

LEMMA PinsHold == AllPinned => \A e : Pinned(ids, e) <=> Identified(ids, e)
BY DEF AllPinned, Pinned, Identified

(* The reference given up is the last.                                     *)
LEMMA LastHolder ==
  ASSUME LInv, HandInv, AllPinned, Busy, Refcount(head.entity) = 1
  PROVE  /\ ~ HeldIn(heap, head.entity) /\ ~ Dropping(Tail(drops), head.entity)
         /\ ~ Identified(ids, head.entity) /\ ~ Queued(deferred, head.entity)
         /\ ~ InFrames(frames, head.entity) /\ result # head.entity /\ head.entity \notin user
<1> DEFINE e == head.entity
           s == SlotsThatHold(Entities, e)
           o == Others(e)
           t == Times(EntitiesOf(drops), e)
<1>1. Refcount(e) = s + o + t
  BY CountParts
<1>2. /\ s \in Nat /\ (s = 0 <=> ~ HeldIn(heap, e))
      /\ t \in Nat /\ t >= 1 /\ (t = 1 <=> ~ Dropping(Tail(drops), e))
  BY SlotsCount, DropsCount
<1>3. /\ o \in Nat
      /\ o = 0 <=> ~ (\/ Pinned(ids, e) \/ Queued(deferred, e) \/ InFrames(frames, e)
                      \/ result = e \/ e \in user)
  BY OthersCount
<1> HIDE DEF s, o, t
<1>4. s = 0 /\ o = 0 /\ t = 1
  BY <1>1, <1>2, <1>3
<1> QED
  BY <1>2, <1>3, <1>4, PinsHold

(* The reference given up is not the last.                                 *)
LEMMA MoreHolders ==
  ASSUME LInv, HandInv, AllPinned, Busy, Refcount(head.entity) > 1
  PROVE  \/ HeldIn(heap, head.entity) \/ Dropping(Tail(drops), head.entity)
         \/ Identified(ids, head.entity) \/ Queued(deferred, head.entity)
         \/ InFrames(frames, head.entity) \/ result = head.entity \/ head.entity \in user
<1> DEFINE e == head.entity
           s == SlotsThatHold(Entities, e)
           o == Others(e)
           t == Times(EntitiesOf(drops), e)
<1>1. Refcount(e) = s + o + t
  BY CountParts
<1>2. /\ s \in Nat /\ (s = 0 <=> ~ HeldIn(heap, e))
      /\ t \in Nat /\ t >= 1 /\ (t = 1 <=> ~ Dropping(Tail(drops), e))
  BY SlotsCount, DropsCount
<1>3. /\ o \in Nat
      /\ o = 0 <=> ~ (\/ Pinned(ids, e) \/ Queued(deferred, e) \/ InFrames(frames, e)
                      \/ result = e \/ e \in user)
  BY OthersCount
<1> HIDE DEF s, o, t
<1>4. ~ (s = 0 /\ o = 0 /\ t = 1)
  BY <1>1, <1>2, <1>3
<1> QED
  BY <1>2, <1>3, <1>4, PinsHold

(* More references than the slots of a set: something else holds it.       *)
LEMMA HeldElsewhere ==
  ASSUME LInv, HandInv, AllPinned, NEW set \in SUBSET Entities, NEW e
  PROVE  Refcount(e) > SlotsThatHold(set, e)
           <=> Named(e) \/ \E x \in Entities \ set, k \in Slots : heap[x].slots[k] = e
<1> DEFINE s == SlotsThatHold(Entities, e)
           p == SlotsThatHold(set, e)
           o == Others(e)
           t == Times(EntitiesOf(drops), e)
<1>1. Refcount(e) = s + o + t
  BY CountParts
<1>2. /\ s \in Nat /\ p \in Nat /\ p <= s
      /\ p = s <=> \A x \in Entities \ set, k \in Slots : heap[x].slots[k] # e
      /\ t \in Nat /\ (t = 0 <=> ~ Dropping(drops, e))
  BY SlotsCount, DropsCount
<1>3. /\ o \in Nat
      /\ o = 0 <=> ~ (\/ Pinned(ids, e) \/ Queued(deferred, e) \/ InFrames(frames, e)
                      \/ result = e \/ e \in user)
  BY OthersCount
<1> HIDE DEF s, p, o, t
<1>4. Refcount(e) > p <=> ~ (p = s /\ o = 0 /\ t = 0)
  BY <1>1, <1>2, <1>3
<1>5. Named(e) <=> ~ (o = 0 /\ t = 0)
  BY <1>2, <1>3, PinsHold DEF Named
<1>6. (\E x \in Entities \ set, k \in Slots : heap[x].slots[k] = e) <=> p # s
  BY <1>2
<1>7. Refcount(e) > p <=> Named(e) \/ p # s
  BY <1>4, <1>5
<1> QED
  BY <1>6, <1>7 DEF p

(* What freeing does to the records.                                       *)
LEMMA FreeEffect ==
  ASSUME LInv, HandInv, NEW set
  PROVE  LET g == Free(set)
         IN /\ SafeHeap(g) /\ Len(g) = Len(heap) /\ DOMAIN g = Entities /\ Within(g)
            /\ \A x \in Entities :
                 /\ x \notin set => g[x] = heap[x]
                 /\ x \in set => ~ g[x].alive /\ g[x].slots = Empty
                 /\ g[x].kind = heap[x].kind /\ g[x].class = heap[x].class
            /\ \A e : e # None /\ HeldIn(g, e) =>
                 \E x \in Entities \ set, k \in Slots : heap[x].slots[k] = e
            /\ \A x \in Entities \ set, k \in Slots : HeldIn(g, heap[x].slots[k])
<1> DEFINE g == Free(set)
<1>1. SafeHeap(g) /\ Len(g) = Len(heap)
  BY FreeSafe DEF LInv
<1>2. DOMAIN g = Entities /\ DOMAIN heap = Entities
  BY DEF Free, Entities
<1>3. ASSUME NEW x \in Entities
      PROVE  /\ x \notin set => g[x] = heap[x]
             /\ x \in set => ~ g[x].alive /\ g[x].slots = Empty
             /\ g[x].kind = heap[x].kind /\ g[x].class = heap[x].class
  <2>1. CASE x \notin set
    BY <2>1 DEF Free
  <2>2. CASE x \in set
    <3> DEFINE y == [heap[x] EXCEPT !.alive = FALSE]
               z == [y EXCEPT !.slots = Empty]
    <3>1. g[x] = z
      BY <2>2 DEF Free
    <3>2. heap[x] \in Entity
      BY Records
    <3>3. y = [kind |-> heap[x].kind, class |-> heap[x].class, slots |-> heap[x].slots,
               alive |-> FALSE, flagged |-> heap[x].flagged, hooked |-> heap[x].hooked,
               destroyed |-> heap[x].destroyed]
      BY <3>2, NewFlags
    <3>a. y \in Entity
      BY <3>2, <3>3 DEF Entity
    <3> HIDE DEF y
    <3>4. z = [kind |-> y.kind, class |-> y.class, slots |-> Empty,
               alive |-> y.alive, flagged |-> y.flagged, hooked |-> y.hooked,
               destroyed |-> y.destroyed]
      BY <3>a DEF Entity
    <3>5. ~ z.alive /\ z.slots = Empty /\ z.kind = heap[x].kind /\ z.class = heap[x].class
      BY <3>3, <3>4
    <3> HIDE DEF z, g
    <3> QED
      BY <2>2, <3>1, <3>5
  <2> QED
    BY <2>1, <2>2
<1> HIDE DEF g
<1>4. \A k \in Slots : Empty[k] = None
  BY DEF Empty
<1>5. Within(g)
  BY <1>1, <1>2, <1>3, <1>4, Records DEF Within, HandInv, None
<1>6. ASSUME NEW e, e # None, HeldIn(g, e)
      PROVE  \E x \in Entities \ set, k \in Slots : heap[x].slots[k] = e
  BY <1>2, <1>3, <1>4, <1>6 DEF HeldIn
<1>7. ASSUME NEW x \in Entities \ set, NEW k \in Slots PROVE HeldIn(g, heap[x].slots[k])
  BY <1>2, <1>3 DEF HeldIn
<1> QED
  BY <1>1, <1>2, <1>3, <1>5, <1>6, <1>7 DEF g

(* What is freed is not known afterwards.                                  *)
LEMMA FreedUnknown ==
  ASSUME LInv, HandInv, AliveInv, NEW set, heap' = Free(set),
         \A e : e # None /\ Known(e)' => Known(e) /\ e \notin set
  PROVE  AliveInv'
<1>1. /\ DOMAIN heap' = Entities /\ Entities = 1 .. Len(heap)
      /\ \A x \in Entities :
           /\ x \notin set => heap'[x] = heap[x]
           /\ x \in set => ~ heap'[x].alive /\ heap'[x].slots = Empty
  BY FreeEffect, Records
<1>2. Entities' = Entities /\ Empty' = Empty
  BY <1>1 DEF Entities, Empty, None, Slots
<1>3. ASSUME NEW e \in Entities
      PROVE  /\ Known(e)' => heap'[e].alive
             /\ heap'[e].alive \/ heap'[e].slots = Empty
  <2>1. e # None
    BY <1>1 DEF None
  <2> QED
    BY <1>1, <2>1 DEF AliveInv
<1> QED
  BY <1>2, <1>3 DEF AliveInv

LEMMA FreeLastAlive ==
  ASSUME LInv, HandInv, AliveInv, AllPinned, FreeLast
  PROVE  AliveInv' /\ HandInv'
<1> DEFINE e == head.entity
           d == DropAll(heap[e].slots)
<1>1. /\ Busy /\ Refcount(e) = 1 /\ heap' = Free({e}) /\ buffer' = buffer \ {e}
      /\ drops' = d \o Tail(drops)
      /\ UNCHANGED <<ids, deferred, frames, result, user>>
  BY DEF FreeLast
<1>2. /\ e \in Entities /\ Known(e) /\ SafeDrops(Tail(drops), Len(heap))
      /\ \A x : Dropping(Tail(drops), x) => Dropping(drops, x)
  BY <1>1, HeadDropped
<1>3. /\ ~ HeldIn(heap, e) /\ ~ Dropping(Tail(drops), e)
      /\ ~ Identified(ids, e) /\ ~ Queued(deferred, e)
      /\ ~ InFrames(frames, e) /\ result # e /\ e \notin user
  BY <1>1, LastHolder
<1>4. heap[e].slots \in Seq(0 .. Len(heap)) /\ Len(heap) \in Nat
      /\ \A x : In(heap[e].slots, x) <=> \E k \in Slots : heap[e].slots[k] = x
  BY <1>2, SlotsInOrder, Records DEF HandInv
<1>5. /\ SafeDrops(d, Len(heap))
      /\ \A x : Dropping(d, x) <=> x # None /\ \E k \in Slots : heap[e].slots[k] = x
  BY <1>4, DropAllSafe
<1> HIDE DEF e, d
<1>6. /\ SafeDrops(drops', Len(heap))
      /\ \A x : Dropping(drops', x) <=> Dropping(d, x) \/ Dropping(Tail(drops), x)
  BY <1>1, <1>2, <1>4, <1>5, DropsJoin
<1>7. \A x : Dropping(d, x) => HeldIn(heap, x)
  BY <1>2, <1>5 DEF HeldIn, Entities
<1>8. /\ Len(heap') = Len(heap) /\ Within(heap')
      /\ \A x : x # None /\ HeldIn(heap', x) => HeldIn(heap, x)
  <2> DEFINE g == Free({e})
  <2>1. /\ Len(g) = Len(heap) /\ Within(g)
        /\ \A x : x # None /\ HeldIn(g, x) =>
                 \E y \in Entities \ {e}, k \in Slots : heap[y].slots[k] = x
    BY FreeEffect
  <2> HIDE DEF g
  <2>2. heap' = g
    BY <1>1 DEF g
  <2> QED
    BY <2>1, <2>2 DEF HeldIn, Entities
<1>9. ASSUME NEW x, x # None, Known(x)' PROVE Known(x) /\ x # e
  <2>1. \/ HeldIn(heap', x) \/ InFrames(frames, x) \/ Dropping(drops', x) \/ result = x
        \/ Identified(ids, x) \/ Queued(deferred, x) \/ x \in user \/ x \in buffer \ {e}
    BY <1>1, <1>9 DEF Known, Named
  <2> QED
    BY <1>2, <1>3, <1>6, <1>7, <1>8, <1>9, <2>1 DEF Known, Named
<1>10. AliveInv'
  BY <1>1, <1>9, FreedUnknown
<1>11. HandInv'
  BY <1>1, <1>6, <1>8 DEF HandInv
<1> QED
  BY <1>10, <1>11

(* The collector's way: what it frees, nothing else holds.                 *)
LEMMA GarbageUnheld ==
  ASSUME LInv, HandInv, AllPinned, NEW e \in Garbage
  PROVE  /\ ~ Named(e) /\ e \in Entities
         /\ \A x \in Entities \ Garbage, k \in Slots : heap[x].slots[k] # e
<1> DEFINE ext == {x \in Suspects : Refcount(x) > SlotsThatHold(Suspects, x)}
<1>1. Garbage = Suspects \ Reach(ext) /\ Suspects \in SUBSET Entities
  BY SuspectsReached DEF Garbage
<1>2. e \in Suspects /\ e \notin Reach(ext)
  BY <1>1
<1>3. \A x \in ext : x \in Reach(ext)
  BY <1>1 DEF Reach
<1>4. ~ (Refcount(e) > SlotsThatHold(Suspects, e))
  BY <1>2, <1>3
<1>5. ~ Named(e) /\ \A x \in Entities \ Suspects, k \in Slots : heap[x].slots[k] # e
  BY <1>1, <1>4, HeldElsewhere
<1>6. ASSUME NEW x \in Entities \ Garbage, NEW k \in Slots, heap[x].slots[k] = e
      PROVE  FALSE
  <2>1. x \in Suspects
    BY <1>5, <1>6
  <2>2. x \in Reach(ext)
    BY <1>1, <2>1
  <2>3. e # None /\ e \in Held(x)
    BY <1>1, <1>2, <1>6, Records DEF Held, None
  <2>4. ASSUME NEW set \in SUBSET Entities, ext \subseteq set, Closed(set) PROVE e \in set
    BY <2>2, <2>3, <2>4 DEF Reach, Closed
  <2>5. e \in Reach(ext)
    BY <1>1, <1>2, <2>4 DEF Reach
  <2> QED
    BY <1>2, <2>5
<1> QED
  BY <1>1, <1>2, <1>5, <1>6

(* What leaves the garbage is given up in some order.                      *)
LeavingSlots == {s \in Garbage \X Slots : heap[s[1]].slots[s[2]] \notin Garbage \cup {None}}
LeavingOrder ==
  LET order == SE!SetToSeq(LeavingSlots)
  IN [i \in DOMAIN order |-> heap[order[i][1]].slots[order[i][2]]]

LEMMA Leavings ==
  ASSUME LInv, HandInv
  PROVE  /\ SafeDrops(Dropped(LeavingOrder), Len(heap))
         /\ \A e : Dropping(Dropped(LeavingOrder), e) =>
              e # None /\ e \notin Garbage /\ HeldIn(heap, e)
         /\ \A i \in DOMAIN Dropped(LeavingOrder) :
              Dropped(LeavingOrder)[i].rooted /\ ~ Dropped(LeavingOrder)[i].pin
<1> DEFINE order == SE!SetToSeq(LeavingSlots)
           q == LeavingOrder
           d == Dropped(q)
           m == Len(order)
<1>1. Garbage \subseteq Entities /\ Entities = 1 .. Len(heap) /\ Len(heap) \in Nat
  BY SuspectsReached, Records
<1>2. IsFiniteSet(LeavingSlots)
  <2>1. IsFiniteSet(Entities \X Slots)
    BY Records, FS_Product
  <2>2. LeavingSlots \in SUBSET (Entities \X Slots)
    BY <1>1 DEF LeavingSlots
  <2> QED
    BY <2>1, <2>2, FS_Subset
<1>3. order \in Seq(LeavingSlots)
  BY <1>2, InSomeOrder
<1> HIDE DEF order
<1>4. m \in Nat /\ DOMAIN order = 1 .. m /\ \A i \in 1 .. m : order[i] \in LeavingSlots
  BY <1>3, LenProperties, ElementOfSeq
<1>5. q = [i \in DOMAIN order |-> heap[order[i][1]].slots[order[i][2]]]
  BY DEF LeavingOrder, order
<1>6. ASSUME NEW s \in LeavingSlots
      PROVE  LET e == heap[s[1]].slots[s[2]]
             IN e # None /\ e \notin Garbage /\ HeldIn(heap, e) /\ e \in 1 .. Len(heap)
  <2>1. s[1] \in Entities /\ s[2] \in Slots
    BY <1>1 DEF LeavingSlots
  <2>2. heap[s[1]].slots[s[2]] \in 0 .. Len(heap)
    BY <2>1 DEF HandInv, Within, Entities
  <2>3. heap[s[1]].slots[s[2]] # None /\ heap[s[1]].slots[s[2]] \notin Garbage
    BY DEF LeavingSlots
  <2> QED
    BY <1>1, <2>1, <2>2, <2>3 DEF HeldIn, None, Entities
<1> HIDE DEF q
<1>7. DOMAIN q = 1 .. m /\ \A i \in 1 .. m : /\ q[i] # None /\ q[i] \notin Garbage
                                             /\ HeldIn(heap, q[i]) /\ q[i] \in 1 .. Len(heap)
  BY <1>4, <1>5, <1>6
<1>8. d = [i \in DOMAIN q |-> Drop(q[i], TRUE)]
  BY DEF Dropped
<1> HIDE DEF d, m
<1> DEFINE D == [entity : 1 .. Len(heap), rooted : BOOLEAN, pin : BOOLEAN]
<1>9. DOMAIN d = 1 .. m
      /\ \A i \in 1 .. m : d[i] \in D /\ d[i].entity = q[i] /\ d[i].rooted /\ ~ d[i].pin
  BY <1>7, <1>8 DEF Drop
<1>10. d = [i \in 1 .. m |-> d[i]]
  BY <1>7, <1>8
<1> HIDE DEF D
<1>11. d \in [1 .. m -> D]
  BY <1>9, <1>10
<1>12. d \in Seq(D)
  BY <1>4, <1>11, SeqDef
<1>13. SafeDrops(d, Len(heap))
  BY <1>12 DEF SafeDrops, D
<1>14. \A e : Dropping(d, e) => e # None /\ e \notin Garbage /\ HeldIn(heap, e)
  BY <1>7, <1>9 DEF Dropping
<1> QED
  BY <1>9, <1>13, <1>14 DEF d, q

LEMMA CollectAlive ==
  ASSUME LInv, HandInv, AliveInv, AllPinned, Collect
  PROVE  AliveInv' /\ HandInv'
<1> DEFINE d == Dropped(LeavingOrder)
<1>1. /\ heap' = Free(Garbage) /\ buffer' = {}
      /\ drops' = d \o drops
      /\ UNCHANGED <<ids, deferred, frames, result, user>>
  BY DEF Collect, LeavingOrder, LeavingSlots
<1>2. /\ SafeDrops(d, Len(heap))
      /\ \A x : Dropping(d, x) => x # None /\ x \notin Garbage /\ HeldIn(heap, x)
  BY Leavings
<1> HIDE DEF d
<1>3. \A x \in Garbage : ~ Named(x)
  BY GarbageUnheld
<1>4. Len(heap) \in Nat /\ SafeDrops(drops, Len(heap))
  BY Records DEF HandInv
<1>5. /\ SafeDrops(drops', Len(heap))
      /\ \A x : Dropping(drops', x) <=> Dropping(d, x) \/ Dropping(drops, x)
  BY <1>1, <1>2, <1>4, DropsJoin
<1> DEFINE g == Free(Garbage)
<1>6. /\ Len(g) = Len(heap) /\ Within(g)
      /\ \A x : x # None /\ HeldIn(g, x) =>
               \E y \in Entities \ Garbage, k \in Slots : heap[y].slots[k] = x
  BY FreeEffect
<1>7. heap' = g
  BY <1>1
<1> HIDE DEF g
<1>8. /\ Len(heap') = Len(heap) /\ Within(heap')
      /\ \A x : x # None /\ HeldIn(heap', x) => HeldIn(heap, x) /\ x \notin Garbage
  <2>1. Len(heap') = Len(heap) /\ Within(heap')
    BY <1>6, <1>7
  <2>2. ASSUME NEW x, x # None, HeldIn(heap', x) PROVE HeldIn(heap, x) /\ x \notin Garbage
    <3>1. PICK y \in Entities \ Garbage, k \in Slots : heap[y].slots[k] = x
      BY <1>6, <1>7, <2>2
    <3> QED
      BY <3>1, GarbageUnheld DEF HeldIn, Entities
  <2> QED
    BY <2>1, <2>2
<1>9. ASSUME NEW x, x # None, Known(x)' PROVE Known(x) /\ x \notin Garbage
  <2>1. \/ HeldIn(heap', x) \/ InFrames(frames, x) \/ Dropping(drops', x) \/ result = x
        \/ Identified(ids, x) \/ Queued(deferred, x) \/ x \in user
    BY <1>1, <1>9 DEF Known, Named
  <2> QED
    BY <1>2, <1>3, <1>5, <1>8, <1>9, <2>1 DEF Known, Named
<1>10. AliveInv'
  BY <1>1, <1>9, FreedUnknown
<1>11. HandInv'
  BY <1>1, <1>5, <1>8 DEF HandInv
<1> QED
  BY <1>10, <1>11

----------------------------------------------------------------------------
(* Where the decode is, and what its order lets happen.                    *)

Phases ==
  {"walk", "walked", "hooks", "hook", "release", "unwrapped", "returned", "discarded"}

(* The counters and flags, and what is empty when: the queue and the id    *)
(* table are released once, and the loop over the hooks gives up nothing.  *)
Turns ==
  /\ phase \in Phases
  /\ orphan \in BOOLEAN /\ rootResult \in BOOLEAN /\ exception \in BOOLEAN
  /\ tokens \in 0 .. MaxTokens /\ steps \in 0 .. MaxSteps
  /\ next \in Nat \ {0}
  /\ phase # "walk" => frames = <<>>
  /\ phase \in {"release", "unwrapped", "returned", "discarded"} =>
       ids = <<>> /\ deferred = <<>> /\ next <= MaxEntities + 1
  /\ phase = "hook" => next <= Len(deferred)
  /\ phase \in {"walk", "walked"} => next = 1
  /\ phase = "hooks" => drops = <<>> /\ next <= Len(deferred) + 1

(* A call decodes one object, and an object is queued once, when its call  *)
(* is over.                                                                *)
Once ==
  /\ \A i, j \in DOMAIN frames : frames[i].entity = frames[j].entity => i = j
  /\ \A i, j \in DOMAIN deferred : deferred[i].object = deferred[j].object => i = j
  /\ \A i \in DOMAIN frames, j \in DOMAIN deferred : frames[i].entity # deferred[j].object

(* There are no more hooks to call than objects.                           *)
LEMMA QueueBound ==
  ASSUME LInv, HandInv, Once
  PROVE  Len(deferred) \in Nat /\ DOMAIN deferred = 1 .. Len(deferred)
         /\ Len(deferred) <= MaxEntities
<1> DEFINE m == Len(deferred)
           n == Len(heap)
           f == [i \in 1 .. m |-> deferred[i].object]
<1>1. deferred \in Seq([object : 1 .. n, data : 0 .. n]) /\ n \in Nat /\ n <= MaxEntities
      /\ MaxEntities \in Nat
  BY Records, LifetimeAssumption DEF HandInv, SafeQueue
<1>2. m \in Nat /\ DOMAIN deferred = 1 .. m
  BY <1>1, LenProperties
<1>3. \A i \in 1 .. m : deferred[i].object \in 1 .. n
  <2>1. \A i \in 1 .. m : deferred[i] \in [object : 1 .. n, data : 0 .. n]
    BY <1>1, <1>2, ElementOfSeq
  <2> QED
    BY <2>1
<1> HIDE DEF m, n
<1>4. f \in Injection(1 .. m, 1 .. n)
  <2>1. f \in [1 .. m -> 1 .. n]
    BY <1>3
  <2>2. \A i, j \in 1 .. m : f[i] = f[j] => i = j
    BY <1>2 DEF Once
  <2> HIDE DEF f
  <2> QED
    BY <2>1, <2>2 DEF Injection, IsInjective
<1>5. /\ IsFiniteSet(1 .. m) /\ Cardinality(1 .. m) = m
      /\ IsFiniteSet(1 .. n) /\ Cardinality(1 .. n) = n
  <2>1. 0 \in Nat /\ 1 <= m + 1 /\ 1 <= n + 1
    BY <1>1, <1>2
  <2>2. /\ IsFiniteSet(1 .. m) /\ Cardinality(1 .. m) = IF 1 > m THEN 0 ELSE m - 1 + 1
        /\ IsFiniteSet(1 .. n) /\ Cardinality(1 .. n) = IF 1 > n THEN 0 ELSE n - 1 + 1
    BY <1>1, <1>2, FS_Interval
  <2> QED
    BY <1>1, <1>2, <2>2
<1>6. Cardinality(1 .. m) <= Cardinality(1 .. n)
  BY <1>4, <1>5, FS_Injection
<1> QED
  BY <1>1, <1>2, <1>5, <1>6 DEF m, n

(* Steps that leave the stacks, the phase and the turn alone.              *)
LEMMA OrderRest ==
  ASSUME Turns, Once, UNCHANGED <<ids, deferred, frames, phase, next, orphan, rootResult>>,
         exception' \in BOOLEAN, tokens' \in 0 .. MaxTokens, steps' \in 0 .. MaxSteps,
         phase = "hooks" => drops' = drops
  PROVE  Turns' /\ Once'
<1>1. Turns'
  BY DEF Turns
<1>2. Once'
  BY DEF Once
<1> QED
  BY <1>1, <1>2

(* References being given up, destructors, the collector, hooks' statements.*)
LEMMA OrderStays ==
  ASSUME Turns, Once,
         \/ Survives \/ CallDestructor \/ FreeLast \/ CollectDestructor \/ Collect
         \/ Assign \/ Keep \/ Forget \/ UNCHANGED vars
  PROVE  Turns' /\ Once'
<1>1. UNCHANGED <<ids, deferred, frames, phase, next, orphan, rootResult, tokens>>
  BY DEF Survives, CallDestructor, FreeLast, CollectDestructor, Collect, Assign, Keep, Forget,
         Statement, vars, graphVars
<1>2. exception' \in BOOLEAN
  BY DEF Survives, CallDestructor, FreeLast, CollectDestructor, Collect, Assign, Keep, Forget,
         Statement, vars, graphVars, Destruct, Turns
<1>3. steps' \in 0 .. MaxSteps
  <2>1. steps' = steps \/ (steps < MaxSteps /\ steps' = steps + 1)
    BY DEF Survives, CallDestructor, FreeLast, CollectDestructor, Collect, Assign, Keep, Forget,
           Statement, vars, graphVars
  <2> QED
    BY <2>1, LifetimeAssumption DEF Turns
<1>4. ASSUME phase = "hooks" PROVE drops' = drops
  BY <1>4 DEF Survives, CallDestructor, FreeLast, CollectDestructor, Collect, Assign, Keep,
         Forget, Statement, vars, graphVars, MayCollect, Busy, Turns
<1> QED
  BY <1>1, <1>2, <1>3, <1>4, OrderRest DEF Turns

(* The walk's turns: a token is read, and a value put somewhere may be the *)
(* decoded value.                                                          *)
LEMMA TokenTurns ==
  ASSUME Turns, Token, orphan' \in BOOLEAN, phase' = phase \/ (phase' = "walked" /\ frames' = <<>>)
  PROVE  Turns'
<1>1. /\ tokens' \in 0 .. MaxTokens /\ phase = "walk" /\ UNCHANGED <<next, rootResult, exception, steps>>
  BY LifetimeAssumption DEF Token, Walking, Turns
<1> QED
  BY <1>1 DEF Turns, Phases

(* No frame and no queued object is twice there: none is made of these.    *)
LEMMA OnceKept ==
  ASSUME Once, NEW n \in Nat, SafeFrames(frames', n), deferred' = deferred,
         NEW stack, DOMAIN stack = 1 .. Len(stack), Len(frames') = Len(stack),
         \A i \in DOMAIN stack : /\ frames'[i].entity = stack[i].entity
                                 /\ i \in DOMAIN frames /\ stack[i].entity = frames[i].entity
  PROVE  Once'
<1>1. DOMAIN frames' = DOMAIN stack
  BY LenProperties DEF SafeFrames
<1> QED
  BY <1>1 DEF Once

LEMMA OrderReads ==
  ASSUME LInv, HandInv, AliveInv, Turns, Once, LInv',
         \/ ReadScalar \/ ReadBackReference \/ \E class \in Classes : ReadLegacy(class)
  PROVE  Turns' /\ Once'
<1>1. PutAs(frames)
  BY TameRead, TameLegacy
<1>2. Token /\ deferred' = deferred
  BY DEF ReadScalar, ReadBackReference, ReadLegacy
<1>3. /\ SafeFrames(frames', Len(heap')) /\ Len(heap') \in Nat
      /\ DOMAIN frames = 1 .. Len(frames)
  BY LenProperties DEF LInv, SafeHeap, SafeFrames
<1>4. Once'
  BY <1>1, <1>2, <1>3, OnceKept DEF PutAs
<1>5. Turns'
  BY <1>1, <1>2, TokenTurns DEF PutAs
<1> QED
  BY <1>4, <1>5

LEMMA OrderEnds ==
  ASSUME LInv, HandInv, AliveInv, Turns, Once, LInv', EndValue \/ EndHooked \/ EndApplied
  PROVE  Turns' /\ Once'
<1>1. PutAs(Outer(frames))
  BY TameEnd
<1>2. Token /\ frames # <<>>
  BY DEF EndValue, EndHooked, EndApplied
<1>3. /\ SafeFrames(frames', Len(heap')) /\ Len(heap') \in Nat
      /\ SafeFrames(frames, Len(heap)) /\ Len(heap) \in Nat
  BY LenProperties DEF LInv, SafeHeap
<1>4. /\ Len(frames) \in Nat \ {0} /\ DOMAIN frames = 1 .. Len(frames)
      /\ Len(Outer(frames)) = Len(frames) - 1
      /\ DOMAIN Outer(frames) = 1 .. Len(frames) - 1
      /\ \A i \in 1 .. Len(frames) - 1 : Outer(frames)[i] = frames[i]
  BY <1>2, <1>3, OuterFrames
<1>5. DOMAIN frames' = 1 .. Len(frames) - 1
      /\ \A i \in 1 .. Len(frames) - 1 : frames'[i].entity = frames[i].entity
  BY <1>1, <1>3, <1>4, LenProperties DEF PutAs, SafeFrames
<1>6. \/ deferred' = deferred \/ Queue(top.entity, None) \/ Queue(top.entity, top.data)
  BY DEF EndValue, EndHooked, EndApplied
<1>7. Once'
  <2>1. CASE deferred' = deferred
    BY <1>4, <1>5, <2>1 DEF Once
  <2>2. ASSUME NEW data \in 0 .. Len(heap), Queue(top.entity, data) PROVE Once'
    <3> DEFINE n == Len(heap)
               e == top.entity
    <3>1. n \in Nat /\ SafeQueue(deferred, n) /\ e \in 1 .. n /\ data \in 0 .. n
          /\ Queue(e, data)
      BY <1>2, <1>3, <2>2, Stacked DEF HandInv
    <3> HIDE DEF n, e
    <3>2. /\ DOMAIN deferred = 1 .. Len(deferred) /\ Len(deferred) \in Nat
          /\ DOMAIN deferred' = 1 .. Len(deferred) + 1
          /\ \A i \in 1 .. Len(deferred) : deferred'[i] = deferred[i]
          /\ deferred'[Len(deferred) + 1] = [object |-> e, data |-> data]
      BY <3>1, QueueOne
    <3>3. e = frames[Len(frames)].entity
      BY DEF e, top
    <3>4. deferred'[Len(deferred) + 1].object = e
      BY <3>2
    <3>5. \A i, j \in DOMAIN deferred' : deferred'[i].object = deferred'[j].object => i = j
      BY <1>4, <3>2, <3>3, <3>4 DEF Once
    <3>6. \A i \in DOMAIN frames', j \in DOMAIN deferred' :
            frames'[i].entity # deferred'[j].object
      BY <1>4, <1>5, <3>2, <3>3, <3>4 DEF Once
    <3>7. \A i, j \in DOMAIN frames' : frames'[i].entity = frames'[j].entity => i = j
      BY <1>4, <1>5 DEF Once
    <3> QED
      BY <3>5, <3>6, <3>7 DEF Once
  <2>3. None \in 0 .. Len(heap) /\ top.data \in 0 .. Len(heap)
    BY <1>2, <1>3, Stacked DEF None
  <2> QED
    BY <1>6, <2>1, <2>2, <2>3
<1>8. Turns'
  BY <1>1, <1>2, TokenTurns DEF PutAs
<1> QED
  BY <1>7, <1>8

LEMMA OrderBegins ==
  ASSUME LInv, HandInv, Turns, Once,
         (\E class \in Classes : BeginObject(class)) \/ BeginReference \/ BeginArray
  PROVE  Turns' /\ Once'
<1>1. /\ SafeFrames(frames, Len(heap)) /\ Len(heap) \in Nat /\ fresh = Len(heap) + 1
  BY Records DEF LInv
<1>2. Token /\ UNCHANGED <<deferred, orphan, phase>>
  BY DEF BeginObject, BeginReference, BeginArray
<1>3. PICK stack \in {frames, SawReference(frames)},
           what \in {"props", "skip", "hooked", "reference", "array", "shared"} :
        frames' = Append(stack, Frame(what, fresh))
  BY DEF BeginObject, BeginReference, BeginArray, ContentsOf
<1>4. /\ SafeFrames(stack, Len(heap)) /\ DOMAIN stack = DOMAIN frames
      /\ \A i \in DOMAIN frames : stack[i].entity = frames[i].entity
  BY <1>1, Seen, SawSame
<1>5. fresh \in Nat /\ fresh \in 1 .. fresh /\ Len(heap) <= fresh
  BY <1>1
<1>6. SafeFrames(stack, fresh)
  <2> HIDE DEF fresh
  <2> QED
    BY <1>1, <1>4, <1>5, Grow DEF LInv
<1>7. /\ DOMAIN stack = 1 .. Len(stack) /\ Len(stack) \in Nat
      /\ DOMAIN frames' = 1 .. Len(stack) + 1
      /\ \A i \in 1 .. Len(stack) : frames'[i] = stack[i]
      /\ frames'[Len(stack) + 1] = Frame(what, fresh)
  <2> HIDE DEF fresh
  <2> QED
    BY <1>3, <1>5, <1>6, PushOne
<1>8. frames'[Len(stack) + 1].entity = fresh
  BY <1>7 DEF Frame
<1>9. \A i \in DOMAIN frames : frames[i].entity \in 1 .. Len(heap)
  <2> DEFINE C == [what : {"props", "skip", "hooked", "reference", "referenced", "array", "shared"},
                   entity : 1 .. Len(heap), data : 0 .. Len(heap), sawRef : BOOLEAN]
  <2>1. \A i \in DOMAIN frames : frames[i] \in C
    BY <1>1, LenProperties, ElementOfSeq DEF SafeFrames
  <2> QED
    BY <2>1
<1>10. \A i \in DOMAIN deferred : deferred[i].object \in 1 .. Len(heap)
  <2> DEFINE C == [object : 1 .. Len(heap), data : 0 .. Len(heap)]
  <2>1. \A i \in DOMAIN deferred : deferred[i] \in C
    BY LenProperties, ElementOfSeq DEF HandInv, SafeQueue
  <2> QED
    BY <2>1
<1>11. \A i \in 1 .. Len(stack) : frames'[i].entity # fresh /\ frames'[i].entity = frames[i].entity
  BY <1>1, <1>4, <1>7, <1>9
<1>12. \A i \in DOMAIN deferred : deferred'[i].object # fresh
  BY <1>1, <1>2, <1>10
<1> HIDE DEF fresh
<1>13. Once'
  <2>1. \A i, j \in DOMAIN frames' : frames'[i].entity = frames'[j].entity => i = j
    BY <1>4, <1>7, <1>8, <1>11 DEF Once
  <2>2. \A i \in DOMAIN frames', j \in DOMAIN deferred' :
          frames'[i].entity # deferred'[j].object
    BY <1>2, <1>4, <1>7, <1>8, <1>11, <1>12 DEF Once
  <2> QED
    BY <1>2, <2>1, <2>2 DEF Once
<1>14. Turns'
  BY <1>2, TokenTurns DEF Turns
<1> QED
  BY <1>13, <1>14

(* The steps that end the decode, and the program's.                       *)
LEMMA OrderReturns ==
  ASSUME LInv, HandInv, Turns, Once,
         \/ Fail \/ Refuse \/ StartHooks \/ CallHook \/ HookReturns \/ HooksDone
         \/ Unwrap \/ Return \/ Discard
  PROVE  Turns' /\ Once'
<1>1. Len(deferred) \in Nat /\ DOMAIN deferred = 1 .. Len(deferred) /\ Len(deferred) <= MaxEntities
      /\ MaxEntities \in Nat
  BY QueueBound, LifetimeAssumption
<1>2. Once'
  <2>1. \/ UNCHANGED <<deferred, frames>> \/ (deferred' = <<>> /\ frames' \in {frames, <<>>})
    BY DEF Fail, Refuse, StartHooks, CallHook, HookReturns, HooksDone, Unwrap, Return, Discard,
           Abandon, Destroy, graphVars
  <2>2. CASE UNCHANGED <<deferred, frames>>
    BY <2>2 DEF Once
  <2>3. CASE deferred' = <<>> /\ frames' \in {frames, <<>>}
    BY <2>3 DEF Once
  <2> QED
    BY <2>1, <2>2, <2>3
<1>3. Turns'
  <2>1. CASE Fail \/ Refuse
    <3>1. \E value : Abandon(value)
      BY <2>1 DEF Fail, Refuse
    <3>2. /\ phase' = "release" /\ ids' = <<>> /\ deferred' = <<>> /\ frames' = <<>>
          /\ UNCHANGED <<orphan, next, exception, rootResult, tokens, steps>>
      BY <3>1 DEF Abandon, Destroy, Rest
    <3>3. next = 1
      BY <2>1 DEF Fail, Refuse, Walking, Turns
    <3> QED
      BY <1>1, <3>2, <3>3 DEF Turns, Phases
  <2>2. CASE StartHooks
    BY <1>1, <2>2 DEF Turns, Phases, StartHooks, graphVars, Rest, Busy
  <2>3. CASE CallHook
    BY <1>1, <2>3 DEF Turns, Phases, CallHook, graphVars, Rest
  <2>4. CASE HookReturns
    <3>1. /\ phase = "hook" /\ drops = <<>> /\ drops' = drops /\ phase' = "hooks"
          /\ UNCHANGED <<ids, deferred, frames, orphan, rootResult, tokens, steps>>
      BY <2>4 DEF HookReturns, Rest, Busy
    <3>2. PICK threw \in {exception, TRUE} :
            exception' = threw /\ next' = IF threw THEN Len(deferred) + 1 ELSE next + 1
      BY <2>4 DEF HookReturns
    <3>3. exception' \in BOOLEAN /\ next \in Nat \ {0} /\ next <= Len(deferred)
      BY <3>1, <3>2 DEF Turns
    <3>4. next' = Len(deferred) + 1 \/ next' = next + 1
      BY <3>2
    <3>5. next' \in Nat \ {0} /\ next' <= Len(deferred) + 1
      BY <1>1, <3>3, <3>4
    <3> QED
      BY <1>1, <3>1, <3>3, <3>5 DEF Turns, Phases
  <2>5. CASE HooksDone
    <3>1. rootResult' \in BOOLEAN
      BY <2>5 DEF HooksDone, ResultLive, MayCycle
    <3> QED
      BY <1>1, <2>5, <3>1 DEF Turns, Phases, HooksDone, Destroy
  <2>6. CASE Unwrap \/ Return \/ Discard
    BY <1>1, <2>6 DEF Turns, Phases, Unwrap, Return, Discard, Rest
  <2> QED
    BY <2>1, <2>2, <2>3, <2>4, <2>5, <2>6
<1> QED
  BY <1>2, <1>3

(* The pins: every entry of the id table holds its entity.                 *)
LEMMA PinsKept ==
  ASSUME LInv, AllPinned, [Next]_vars
  PROVE  AllPinned'
<1>1. \/ ids' = ids \/ ids' = <<>> \/ \E e : ids' = Append(ids, [entity |-> e, pinned |-> TRUE])
  BY DEF Next, Survives, CallDestructor, FreeLast, CollectDestructor, Collect, ReadScalar,
         ReadBackReference, BeginReference, BeginArray, EndValue, EndHooked, EndApplied,
         BeginObject, ReadLegacy, Fail, Refuse, StartHooks, CallHook, Assign, Keep, Forget,
         Statement, HookReturns, HooksDone, Unwrap, Return, Discard, Abandon, Destroy,
         graphVars, vars, Register
<1>2. ASSUME NEW e, ids' = Append(ids, [entity |-> e, pinned |-> TRUE]) PROVE AllPinned'
  <2>1. ids \in Seq([entity : 1 .. Len(heap), pinned : BOOLEAN])
    BY DEF LInv, SafeIds
  <2>2. ids' = Append(ids, [entity |-> e, pinned |-> TRUE])
    BY <1>2
  <2>3. /\ DOMAIN ids = 1 .. Len(ids) /\ Len(ids) \in Nat
    BY <2>1, LenProperties
  <2>4. /\ DOMAIN ids' = 1 .. Len(ids) + 1
        /\ \A i \in 1 .. Len(ids) : ids'[i] = ids[i]
        /\ ids'[Len(ids) + 1] = [entity |-> e, pinned |-> TRUE]
    BY <2>1, <2>2, <2>3
  <2> QED
    BY <2>3, <2>4 DEF AllPinned
<1>3. CASE ids' = ids
  BY <1>3 DEF AllPinned
<1>4. CASE ids' = <<>>
  BY <1>4 DEF AllPinned
<1> QED
  BY <1>1, <1>2, <1>3, <1>4

----------------------------------------------------------------------------
(* The inductive invariant of what is alive.                               *)
CInv == LInv /\ HandInv /\ AliveInv /\ AllPinned /\ Turns /\ Once

LEMMA InitAlive == Init => CInv
<1> SUFFICES ASSUME Init PROVE CInv
  OBVIOUS
<1>1. LInv
  BY InitSafe
<1>2. /\ heap = <<>> /\ ids = <<>> /\ deferred = <<>> /\ frames = <<>> /\ drops = <<>>
      /\ result = 0 /\ user = {} /\ buffer = {}
  BY DEF Init, None
<1>3. SafeQueue(<<>>, 0) /\ SafeDrops(<<>>, 0) /\ Len(<<>>) = 0 /\ DOMAIN heap = {}
  BY <1>2 DEF SafeQueue, SafeDrops
<1>4. HandInv
  BY <1>2, <1>3, LifetimeAssumption DEF HandInv, Within
<1>5. AliveInv /\ AllPinned /\ Once
  BY <1>2, <1>3 DEF AliveInv, AllPinned, Once, Entities
<1>6. Turns
  <2>1. /\ phase = "walk" /\ orphan = FALSE /\ rootResult = FALSE /\ exception = FALSE
        /\ tokens = 0 /\ steps = 0 /\ next = 1
    BY DEF Init
  <2>2. 0 \in 0 .. MaxTokens /\ 0 \in 0 .. MaxSteps
    BY LifetimeAssumption
  <2>3. frames = <<>>
    BY DEF Init
  <2>4. /\ phase \in Phases /\ orphan \in BOOLEAN /\ rootResult \in BOOLEAN
        /\ exception \in BOOLEAN /\ next \in Nat \ {0}
        /\ tokens \in 0 .. MaxTokens /\ steps \in 0 .. MaxSteps
    <3>1. tokens \in 0 .. MaxTokens /\ steps \in 0 .. MaxSteps
      BY <2>1, <2>2
    <3>2. phase \in Phases
      BY <2>1 DEF Phases
    <3>3. orphan \in BOOLEAN /\ rootResult \in BOOLEAN /\ exception \in BOOLEAN
      BY <2>1, Zenon
    <3>4. next \in Nat \ {0}
      BY <2>1
    <3> QED
      BY <3>1, <3>2, <3>3, <3>4
  <2>5. ~ phase \in {"release", "unwrapped", "returned", "discarded"} /\ phase # "hook"
        /\ phase # "hooks"
    BY <2>1
  <2> QED
    BY <2>1, <2>3, <2>4, <2>5 DEF Turns
<1> QED
  BY <1>1, <1>4, <1>5, <1>6 DEF CInv

(* No step frees what is known, or names what is freed.                    *)
LEMMA StepAlive ==
  ASSUME CInv, [Next]_vars
  PROVE  CInv'
<1>1. LInv /\ HandInv /\ AliveInv /\ AllPinned /\ Turns /\ Once
  BY DEF CInv
<1>2. LInv' /\ AllPinned'
  BY <1>1, StepSafe, PinsKept
<1>3. ASSUME phase = "hook" PROVE next \in DOMAIN deferred
  <2>1. next \in Nat \ {0} /\ next <= Len(deferred)
    BY <1>1, <1>3 DEF Turns
  <2>2. DOMAIN deferred = 1 .. Len(deferred) /\ Len(deferred) \in Nat
    BY <1>1, QueueBound
  <2> QED
    BY <2>1, <2>2
<1>4. ASSUME Tame PROVE AliveInv' /\ HandInv'
  BY <1>1, <1>4, TameAlive DEF Tame
<1>5. CASE Survives \/ CallDestructor \/ CollectDestructor
  <2>1. Tame
    BY <1>1, <1>5, TameSurvives, TameDestruct
  <2> QED
    BY <1>1, <1>2, <1>4, <1>5, <2>1, OrderStays DEF CInv
<1>6. CASE FreeLast \/ Collect
  BY <1>1, <1>2, <1>6, FreeLastAlive, CollectAlive, OrderStays DEF CInv
<1>7. CASE \/ ReadScalar \/ ReadBackReference \/ \E class \in Classes : ReadLegacy(class)
  <2>1. Tame
    BY <1>1, <1>7, TameRead, TameLegacy
  <2> QED
    BY <1>1, <1>2, <1>4, <1>7, <2>1, OrderReads DEF CInv
<1>8. CASE (\E class \in Classes : BeginObject(class)) \/ BeginReference \/ BeginArray
  <2>1. Tame
    BY <1>1, <1>8, TameBegin
  <2> QED
    BY <1>1, <1>2, <1>4, <1>8, <2>1, OrderBegins DEF CInv
<1>9. CASE EndValue \/ EndHooked \/ EndApplied
  <2>1. Tame
    BY <1>1, <1>9, TameEnd
  <2> QED
    BY <1>1, <1>2, <1>4, <1>9, <2>1, OrderEnds DEF CInv
<1>10. CASE Assign \/ Keep \/ Forget
  <2>1. next \in DOMAIN deferred
    BY <1>3, <1>10 DEF Assign, Keep, Forget, Statement
  <2>2. Tame
    BY <1>1, <1>10, <2>1, TameAssign, TameKeep
  <2> QED
    BY <1>1, <1>2, <1>4, <1>10, <2>2, OrderStays DEF CInv
<1>11. CASE UNCHANGED vars
  <2>1. Tame
    BY <1>1, <1>11, TameIdle DEF vars
  <2> QED
    BY <1>1, <1>2, <1>4, <1>11, <2>1, OrderStays DEF CInv
<1>12. CASE \/ Fail \/ Refuse \/ StartHooks \/ CallHook \/ HookReturns \/ HooksDone
            \/ Unwrap \/ Return \/ Discard
  <2>1. ASSUME StartHooks \/ CallHook PROVE Tame
    BY <1>1, <2>1, TameIdle DEF StartHooks, CallHook, graphVars, Rest
  <2>2. Tame
    BY <1>1, <1>12, <2>1, TameHook, TameEnds, TameReturns
  <2> QED
    BY <1>1, <1>2, <1>4, <1>12, <2>2, OrderReturns DEF CInv
<1> QED
  BY <1>5, <1>6, <1>7, <1>8, <1>9, <1>10, <1>11, <1>12 DEF Next

(* The decoder's tables, the references on their way out, the program and  *)
(* the collector's buffer hold entities that were made, the queue holds no *)
(* object twice, each phase finds the stacks the one before it left, and   *)
(* nothing known is freed: after every step.                               *)
THEOREM DecodeInvariant == Spec => []CInv
<1>1. QED
  BY InitAlive, StepAlive, PTL DEF Spec

(* Every variable of the decode has its type, whatever the frame and user  *)
(* code do: there are no more hooks to call than entities.                 *)
THEOREM DecodeTypes == Spec => []TypeOK
<1>1. CInv => TypeOK
  <2> SUFFICES ASSUME CInv PROVE TypeOK
    OBVIOUS
  <2>1. LInv /\ HandInv /\ Turns /\ Once
    BY DEF CInv
  <2> DEFINE n == Len(heap)
  <2>2. n \in Nat /\ Entities = 1 .. n /\ n <= MaxEntities /\ MaxEntities \in Nat
    BY <2>1, Records, LifetimeAssumption DEF HandInv
  <2>3. heap \in Seq(Entity) /\ \A e \in Entities : Held(e) \subseteq Entities
    BY <2>1, HeldWithin DEF LInv, SafeHeap, HandInv
  <2>4. None \in Nat /\ 0 .. n = Entities \cup {None}
    BY <2>2 DEF None
  <2>5. [entity : 1 .. n, pinned : BOOLEAN] = IdEntry
    BY <2>2 DEF IdEntry
  <2>6. ids \in Seq(IdEntry)
    BY <2>1, <2>5 DEF LInv, SafeIds
  <2>7. frames \in Seq(Call)
    BY <2>1, <2>2, <2>4 DEF LInv, SafeFrames, Call
  <2>8. deferred \in Seq([object : Entities, data : Entities \cup {None}])
    BY <2>1, <2>2, <2>4 DEF HandInv, SafeQueue
  <2>9. drops \in Seq([entity : Entities, rooted : BOOLEAN, pin : BOOLEAN])
    BY <2>1, <2>2 DEF HandInv, SafeDrops
  <2>10. result \in Entities \cup {None} /\ user \subseteq Entities /\ buffer \subseteq Entities
    BY <2>1, <2>2, <2>4 DEF HandInv
  <2>11. next \in 1 .. MaxEntities + 1
    <3>1. Len(deferred) \in Nat /\ Len(deferred) <= MaxEntities
      BY <2>1, QueueBound
    <3> QED
      BY <2>1, <2>2, <3>1 DEF Turns, Phases
  <2> QED
    BY <2>1, <2>2, <2>3, <2>6, <2>7, <2>8, <2>9, <2>10, <2>11 DEF TypeOK, Turns, Phases
<1>2. QED
  BY <1>1, DecodeInvariant, PTL

(* Whatever duplicate keys replaced, hooks let go of, destructors did and  *)
(* the collector ran, nothing that a later TAG_REF may name, that a queued *)
(* hook will be called on or with, that is being filled or released, or    *)
(* that can be reached from those, the result or the program, is freed.    *)
THEOREM NamedStaysAlive == Spec => []NamedIsAlive
<1>1. CInv => NamedIsAlive
  <2> SUFFICES ASSUME CInv PROVE NamedIsAlive
    OBVIOUS
  <2>1. LInv /\ HandInv /\ AliveInv
    BY DEF CInv
  <2> DEFINE named ==
        {ids[i].entity : i \in DOMAIN ids}
        \cup (UNION {Ids(deferred[i].object) \cup Ids(deferred[i].data) : i \in DOMAIN deferred})
        \cup (UNION {Ids(frames[i].entity) \cup Ids(frames[i].data) : i \in DOMAIN frames})
        \cup {drops[i].entity : i \in DOMAIN drops}
        \cup Ids(result) \cup user \cup buffer
  <2>2. ASSUME NEW e \in named PROVE e # None /\ Known(e)
    <3>1. /\ \A i \in DOMAIN ids : ids[i].entity \in 1 .. Len(heap)
          /\ \A i \in DOMAIN drops : drops[i].entity \in 1 .. Len(heap)
      <4> DEFINE C == [entity : 1 .. Len(heap), pinned : BOOLEAN]
                 D == [entity : 1 .. Len(heap), rooted : BOOLEAN, pin : BOOLEAN]
      <4>1. \A i \in DOMAIN ids : ids[i] \in C
        BY <2>1, LenProperties, ElementOfSeq DEF LInv, SafeIds
      <4>2. \A i \in DOMAIN drops : drops[i] \in D
        BY <2>1, LenProperties, ElementOfSeq DEF HandInv, SafeDrops
      <4> QED
        BY <4>1, <4>2
    <3>2. user \subseteq 1 .. Len(heap) /\ buffer \subseteq 1 .. Len(heap)
      BY <2>1 DEF HandInv
    <3>3. \A x, y : x \in Ids(y) => x = y /\ x # None
      BY DEF Ids
    <3>4. \A x \in 1 .. Len(heap) : x # None
      BY DEF None
    <3>5. CASE \E i \in DOMAIN ids : e = ids[i].entity
      BY <3>1, <3>4, <3>5 DEF Known, Named, Identified
    <3>6. CASE \E i \in DOMAIN deferred : e \in Ids(deferred[i].object) \cup Ids(deferred[i].data)
      BY <3>3, <3>6 DEF Known, Named, Queued
    <3>7. CASE \E i \in DOMAIN frames : e \in Ids(frames[i].entity) \cup Ids(frames[i].data)
      BY <3>3, <3>7 DEF Known, Named, InFrames
    <3>8. CASE \E i \in DOMAIN drops : e = drops[i].entity
      BY <3>1, <3>4, <3>8 DEF Known, Named, Dropping
    <3>9. CASE e \in Ids(result)
      BY <3>3, <3>9 DEF Known, Named
    <3>10. CASE e \in user \/ e \in buffer
      BY <3>2, <3>4, <3>10 DEF Known, Named
    <3>11. \/ \E i \in DOMAIN ids : e = ids[i].entity
           \/ \E i \in DOMAIN deferred : e \in Ids(deferred[i].object) \cup Ids(deferred[i].data)
           \/ \E i \in DOMAIN frames : e \in Ids(frames[i].entity) \cup Ids(frames[i].data)
           \/ \E i \in DOMAIN drops : e = drops[i].entity
           \/ e \in Ids(result) \/ e \in user \/ e \in buffer
      BY <2>2, Zenon
    <3> QED
      BY <3>5, <3>6, <3>7, <3>8, <3>9, <3>10, <3>11
  <2>3. ASSUME NEW e, Known(e), e # None PROVE e \in Entities
    <3>1. Len(heap) \in Nat /\ Entities = 1 .. Len(heap) /\ 0 .. Len(heap) = Entities \cup {0}
      BY <2>1, Records
    <3> DEFINE n == Len(heap)
               C == [entity : 1 .. n, pinned : BOOLEAN]
               D == [entity : 1 .. n, rooted : BOOLEAN, pin : BOOLEAN]
               Q == [object : 1 .. n, data : 0 .. n]
               F == [what : {"props", "skip", "hooked", "reference", "referenced", "array", "shared"},
                     entity : 1 .. n, data : 0 .. n, sawRef : BOOLEAN]
    <3>2. \A i \in DOMAIN ids : ids[i] \in C
      BY <2>1, LenProperties, ElementOfSeq DEF LInv, SafeIds
    <3>3. \A i \in DOMAIN drops : drops[i] \in D
      BY <2>1, LenProperties, ElementOfSeq DEF HandInv, SafeDrops
    <3>4. \A i \in DOMAIN deferred : deferred[i] \in Q
      BY <2>1, LenProperties, ElementOfSeq DEF HandInv, SafeQueue
    <3>5. \A i \in DOMAIN frames : frames[i] \in F
      BY <2>1, LenProperties, ElementOfSeq DEF LInv, SafeFrames
    <3>6. \A i \in DOMAIN ids : ids[i].entity \in 1 .. n
      BY <3>2
    <3>7. \A i \in DOMAIN drops : drops[i].entity \in 1 .. n
      BY <3>3
    <3>8. \A i \in DOMAIN deferred : deferred[i].object \in 1 .. n /\ deferred[i].data \in 0 .. n
      BY <3>4
    <3>9. \A i \in DOMAIN frames : frames[i].entity \in 1 .. n /\ frames[i].data \in 0 .. n
      BY <3>5
    <3>10. /\ user \subseteq 1 .. n /\ buffer \subseteq 1 .. n /\ result \in 0 .. n
           /\ \A x \in DOMAIN heap, k \in Slots : heap[x].slots[k] \in 0 .. n
      BY <2>1 DEF HandInv, Within
    <3>11. e \in 0 .. n
      <4> HIDE DEF n, C, D, Q, F
      <4>1. Identified(ids, e) => e \in 1 .. n
        BY <3>6 DEF Identified
      <4>2. Dropping(drops, e) => e \in 1 .. n
        BY <3>7 DEF Dropping
      <4>3. Queued(deferred, e) => e \in 1 .. n \/ e \in 0 .. n
        BY <3>8 DEF Queued
      <4>4. InFrames(frames, e) => e \in 1 .. n \/ e \in 0 .. n
        BY <3>9 DEF InFrames
      <4>5. HeldIn(heap, e) => e \in 0 .. n
        BY <3>10 DEF HeldIn
      <4>6. e \in 1 .. n \/ e \in 0 .. n
        BY <2>3, <3>10, <4>1, <4>2, <4>3, <4>4, <4>5 DEF Known, Named
      <4>7. n \in Nat
        BY <3>1 DEF n
      <4> QED
        BY <4>6, <4>7
    <3> QED
      BY <2>3, <3>1, <3>11 DEF None
  <2>4. named \subseteq Entities /\ \A e \in named : Known(e)
    <3> HIDE DEF named
    <3> QED
      BY <2>2, <2>3
  <2>5. \A e \in Reach(named) : heap[e].alive
    <3> HIDE DEF named
    <3>1. \A e \in Reach(named) : Known(e) /\ e \in Entities
      BY <2>1, <2>4, ReachKnown, Records
    <3> QED
      BY <2>1, <3>1 DEF AliveInv
  <2> QED
    BY <2>5 DEF NamedIsAlive
<1>2. QED
  BY <1>1, DecodeInvariant, PTL

----------------------------------------------------------------------------
(* What a frame says of the entity that it fills: of which kind it is, and *)
(* that an object awaiting its data and a reference awaiting its value     *)
(* hold nothing.                                                           *)
Fits(graph, f) ==
  /\ f.data # None => f.what = "hooked" /\ graph[f.data].kind = "array"
  /\ f.what \in {"array", "shared"} <=> graph[f.entity].kind = "array"
  /\ f.what \in {"reference", "referenced"} <=> graph[f.entity].kind = "reference"
  /\ f.what \in {"hooked", "reference"} => \A k \in Slots : graph[f.entity].slots[k] = None

Filling(graph, stack) ==
  /\ \A i \in DOMAIN stack : Fits(graph, stack[i])
  /\ \A i, j \in DOMAIN stack : stack[i].entity = stack[j].entity => i = j

(* A reference never holds a reference.                                    *)
Flat(graph) ==
  \A x \in DOMAIN graph, k \in Slots :
    graph[x].kind = "reference" => graph[x].slots[k] \notin Kind("reference", graph)

(* Where a decoded value went: slot k of an entity, or, when into is None, *)
(* elsewhere; and what the frames are then.                                *)
Landed(into, k, v, graph, stack) ==
  /\ Len(heap') = Len(graph) /\ Wrote(heap', graph, into, k, v)
  /\ into # None =>
       /\ stack # <<>> /\ into = stack[Len(stack)].entity
       /\ frames'[Len(stack)].what \notin {"reference", "hooked"}
       /\ stack[Len(stack)].what \in {"reference", "referenced"} => v \notin Kind("reference", graph)
       /\ graph[into].slots[k] = None \/ (orphan' /\ Dropping(drops', graph[into].slots[k]))
  /\ \/ into # None \/ v = None \/ result' = v \/ (orphan' /\ Dropping(drops', v))
     \/ \E i \in DOMAIN frames' : frames'[i].data = v
  /\ DOMAIN frames' = DOMAIN stack
  /\ \A i \in DOMAIN stack :
       /\ frames'[i].entity = stack[i].entity
       /\ \/ frames'[i].what = stack[i].what
          \/ stack[i].what = "reference" /\ frames'[i].what = "referenced"
       /\ \/ frames'[i].data = stack[i].data
          \/ /\ frames'[i].data = v /\ stack[i].data = None
             /\ stack[i].what = "hooked" /\ v \in Kind("array", graph)
  /\ result' = result \/ (stack = <<>> /\ result' = v)

(* What was dropped on the way.                                            *)
Parted(given, noted) ==
  /\ \A e : e # None /\ In(given, e) => Dropping(drops', e)
  /\ \A i \in DOMAIN drops' : drops'[i].rooted /\ ~ drops'[i].pin
  /\ orphan \/ noted => orphan'
  /\ orphan' \/ drops' = DropAll(given) \/ drops' = DropAll(given \o <<None>>)

(* One value is noted when it has a reference count.                       *)
LEMMA NotesOne ==
  ASSUME NEW v
  PROVE  v = None \/ Notes(<<v>>)
<1>1. SUFFICES ASSUME v # None PROVE Notes(<<v>>)
  OBVIOUS
<1>2. <<v>> \in Seq({v}) /\ In(<<v>>, v)
  BY OneValue
<1>3. \E i \in DOMAIN Present(<<v>>) : Present(<<v>>)[i] = v
  BY <1>1, <1>2, PresentValues DEF In
<1>4. Present(<<v>>) # <<>>
  BY <1>3
<1> QED
  BY <1>4 DEF Notes

LEMMA PutLands ==
  ASSUME NEW v, NEW graph, NEW stack, NEW given, NEW noted,
         SafeHeap(graph), Within(graph), SafeFrames(stack, Len(graph)), v \in 0 .. Len(graph),
         given \in Seq(0 .. Len(graph)), Filling(graph, stack),
         Put(v, graph, stack, given, noted)
  PROVE  /\ \E into, k \in Nat : k \in Slots /\ Landed(into, k, v, graph, stack)
         /\ Parted(given, noted)
<1> DEFINE n == Len(graph)
<1>0. n \in Nat /\ DOMAIN graph = 1 .. n /\ v \in Nat /\ None \notin DOMAIN graph /\ 1 \in Slots
      /\ None \in Nat /\ 1 \in Nat /\ Slots \subseteq Nat
  BY LenProperties, LifetimeAssumption DEF SafeHeap, None, Slots
<1>b. /\ \A e : Dropping(DropAll(given), e) <=> e # None /\ In(given, e)
      /\ \A i \in DOMAIN DropAll(given) : DropAll(given)[i].rooted /\ ~ DropAll(given)[i].pin
  BY <1>0, DropAllSafe
<1>c. ASSUME NEW one \in 0 .. n
      PROVE  LET d == DropAll(given \o <<one>>)
             IN /\ \A e : Dropping(d, e) <=> e # None /\ (In(given, e) \/ e = one)
                /\ \A i \in DOMAIN d : d[i].rooted /\ ~ d[i].pin
  <2>1. <<one>> \in Seq(0 .. n)
    OBVIOUS
  <2>2. given \o <<one>> \in Seq(0 .. n)
        /\ \A e : In(given \o <<one>>, e) <=> In(given, e) \/ In(<<one>>, e)
    BY <2>1, ValuesJoin
  <2> QED
    BY <1>0, <2>2, DropAllSafe, OneValue
<1>d. Wrote(graph, graph, None, 1, v)
  BY <1>0 DEF Wrote
<1>1. CASE stack = <<>>
  <2>1. /\ heap' = graph /\ frames' = stack /\ result' = v
        /\ drops' = DropAll(given) /\ orphan' = (orphan \/ noted)
    BY <1>1 DEF Put
  <2>2. Landed(None, 1, v, graph, stack)
    BY <1>1, <1>d, <2>1 DEF Landed
  <2>3. Parted(given, noted)
    BY <1>b, <2>1 DEF Parted
  <2> QED
    BY <1>0, <2>2, <2>3
<1>2. CASE stack # <<>>
  <2> DEFINE l == Len(stack)
             f == stack[l]
             into == f.entity
             C ==
      [what : {"props", "skip", "hooked", "reference", "referenced", "array", "shared"},
       entity : 1 .. n, data : 0 .. n, sawRef : BOOLEAN]
  <2>c. l \in 1 .. l /\ DOMAIN stack = 1 .. l /\ f \in C
    <3>1. stack \in Seq(C)
      BY DEF SafeFrames
    <3> HIDE DEF C
    <3> QED
      BY <1>2, <3>1, EmptySeq, LenProperties, ElementOfSeq
  <2>0. l \in DOMAIN stack /\ into \in 1 .. n /\ DOMAIN stack = 1 .. l /\ into \in DOMAIN graph
        /\ into # None /\ into \in Nat
    BY <1>0, <2>c
  <2>w. ASSUME NEW k \in Slots
        PROVE  /\ Wrote(Write(graph, into, k, v), graph, into, k, v)
               /\ Len(Write(graph, into, k, v)) = n
    <3> HIDE DEF into
    <3> QED
      BY <1>0, <2>0, WriteOne, SlotWrite
  <2>o. \A k \in Slots : graph[into].slots[k] \in 0 .. n
    BY <2>0 DEF Within
  <2>1. ASSUME NEW k \in Slots,
               f.what \in {"props", "array", "shared"},
               heap' = Write(graph, into, k, v),
               drops' = DropAll(given \o <<graph[into].slots[k]>>),
               orphan' = (orphan \/ noted \/ Notes(<<graph[into].slots[k]>>)),
               frames' = stack, UNCHANGED result
        PROVE  /\ \E x, y \in Nat : y \in Slots /\ Landed(x, y, v, graph, stack)
               /\ Parted(given, noted)
    <3> DEFINE one == graph[into].slots[k]
    <3>1. one \in 0 .. n
      BY <2>o
    <3>2. Wrote(heap', graph, into, k, v) /\ Len(heap') = n
      BY <2>1, <2>w
    <3>3. /\ drops' = DropAll(given \o <<one>>)
          /\ orphan' = (orphan \/ noted \/ Notes(<<one>>))
      BY <2>1
    <3> HIDE DEF one
    <3>4. /\ \A e : Dropping(drops', e) <=> e # None /\ (In(given, e) \/ e = one)
          /\ \A i \in DOMAIN drops' : drops'[i].rooted /\ ~ drops'[i].pin
      BY <1>c, <3>1, <3>3
    <3>5. one = None \/ (orphan' /\ Dropping(drops', one))
      BY <3>3, <3>4, NotesOne
    <3>6. Parted(given, noted)
      BY <3>3, <3>4, <3>5 DEF Parted
    <3>7. Landed(into, k, v, graph, stack)
      <4>1. graph[into].slots[k] = None \/ (orphan' /\ Dropping(drops', graph[into].slots[k]))
        BY <3>5 DEF one
      <4>2. frames'[l].what \notin {"reference", "hooked"} /\ f.what \notin {"reference", "referenced"}
        BY <2>1
      <4> QED
        BY <1>2, <2>1, <3>2, <4>1, <4>2, <2>0 DEF Landed
    <3> QED
      BY <1>0, <2>0, <3>6, <3>7
  <2>2. ASSUME heap' = graph, drops' = DropAll(given \o <<v>>),
               orphan' = (orphan \/ noted \/ Notes(<<v>>)),
               frames' = stack, UNCHANGED result
        PROVE  Landed(None, 1, v, graph, stack) /\ Parted(given, noted)
    <3>1. /\ \A e : Dropping(drops', e) <=> e # None /\ (In(given, e) \/ e = v)
          /\ \A i \in DOMAIN drops' : drops'[i].rooted /\ ~ drops'[i].pin
      BY <1>c, <2>2
    <3>2. v = None \/ (orphan' /\ Dropping(drops', v))
      BY <2>2, <3>1, NotesOne
    <3>3. Parted(given, noted)
      BY <2>2, <3>1, <3>2 DEF Parted
    <3> QED
      BY <1>d, <2>2, <3>2, <3>3 DEF Landed
  <2>3. ASSUME f.what = "hooked", f.data = None, v \in Kind("array", graph),
               heap' = graph, drops' = DropAll(given), orphan' = (orphan \/ noted),
               frames' = [stack EXCEPT ![Len(stack)].data = v], UNCHANGED result
        PROVE  Landed(None, 1, v, graph, stack) /\ Parted(given, noted)
    <3>1. /\ DOMAIN frames' = DOMAIN stack
          /\ \A i \in DOMAIN stack :
               /\ frames'[i].entity = stack[i].entity /\ frames'[i].what = stack[i].what
               /\ frames'[i].data = IF i = l THEN v ELSE stack[i].data
      <4> DEFINE g == [f EXCEPT !.data = v]
      <4>1. g = [what |-> f.what, entity |-> f.entity, data |-> v, sawRef |-> f.sawRef]
        BY <1>0, <2>c
      <4>2. g \in C /\ g.entity = f.entity /\ g.data = v /\ g.what = f.what
        BY <1>0, <2>c, <4>1
      <4>3. frames' = [stack EXCEPT ![Len(stack)] = g]
        BY <2>3
      <4> HIDE DEF g
      <4>4. /\ DOMAIN frames' = DOMAIN stack /\ Len(frames') = Len(stack)
            /\ \A j \in DOMAIN stack : frames'[j] = IF j = Len(stack) THEN g ELSE stack[j]
        BY <1>0, <2>0, <4>2, <4>3, FrameChange
      <4> QED
        BY <4>2, <4>4
    <3>2. l \in DOMAIN frames' /\ frames'[l].data = v
      BY <2>0, <3>1
    <3>3. \A i \in DOMAIN stack : frames'[i].data = stack[i].data
                                  \/ /\ frames'[i].data = v /\ stack[i].data = None
                                     /\ stack[i].what = "hooked" /\ v \in Kind("array", graph)
      BY <2>3, <3>1
    <3>4. Landed(None, 1, v, graph, stack)
      BY <1>d, <2>3, <3>1, <3>2, <3>3 DEF Landed
    <3>5. Parted(given, noted)
      BY <1>b, <2>3 DEF Parted
    <3> QED
      BY <3>4, <3>5
  <2>4. ASSUME f.what = "reference", v \notin Kind("reference", graph),
               heap' = Write(graph, into, 1, v), drops' = DropAll(given),
               orphan' = (orphan \/ noted),
               frames' = [stack EXCEPT ![Len(stack)].what = "referenced"], UNCHANGED result
        PROVE  Landed(into, 1, v, graph, stack) /\ Parted(given, noted)
    <3>1. /\ DOMAIN frames' = DOMAIN stack
          /\ \A i \in DOMAIN stack :
               /\ frames'[i].entity = stack[i].entity /\ frames'[i].data = stack[i].data
               /\ frames'[i].what = IF i = l THEN "referenced" ELSE stack[i].what
      <4> DEFINE g == [f EXCEPT !.what = "referenced"]
      <4>1. g = [what |-> "referenced", entity |-> f.entity, data |-> f.data,
                 sawRef |-> f.sawRef]
        BY <1>0, <2>c, FrameWhat
      <4>2. g \in C /\ g.entity = f.entity /\ g.data = f.data /\ g.what = "referenced"
        BY <1>0, <2>c, <4>1
      <4>3. frames' = [stack EXCEPT ![Len(stack)] = g]
        BY <2>4
      <4> HIDE DEF g
      <4>4. /\ DOMAIN frames' = DOMAIN stack /\ Len(frames') = Len(stack)
            /\ \A j \in DOMAIN stack : frames'[j] = IF j = Len(stack) THEN g ELSE stack[j]
        BY <1>0, <2>0, <4>2, <4>3, FrameChange
      <4> QED
        BY <4>2, <4>4
    <3>2. Wrote(heap', graph, into, 1, v) /\ Len(heap') = n
      BY <1>0, <2>4, <2>w
    <3>3. graph[into].slots[1] = None
      BY <1>0, <2>0, <2>4 DEF Filling, Fits
    <3>4. \A i \in DOMAIN stack : \/ frames'[i].what = stack[i].what
                                  \/ stack[i].what = "reference" /\ frames'[i].what = "referenced"
      BY <2>4, <3>1
    <3>5. frames'[l].what \notin {"reference", "hooked"}
      BY <2>0, <3>1
    <3>6. Landed(into, 1, v, graph, stack)
      BY <1>2, <2>4, <2>0, <3>1, <3>2, <3>3, <3>4, <3>5 DEF Landed
    <3>7. Parted(given, noted)
      BY <1>b, <2>4 DEF Parted
    <3> QED
      BY <3>6, <3>7
  <2>5. \/ \E k \in Slots : /\ f.what \in {"props", "array", "shared"}
                            /\ heap' = Write(graph, into, k, v)
                            /\ drops' = DropAll(given \o <<graph[into].slots[k]>>)
                            /\ orphan' = (orphan \/ noted \/ Notes(<<graph[into].slots[k]>>))
                            /\ frames' = stack /\ UNCHANGED result
        \/ /\ heap' = graph /\ drops' = DropAll(given \o <<v>>)
           /\ orphan' = (orphan \/ noted \/ Notes(<<v>>))
           /\ frames' = stack /\ UNCHANGED result
        \/ /\ f.what = "hooked" /\ f.data = None /\ v \in Kind("array", graph)
           /\ heap' = graph /\ drops' = DropAll(given) /\ orphan' = (orphan \/ noted)
           /\ frames' = [stack EXCEPT ![Len(stack)].data = v] /\ UNCHANGED result
        \/ /\ f.what = "reference" /\ v \notin Kind("reference", graph)
           /\ heap' = Write(graph, into, 1, v) /\ drops' = DropAll(given)
           /\ orphan' = (orphan \/ noted)
           /\ frames' = [stack EXCEPT ![Len(stack)].what = "referenced"] /\ UNCHANGED result
    BY <1>2 DEF Put
  <2> HIDE DEF into, f, l
  <2> QED
    BY <1>0, <2>0, <2>1, <2>2, <2>3, <2>4, <2>5
<1>3. QED
  BY <1>1, <1>2

(* The frames still fit after a value is put into one of them.             *)
LEMMA LandedFills ==
  ASSUME NEW v, NEW graph, NEW stack, NEW into \in Nat, NEW k \in Slots,
         SafeHeap(graph), SafeFrames(stack, Len(graph)), v \in 0 .. Len(graph),
         Filling(graph, stack), Flat(graph),
         Landed(into, k, v, graph, stack)
  PROVE  Filling(heap', frames') /\ Flat(heap')
<1> DEFINE n == Len(graph)
           C ==
      [what : {"props", "skip", "hooked", "reference", "referenced", "array", "shared"},
       entity : 1 .. n, data : 0 .. n, sawRef : BOOLEAN]
<1>0. n \in Nat /\ DOMAIN graph = 1 .. n
  BY LenProperties DEF SafeHeap
<1>1. /\ DOMAIN heap' = DOMAIN graph
      /\ \A x \in DOMAIN graph :
           /\ heap'[x].kind = graph[x].kind
           /\ \A j \in Slots :
                heap'[x].slots[j] = IF x = into /\ j = k THEN v ELSE graph[x].slots[j]
  BY DEF Landed, Wrote
<1>2. \A i \in DOMAIN stack : stack[i].entity \in 1 .. n /\ stack[i].data \in 0 .. n
  <2>1. \A i \in DOMAIN stack : stack[i] \in C
    BY LenProperties, ElementOfSeq DEF SafeFrames
  <2> QED
    BY <2>1
<1>3. /\ DOMAIN frames' = DOMAIN stack
      /\ \A i \in DOMAIN stack :
           /\ frames'[i].entity = stack[i].entity
           /\ \/ frames'[i].what = stack[i].what
              \/ stack[i].what = "reference" /\ frames'[i].what = "referenced"
           /\ \/ frames'[i].data = stack[i].data
              \/ /\ frames'[i].data = v /\ stack[i].data = None
                 /\ stack[i].what = "hooked" /\ v \in Kind("array", graph)
  BY DEF Landed
<1>4. into # None =>
        /\ Len(stack) \in DOMAIN stack /\ into = stack[Len(stack)].entity
        /\ frames'[Len(stack)].what \notin {"reference", "hooked"}
        /\ stack[Len(stack)].what \in {"reference", "referenced"} => v \notin Kind("reference", graph)
  <2>1. stack \in Seq(C)
    BY DEF SafeFrames
  <2>2. stack # <<>> => Len(stack) \in DOMAIN stack
    <3> HIDE DEF C
    <3> QED
      BY <2>1, EmptySeq, LenProperties
  <2> QED
    BY <2>2 DEF Landed
<1>5. \A i \in DOMAIN stack : stack[i].entity \in DOMAIN graph
                              /\ (stack[i].data # None => stack[i].data \in DOMAIN graph)
  BY <1>0, <1>2 DEF None
<1>6. ASSUME NEW i \in DOMAIN stack PROVE Fits(heap', frames'[i])
  <2> DEFINE s == stack[i]
             f == frames'[i]
  <2>1. /\ f.entity = s.entity
        /\ f.what = s.what \/ (s.what = "reference" /\ f.what = "referenced")
        /\ \/ f.data = s.data
           \/ /\ f.data = v /\ s.data = None /\ s.what = "hooked" /\ v \in Kind("array", graph)
    BY <1>3
  <2>2. Fits(graph, s) /\ s.entity \in DOMAIN graph /\ (s.data # None => s.data \in DOMAIN graph)
    BY <1>5 DEF Filling
  <2>3. s.entity = into /\ into # None => f.what \notin {"reference", "hooked"}
    BY <1>4 DEF Filling
  <2>4. into = None => s.entity # into
    BY <1>0, <2>2 DEF None
  <2> HIDE DEF s, f
  <2>5. f.data # None => f.what = "hooked" /\ heap'[f.data].kind = "array"
    BY <1>1, <2>1, <2>2 DEF Fits, Kind
  <2>6. /\ f.what \in {"array", "shared"} <=> heap'[f.entity].kind = "array"
        /\ f.what \in {"reference", "referenced"} <=> heap'[f.entity].kind = "reference"
    BY <1>1, <2>1, <2>2 DEF Fits
  <2>7. ASSUME f.what \in {"hooked", "reference"}, NEW j \in Slots
        PROVE  heap'[f.entity].slots[j] = None
    <3>1. s.entity # into /\ s.what \in {"hooked", "reference"}
      BY <2>1, <2>3, <2>4, <2>7
    <3> QED
      BY <1>1, <2>1, <2>2, <3>1 DEF Fits
  <2> QED
    BY <2>5, <2>6, <2>7 DEF Fits, f
<1>7. Filling(heap', frames')
  BY <1>3, <1>6 DEF Filling
<1>8. ASSUME NEW x \in DOMAIN heap', NEW j \in Slots, heap'[x].kind = "reference"
      PROVE  heap'[x].slots[j] \notin Kind("reference", heap')
  <2>1. Kind("reference", heap') = Kind("reference", graph) /\ x \in DOMAIN graph
        /\ graph[x].kind = "reference"
    BY <1>1, <1>8 DEF Kind
  <2>2. CASE x = into /\ j = k
    <3>1. into # None
      BY <1>0, <2>1, <2>2 DEF None
    <3>2. Fits(graph, stack[Len(stack)])
      BY <1>4, <3>1 DEF Filling
    <3>3. stack[Len(stack)].what \in {"reference", "referenced"}
      BY <1>4, <2>1, <2>2, <3>1, <3>2 DEF Fits
    <3>4. v \notin Kind("reference", graph)
      BY <1>4, <3>1, <3>3 DEF Landed
    <3> QED
      BY <1>1, <2>1, <2>2, <3>4
  <2>3. CASE ~ (x = into /\ j = k)
    BY <1>1, <2>1, <2>3 DEF Flat
  <2> QED
    BY <2>2, <2>3
<1>9. Flat(heap')
  BY <1>8 DEF Flat
<1> QED
  BY <1>7, <1>9

(* What can be reached: a set that is closed under what slots hold, and    *)
(* has what the frames and the value hold.                                 *)
Shut(graph, set) == \A x \in set, k \in Slots : graph[x].slots[k] \in set \cup {None}
Has(set, stack, v) ==
  /\ v \in set \cup {None}
  /\ \A i \in DOMAIN stack : stack[i].entity \in set /\ stack[i].data \in set \cup {None}

(* Everything alive can be reached from the frames and the value, but for  *)
(* what is spared.                                                         *)
Spans(graph, stack, v, spare) ==
  \A set \in SUBSET DOMAIN graph : Shut(graph, set) /\ Has(set, stack, v) =>
    \A x \in DOMAIN graph : graph[x].alive => x \in set \cup spare

(* A value that is put somewhere, replacing nothing, can be reached there. *)
LEMMA LandedSpans ==
  ASSUME NEW v, NEW graph, NEW stack, NEW into \in Nat, NEW k \in Slots, NEW spare,
         SafeHeap(graph), SafeFrames(stack, Len(graph)), v \in 0 .. Len(graph),
         Landed(into, k, v, graph, stack), ~ orphan', result = None,
         Spans(graph, stack, v, spare)
  PROVE  Spans(heap', frames', result', spare)
<1> SUFFICES ASSUME NEW set \in SUBSET DOMAIN heap', Shut(heap', set),
                    Has(set, frames', result'),
                    NEW x \in DOMAIN heap', heap'[x].alive
             PROVE  x \in set \cup spare
  BY DEF Spans
<1>1. /\ DOMAIN heap' = DOMAIN graph
      /\ \A y \in DOMAIN graph :
           /\ heap'[y].alive = graph[y].alive
           /\ \A j \in Slots :
                heap'[y].slots[j] = IF y = into /\ j = k THEN v ELSE graph[y].slots[j]
  BY DEF Landed, Wrote
<1>2. into # None => graph[into].slots[k] = None
  BY DEF Landed
<1>3. \A i \in DOMAIN stack : stack[i].entity \in set /\ stack[i].data \in set \cup {None}
  BY DEF Landed, Has
<1>4. into # None => into \in set
  <2>1. stack # <<>> => Len(stack) \in DOMAIN stack
    BY EmptySeq, LenProperties DEF SafeFrames
  <2> QED
    BY <1>3, <2>1 DEF Landed
<1>5. v \in set \cup {None}
  <2>1. CASE into # None
    <3>1. heap'[into].slots[k] = v
      BY <1>1, <1>4, <2>1
    <3> QED
      BY <1>4, <2>1, <3>1 DEF Shut
  <2>2. CASE v = None \/ result' = v \/ \E i \in DOMAIN frames' : frames'[i].data = v
    BY <2>2 DEF Has
  <2> QED
    BY <2>1, <2>2 DEF Landed
<1>6. Shut(graph, set)
  <2>1. ASSUME NEW y \in set, NEW j \in Slots PROVE graph[y].slots[j] \in set \cup {None}
    <3>0. y \in DOMAIN graph /\ y # None
      BY <1>1, LenProperties DEF SafeHeap, None
    <3>1. CASE y = into /\ j = k
      BY <1>2, <3>0, <3>1
    <3>2. CASE ~ (y = into /\ j = k)
      <4>1. heap'[y].slots[j] = graph[y].slots[j]
        BY <1>1, <3>0, <3>2
      <4> QED
        BY <4>1 DEF Shut
    <3> QED
      BY <3>1, <3>2
  <2> QED
    BY <2>1 DEF Shut
<1> QED
  BY <1>1, <1>3, <1>5, <1>6 DEF Spans, Has

(* A decoded value, the heap its call leaves and the frames around it, and *)
(* the value put there.                                                    *)
Ready(v, graph, stack, given, noted) ==
  /\ SafeHeap(graph) /\ Within(graph) /\ SafeFrames(stack, Len(graph))
  /\ v \in 0 .. Len(graph) /\ given \in Seq(0 .. Len(graph))
  /\ Filling(graph, stack) /\ Flat(graph)
  /\ Put(v, graph, stack, given, noted)

LEMMA ReadyLands ==
  ASSUME NEW v, NEW graph, NEW stack, NEW given, NEW noted,
         Ready(v, graph, stack, given, noted)
  PROVE  /\ \E into, k \in Nat : k \in Slots /\ Landed(into, k, v, graph, stack)
         /\ Parted(given, noted)
         /\ Filling(heap', frames') /\ Flat(heap')
<1>1. /\ \E into, k \in Nat : k \in Slots /\ Landed(into, k, v, graph, stack)
      /\ Parted(given, noted)
  BY PutLands DEF Ready
<1>2. Filling(heap', frames') /\ Flat(heap')
  BY <1>1, LandedFills DEF Ready
<1> QED
  BY <1>1, <1>2

(* Where the frames point.                                                 *)
LEMMA FramesPoint ==
  ASSUME NEW n \in Nat, NEW stack, SafeFrames(stack, n)
  PROVE  /\ DOMAIN stack = 1 .. Len(stack) /\ Len(stack) \in Nat
         /\ \A i \in DOMAIN stack : stack[i].entity \in 1 .. n /\ stack[i].data \in 0 .. n
         /\ stack # <<>> => Len(stack) \in DOMAIN stack
<1> DEFINE C == [what : {"props", "skip", "hooked", "reference", "referenced", "array", "shared"},
                 entity : 1 .. n, data : 0 .. n, sawRef : BOOLEAN]
<1>1. stack \in Seq(C)
  BY DEF SafeFrames
<1> HIDE DEF C
<1>2. /\ DOMAIN stack = 1 .. Len(stack) /\ Len(stack) \in Nat
      /\ \A i \in DOMAIN stack : stack[i] \in C
      /\ stack # <<>> => Len(stack) \in DOMAIN stack
  BY <1>1, LenProperties, ElementOfSeq, EmptySeq
<1>3. \A i \in DOMAIN stack : stack[i].entity \in 1 .. n /\ stack[i].data \in 0 .. n
  BY <1>2 DEF C
<1> QED
  BY <1>2, <1>3

(* Frames that fit, and the frames of a heap that agrees on what they hold.*)
LEMMA FillingKept ==
  ASSUME NEW n \in Nat, NEW stack, SafeFrames(stack, n), NEW h, NEW g, Filling(h, stack),
         \A x \in 1 .. n : /\ g[x].kind = h[x].kind
                           /\ \/ \A k \in Slots : g[x].slots[k] = h[x].slots[k]
                              \/ \A k \in Slots : g[x].slots[k] = None
                              \/ \A i \in DOMAIN stack : stack[i].entity # x
  PROVE  Filling(g, stack)
<1>1. ASSUME NEW i \in DOMAIN stack PROVE Fits(g, stack[i])
  <2> DEFINE f == stack[i]
  <2>1. f.entity \in 1 .. n /\ (f.data # None => f.data \in 1 .. n) /\ Fits(h, f)
    <3>1. stack[i].entity \in 1 .. n /\ stack[i].data \in 0 .. n
      BY FramesPoint
    <3>2. Fits(h, stack[i])
      BY DEF Filling
    <3> QED
      BY <3>1, <3>2 DEF None
  <2>2. \/ \A k \in Slots : g[f.entity].slots[k] = h[f.entity].slots[k]
        \/ \A k \in Slots : g[f.entity].slots[k] = None
    BY <2>1
  <2> HIDE DEF f
  <2>3. f.what \in {"hooked", "reference"} => \A k \in Slots : g[f.entity].slots[k] = None
    BY <2>1, <2>2 DEF Fits
  <2>4. g[f.entity].kind = h[f.entity].kind
        /\ (f.data # None => g[f.data].kind = h[f.data].kind)
    BY <2>1
  <2> QED
    BY <2>1, <2>3, <2>4 DEF Fits, f
<1> QED
  BY <1>1 DEF Filling

LEMMA SawFilling ==
  ASSUME NEW n \in Nat, NEW stack, SafeFrames(stack, n), NEW h, Filling(h, stack)
  PROVE  Filling(h, SawReference(stack))
<1>1. /\ DOMAIN SawReference(stack) = DOMAIN stack
      /\ \A i \in DOMAIN stack : LET f == SawReference(stack)[i]
                                 IN /\ f.entity = stack[i].entity /\ f.data = stack[i].data
                                    /\ f.what = stack[i].what
  BY SawSame
<1>2. ASSUME NEW i \in DOMAIN stack PROVE Fits(h, SawReference(stack)[i])
  <2> DEFINE f == SawReference(stack)[i]
             g == stack[i]
  <2>1. f.entity = g.entity /\ f.data = g.data /\ f.what = g.what /\ Fits(h, g)
    BY <1>1 DEF Filling
  <2> HIDE DEF f, g
  <2>2. Fits(h, f)
    BY <2>1 DEF Fits
  <2> QED
    BY <2>2 DEF f
<1> QED
  BY <1>1, <1>2 DEF Filling

Fine == Filling(heap, frames) /\ Flat(heap)

LEMMA ReadReady ==
  ASSUME CInv, Fine
  PROVE  /\ ReadScalar => Ready(None, heap, frames, <<>>, FALSE)
         /\ ReadBackReference => \E i \in DOMAIN ids, stack \in {frames, SawReference(frames)} :
              Ready(ids[i].entity, heap, stack, <<>>, FALSE) /\ heap[ids[i].entity].alive
<1>1. /\ SafeHeap(heap) /\ Within(heap) /\ SafeFrames(frames, Len(heap)) /\ Len(heap) \in Nat
      /\ LInv /\ <<>> \in Seq(0 .. Len(heap)) /\ None \in 0 .. Len(heap)
  BY Records, NoValue DEF CInv, LInv, HandInv, None
<1>2. ReadScalar => Ready(None, heap, frames, <<>>, FALSE)
  BY <1>1 DEF Ready, Fine, ReadScalar
<1>3. ASSUME ReadBackReference
      PROVE  \E i \in DOMAIN ids, stack \in {frames, SawReference(frames)} :
               Ready(ids[i].entity, heap, stack, <<>>, FALSE) /\ heap[ids[i].entity].alive
  <2>1. PICK i \in DOMAIN ids, stack \in {frames, SawReference(frames)} :
          Put(ids[i].entity, heap, stack, <<>>, FALSE)
    <3>1. PICK i \in DOMAIN ids :
            LET e == ids[i].entity
                stack == IF heap[e].kind = "reference" THEN SawReference(frames) ELSE frames
            IN Put(e, heap, stack, <<>>, FALSE)
      BY <1>3 DEF ReadBackReference
    <3> QED
      BY <3>1
  <2>2. ids[i].entity \in 1 .. Len(heap)
    <3> DEFINE C == [entity : 1 .. Len(heap), pinned : BOOLEAN]
    <3>1. ids \in Seq(C)
      BY <1>1 DEF LInv, SafeIds
    <3>2. ids[i] \in C
      BY <3>1, LenProperties, ElementOfSeq
    <3> QED
      BY <3>2
  <2>3. SafeFrames(stack, Len(heap)) /\ Filling(heap, stack)
    BY <1>1, Seen, SawFilling DEF Fine
  <2>4. heap[ids[i].entity].alive
    BY <1>1, <2>2, Records DEF CInv, AliveInv, Known, Named, Identified
  <2>5. Ready(ids[i].entity, heap, stack, <<>>, FALSE)
    <3> DEFINE e == ids[i].entity
    <3>0. Put(e, heap, stack, <<>>, FALSE)
      BY <2>1
    <3>1. e \in 0 .. Len(heap)
      BY <1>1, <2>2
    <3> HIDE DEF e
    <3>2. Ready(e, heap, stack, <<>>, FALSE)
      BY <1>1, <2>3, <3>0, <3>1 DEF Ready, Fine
    <3> QED
      BY <3>2 DEF e
  <2> QED
    BY <2>1, <2>4, <2>5
<1> QED
  BY <1>2, <1>3

LEMMA EndReady ==
  ASSUME CInv, Fine, frames # <<>>
  PROVE  /\ EndValue \/ EndHooked => Ready(top.entity, heap, Outer(frames), <<>>, FALSE)
         /\ EndApplied =>
              Ready(top.entity, Copied, Outer(frames), <<top.data>>, NotesData(top.data))
<1>1. /\ SafeHeap(heap) /\ Within(heap) /\ SafeFrames(frames, Len(heap)) /\ Len(heap) \in Nat
      /\ LInv /\ <<>> \in Seq(0 .. Len(heap)) /\ HandInv /\ AliveInv /\ Entities = 1 .. Len(heap)
      /\ DOMAIN heap = Entities
  BY Records, NoValue DEF CInv, LInv, HandInv, Entities
<1>2. /\ Len(frames) \in Nat \ {0} /\ DOMAIN frames = 1 .. Len(frames)
      /\ DOMAIN Outer(frames) = 1 .. Len(frames) - 1
      /\ \A i \in 1 .. Len(frames) - 1 : Outer(frames)[i] = frames[i]
      /\ SafeFrames(Outer(frames), Len(heap)) /\ top.entity \in 1 .. Len(heap)
      /\ top.data \in 0 .. Len(heap) /\ top = frames[Len(frames)]
  BY <1>1, OuterFrames, Stacked DEF top
<1>3. Filling(heap, Outer(frames)) /\ Flat(heap)
      /\ \A i \in DOMAIN Outer(frames) : Outer(frames)[i].entity # top.entity
  BY <1>2 DEF Filling, Fine
<1>4. top.entity \in 0 .. Len(heap)
  BY <1>1, <1>2
<1>5. ASSUME EndValue \/ EndHooked PROVE Ready(top.entity, heap, Outer(frames), <<>>, FALSE)
  BY <1>1, <1>2, <1>3, <1>4, <1>5 DEF Ready, EndValue, EndHooked
<1>6. ASSUME EndApplied
      PROVE  Ready(top.entity, Copied, Outer(frames), <<top.data>>, NotesData(top.data))
  <2>1. Put(top.entity, Copied, Outer(frames), <<top.data>>, NotesData(top.data))
        /\ top.data # None /\ top.what = "hooked"
    BY <1>6 DEF EndApplied, Copied
  <2>2. /\ SafeHeap(Copied) /\ Within(Copied) /\ Len(Copied) = Len(heap)
        /\ top.data \in Entities /\ top.entity \in Entities /\ Kept(Copied)
        /\ \A x \in Entities : Copied[x].slots = IF x = top.entity THEN heap[top.data].slots
                                                 ELSE heap[x].slots
    BY <1>1, <2>1, CopiedKept
  <2>3. DOMAIN Copied = Entities /\ \A x \in Entities : Copied[x].kind = heap[x].kind
    BY <1>1, <2>2, LenProperties DEF Kept, SafeHeap
  <2>4. Filling(Copied, Outer(frames))
    <3>1. \A x \in 1 .. Len(heap) :
            /\ Copied[x].kind = heap[x].kind
            /\ \/ \A k \in Slots : Copied[x].slots[k] = heap[x].slots[k]
               \/ \A i \in DOMAIN Outer(frames) : Outer(frames)[i].entity # x
      BY <1>1, <1>3, <2>2, <2>3
    <3> DEFINE n == Len(heap)
               o == Outer(frames)
               c == Copied
    <3>2. n \in Nat /\ SafeFrames(o, n) /\ Filling(heap, o)
      BY <1>1, <1>2, <1>3
    <3>3. \A x \in 1 .. n : /\ c[x].kind = heap[x].kind
                             /\ \/ \A k \in Slots : c[x].slots[k] = heap[x].slots[k]
                                \/ \A k \in Slots : c[x].slots[k] = None
                                \/ \A i \in DOMAIN o : o[i].entity # x
      BY <3>1
    <3> HIDE DEF n, o, c
    <3>4. Filling(c, o)
      BY <3>2, <3>3, FillingKept
    <3> QED
      BY <3>4 DEF c, o
  <2>5. heap[top.entity].kind # "reference"
    BY <1>2, <2>1 DEF Fine, Filling, Fits
  <2>6. Flat(Copied)
    <3>1. Kind("reference", Copied) = Kind("reference", heap)
      BY <1>1, <2>3 DEF Kind
    <3> QED
      BY <1>1, <1>3, <2>2, <2>3, <2>5, <3>1 DEF Flat
  <2>7. <<top.data>> \in Seq(0 .. Len(heap))
    BY <1>2
  <2> QED
    BY <1>2, <1>4, <2>1, <2>2, <2>4, <2>6, <2>7 DEF Ready
<1> QED
  BY <1>5, <1>6

(* What opening a frame of a new entity does.                              *)
Opened(kind) ==
  /\ kind \in {"object", "reference", "array"}
  /\ DOMAIN heap' = 1 .. fresh /\ \A x \in Entities : heap'[x] = heap[x]
  /\ heap'[fresh].alive /\ heap'[fresh].kind = kind
  /\ \A k \in Slots : heap'[fresh].slots[k] = None
  /\ DOMAIN frames' = 1 .. Len(frames) + 1 /\ DOMAIN frames = 1 .. Len(frames)
  /\ Len(frames) \in Nat
  /\ \A i \in DOMAIN frames : /\ frames'[i].entity = frames[i].entity
                              /\ frames'[i].data = frames[i].data
                              /\ frames'[i].what = frames[i].what
  /\ LET f == frames'[Len(frames) + 1]
     IN /\ f.entity = fresh /\ f.data = None
        /\ f.what \in {"array", "shared"} <=> kind = "array"
        /\ f.what \in {"reference", "referenced"} <=> kind = "reference"
  /\ \/ kind = "array" /\ ids' = ids
     \/ kind # "array" /\ Register(fresh, kind)
  /\ UNCHANGED <<deferred, orphan, phase, next, result, drops, user, buffer>>

LEMMA Opens ==
  ASSUME CInv, (\E class \in Classes : BeginObject(class)) \/ BeginReference \/ BeginArray
  PROVE  \E kind : Opened(kind)
<1>1. /\ SafeFrames(frames, Len(heap)) /\ Len(heap) \in Nat /\ fresh = Len(heap) + 1
      /\ Entities = 1 .. Len(heap) /\ LInv /\ Within(heap)
  BY Records DEF CInv, LInv, HandInv
<1>2. PICK stack \in {frames, SawReference(frames)},
           what \in {"props", "skip", "hooked", "reference", "array", "shared"},
           kind \in {"object", "reference", "array"}, class \in Classes \cup {NoClass} :
        /\ frames' = Append(stack, Frame(what, fresh))
        /\ heap' = Create(kind, class)
        /\ what \in {"array", "shared"} <=> kind = "array"
        /\ what = "reference" <=> kind = "reference"
        /\ \/ kind = "array" /\ ids' = ids
           \/ kind # "array" /\ Register(fresh, kind)
  <2>1. CASE \E class \in Classes : BeginObject(class)
    <3>1. PICK class \in Classes : BeginObject(class)
      BY <2>1
    <3>2. PICK what \in {"props", "skip", "hooked"} : frames' = Append(frames, Frame(what, fresh))
      BY <3>1 DEF BeginObject, ContentsOf
    <3> QED
      BY <3>1, <3>2 DEF BeginObject
  <2>2. CASE BeginReference
    BY <2>2 DEF BeginReference
  <2>3. CASE BeginArray
    BY <2>3 DEF BeginArray
  <2> QED
    BY <2>1, <2>2, <2>3
<1>3. UNCHANGED <<deferred, orphan, phase, next, result, drops, user, buffer>>
  BY DEF BeginObject, BeginReference, BeginArray, Token
<1>4. /\ SafeFrames(stack, Len(heap)) /\ DOMAIN stack = DOMAIN frames
      /\ \A i \in DOMAIN frames : LET f == stack[i]
                                  IN /\ f.entity = frames[i].entity /\ f.data = frames[i].data
                                     /\ f.what = frames[i].what
  BY <1>1, Seen, SawSame
<1>5. fresh \in Nat /\ fresh \in 1 .. fresh /\ Len(heap) <= fresh
  BY <1>1
<1>6. SafeFrames(stack, fresh)
  <2> HIDE DEF fresh
  <2> QED
    BY <1>1, <1>4, <1>5, Grow DEF LInv
<1>7. /\ DOMAIN stack = 1 .. Len(stack) /\ Len(stack) \in Nat
      /\ DOMAIN frames' = 1 .. Len(stack) + 1
      /\ \A i \in 1 .. Len(stack) : frames'[i] = stack[i]
      /\ frames'[Len(stack) + 1] = Frame(what, fresh)
  <2> HIDE DEF fresh
  <2> QED
    BY <1>2, <1>5, <1>6, PushOne
<1>8. DOMAIN frames = 1 .. Len(frames) /\ Len(frames) \in Nat /\ Len(stack) = Len(frames)
  <2>1. DOMAIN frames = 1 .. Len(frames) /\ Len(frames) \in Nat
    BY <1>1, FramesPoint
  <2> QED
    BY <1>1, <1>4, <2>1, LenProperties DEF SafeFrames
<1>9. LET f == frames'[Len(frames) + 1] IN f.entity = fresh /\ f.data = None /\ f.what = what
  BY <1>7, <1>8 DEF Frame
<1>10. /\ DOMAIN heap' = 1 .. fresh /\ \A x \in Entities : heap'[x] = heap[x]
       /\ heap'[fresh].alive /\ heap'[fresh].kind = kind
       /\ heap'[fresh].slots = Empty
  BY <1>1, <1>2, CreateAdds
<1>11. \A k \in Slots : heap'[fresh].slots[k] = None
  BY <1>10 DEF Empty
<1>12. \A i \in DOMAIN frames : /\ frames'[i].entity = frames[i].entity
                                /\ frames'[i].data = frames[i].data
                                /\ frames'[i].what = frames[i].what
  BY <1>4, <1>7, <1>8
<1> HIDE DEF fresh
<1>13. Opened(kind)
  BY <1>2, <1>3, <1>7, <1>8, <1>9, <1>10, <1>11, <1>12 DEF Opened
<1> QED
  BY <1>13

LEMMA OpenedFine ==
  ASSUME CInv, Fine, NEW kind, Opened(kind)
  PROVE  Fine'
<1> DEFINE n == Len(heap)
<1>1. /\ n \in Nat /\ fresh = n + 1 /\ Entities = 1 .. n /\ DOMAIN heap = 1 .. n
      /\ SafeFrames(frames, n) /\ Within(heap) /\ fresh # None
  BY Records DEF CInv, LInv, HandInv, None
<1>2. \A i \in DOMAIN frames : frames[i].entity \in 1 .. n /\ frames[i].data \in 0 .. n
  BY <1>1, FramesPoint
<1>3. \A i \in DOMAIN frames' : i \in DOMAIN frames \/ i = Len(frames) + 1
  BY DEF Opened
<1>4. ASSUME NEW i \in DOMAIN frames' PROVE Fits(heap', frames'[i])
  <2>1. CASE i \in DOMAIN frames
    <3> DEFINE f == frames'[i]
               g == frames[i]
    <3>1. f.entity = g.entity /\ f.data = g.data /\ f.what = g.what
          /\ g.entity \in 1 .. n /\ (g.data # None => g.data \in 1 .. n) /\ Fits(heap, g)
      <4>1. f.entity = g.entity /\ f.data = g.data /\ f.what = g.what
        BY <2>1 DEF Opened
      <4>2. g.entity \in 1 .. n /\ (g.data # None => g.data \in 1 .. n)
        BY <1>1, <1>2, <2>1 DEF None
      <4>3. Fits(heap, g)
        BY <2>1 DEF Fine, Filling
      <4> QED
        BY <4>1, <4>2, <4>3
    <3>2. \A x \in 1 .. n : heap'[x] = heap[x]
      BY <1>1 DEF Opened
    <3> HIDE DEF f, g, n
    <3>3. Fits(heap', f)
      BY <3>1, <3>2 DEF Fits
    <3> QED
      BY <3>3 DEF f
  <2>2. CASE i = Len(frames) + 1
    <3> DEFINE f == frames'[Len(frames) + 1]
    <3>1. /\ f.entity = fresh /\ f.data = None
          /\ f.what \in {"array", "shared"} <=> kind = "array"
          /\ f.what \in {"reference", "referenced"} <=> kind = "reference"
          /\ heap'[fresh].kind = kind /\ \A k \in Slots : heap'[fresh].slots[k] = None
      BY DEF Opened
    <3> HIDE DEF f, fresh
    <3>2. Fits(heap', f)
      BY <3>1 DEF Fits
    <3> QED
      BY <2>2, <3>2 DEF f
  <2> QED
    BY <1>3, <2>1, <2>2
<1>5. ASSUME NEW i \in DOMAIN frames', NEW j \in DOMAIN frames',
             frames'[i].entity = frames'[j].entity
      PROVE  i = j
  <2>1. \A m \in DOMAIN frames : frames'[m].entity = frames[m].entity /\ frames'[m].entity # fresh
    BY <1>1, <1>2 DEF Opened
  <2>2. frames'[Len(frames) + 1].entity = fresh
    BY DEF Opened
  <2> HIDE DEF fresh, n
  <2> QED
    BY <1>3, <1>5, <2>1, <2>2 DEF Fine, Filling
<1>6. Flat(heap')
  <2>1. ASSUME NEW x \in DOMAIN heap', NEW k \in Slots, heap'[x].kind = "reference"
        PROVE  heap'[x].slots[k] \notin Kind("reference", heap')
    <3>1. DOMAIN heap' = 1 .. fresh /\ (x \in 1 .. n \/ x = fresh)
      BY <1>1 DEF Opened
    <3>2. CASE x \in 1 .. n
      <4>1. heap'[x] = heap[x] /\ heap[x].slots[k] \in 0 .. n
        BY <1>1, <3>2 DEF Opened, Within
      <4>2. heap[x].slots[k] \notin Kind("reference", heap)
        BY <1>1, <2>1, <3>2, <4>1 DEF Fine, Flat
      <4>3. \A y \in 0 .. n : y \in DOMAIN heap' => y \in 1 .. n /\ heap'[y] = heap[y]
        BY <1>1, <3>1 DEF Opened
      <4> QED
        BY <1>1, <4>1, <4>2, <4>3 DEF Kind
    <3>3. CASE x = fresh
      <4>1. heap'[x].slots[k] = None /\ None \notin DOMAIN heap'
        BY <3>1, <3>3 DEF Opened, None
      <4> QED
        BY <4>1 DEF Kind
    <3> QED
      BY <3>1, <3>2, <3>3
  <2> QED
    BY <2>1 DEF Flat
<1> QED
  BY <1>4, <1>5, <1>6 DEF Fine, Filling

(* The object that its class's own unserialize makes.                      *)
Added(graph, v) ==
  /\ DOMAIN graph = 1 .. fresh /\ \A x \in Entities : graph[x] = heap[x]
  /\ graph[fresh].alive /\ graph[fresh].kind = "object"
  /\ \A k \in Slots : graph[fresh].slots[k] = IF k = 1 THEN v ELSE None

LEMMA LegacyReady ==
  ASSUME CInv, Fine, NEW class \in Classes, ReadLegacy(class)
  PROVE  \E v \in 0 .. fresh : \E graph :
           /\ v \in Reach(user) \cup {fresh, None}
           /\ Ready(fresh, graph, frames, <<>>, TRUE) /\ Added(graph, v)
<1>1. /\ LInv /\ HandInv /\ SafeHeap(heap) /\ SafeFrames(frames, Len(heap))
      /\ Len(heap) \in Nat /\ fresh = Len(heap) + 1 /\ fresh \in 1 .. fresh /\ fresh \in Nat
      /\ Entities = 1 .. Len(heap) /\ fresh \notin Entities /\ 1 \in Slots /\ Within(heap)
  BY Records, LifetimeAssumption DEF CInv, LInv, HandInv
<1>3. PICK v \in Reach(user) \cup {fresh, None} :
        Put(fresh, Write(Create("object", class), fresh, 1, v), frames, <<>>, TRUE)
  BY DEF ReadLegacy
<1>5. v \in 0 .. fresh /\ v \in Nat
  <2>1. CASE v \in Reach(user)
    <3>2. v \in 1 .. Len(heap)
      BY <1>1, <2>1, Records
    <3> QED
      BY <1>1, <3>2
  <2>2. CASE v \notin Reach(user)
    BY <1>1, <1>3, <2>2 DEF None
  <2> QED
    BY <2>1, <2>2
<1> DEFINE c == Create("object", class)
           graph == Write(c, fresh, 1, v)
<1>6. /\ SafeHeap(c) /\ Len(c) = fresh /\ DOMAIN c = 1 .. fresh /\ Within(c)
      /\ \A x \in Entities : c[x] = heap[x]
      /\ c[fresh].alive /\ c[fresh].kind = "object" /\ c[fresh].slots = Empty
  BY <1>1, CreateAdds
<1> HIDE DEF c
<1>7. SafeHeap(graph) /\ Len(graph) = fresh
  BY <1>5, <1>6, SlotWrite
<1>8. Wrote(graph, c, fresh, 1, v)
  BY <1>1, <1>5, <1>6, WriteOne
<1>9. Put(fresh, graph, frames, <<>>, TRUE)
  BY <1>3 DEF c
<1>x. \A x \in Entities : graph[x] = heap[x]
  BY <1>1, <1>6, <1>8 DEF Wrote
<1> HIDE DEF graph
<1>10. DOMAIN graph = 1 .. fresh /\ Within(graph)
  BY <1>1, <1>5, <1>6, <1>7, <1>8 DEF Within, Wrote
<1>11. Added(graph, v)
  <2>1. \A k \in Slots : graph[fresh].slots[k] = IF k = 1 THEN v ELSE None
    BY <1>1, <1>6, <1>8 DEF Wrote, Empty
  <2>2. graph[fresh].alive /\ graph[fresh].kind = "object"
    BY <1>1, <1>6, <1>8 DEF Wrote
  <2> QED
    BY <1>10, <1>x, <2>1, <2>2 DEF Added
<1>12. SafeFrames(frames, fresh) /\ fresh \in 0 .. fresh /\ <<>> \in Seq(0 .. fresh)
  BY <1>1, Grow, NoValue DEF LInv
<1>13. Filling(graph, frames)
  <2> DEFINE n == Len(heap)
  <2>1. n \in Nat /\ SafeFrames(frames, n) /\ Filling(heap, frames)
    BY <1>1 DEF Fine
  <2>2. \A x \in 1 .. n : /\ graph[x].kind = heap[x].kind
                          /\ \/ \A k \in Slots : graph[x].slots[k] = heap[x].slots[k]
                             \/ \A k \in Slots : graph[x].slots[k] = None
                             \/ \A i \in DOMAIN frames : frames[i].entity # x
    BY <1>1, <1>x
  <2> HIDE DEF n
  <2> QED
    BY <2>1, <2>2, FillingKept
<1>14. Flat(graph)
  <2>1. ASSUME NEW x \in DOMAIN graph, NEW k \in Slots, graph[x].kind = "reference"
        PROVE  graph[x].slots[k] \notin Kind("reference", graph)
    <3>1. x # fresh
      BY <2>1, <1>11 DEF Added
    <3>2. x \in Entities /\ graph[x] = heap[x] /\ heap[x].slots[k] \in 0 .. Len(heap)
      BY <1>1, <1>10, <1>x, <2>1, <3>1 DEF Within, Entities
    <3>3. heap[x].slots[k] \notin Kind("reference", heap)
      BY <2>1, <3>2 DEF Fine, Flat, Entities
    <3>4. \A y \in 0 .. Len(heap) : y \in DOMAIN graph => y \in Entities /\ graph[y] = heap[y]
      BY <1>1, <1>10, <1>x
    <3> QED
      BY <1>1, <3>2, <3>3, <3>4 DEF Kind, Entities
  <2> QED
    BY <2>1 DEF Flat
<1>15. Ready(fresh, graph, frames, <<>>, TRUE)
  <2> HIDE DEF fresh
  <2> QED
    BY <1>7, <1>9, <1>10, <1>12, <1>13, <1>14 DEF Ready
<1> QED
  BY <1>3, <1>5, <1>11, <1>15

(* Steps that make nothing and write nothing.                              *)
LEMMA FineKept ==
  ASSUME CInv, Fine, DOMAIN heap' = DOMAIN heap, frames' \in {frames, <<>>},
         \A x \in Entities : /\ heap'[x].kind = heap[x].kind
                             /\ \/ \A k \in Slots : heap'[x].slots[k] = heap[x].slots[k]
                                \/ \A k \in Slots : heap'[x].slots[k] = None
  PROVE  Fine'
<1>1. /\ LInv /\ SafeFrames(frames, Len(heap)) /\ Len(heap) \in Nat
      /\ Entities = 1 .. Len(heap) /\ Within(heap) /\ DOMAIN heap = Entities
  BY Records DEF CInv, LInv, HandInv, Entities
<1>2. Filling(heap', frames)
  <2> DEFINE n == Len(heap)
             g == heap'
  <2>1. n \in Nat /\ SafeFrames(frames, n) /\ Filling(heap, frames)
    BY <1>1 DEF Fine
  <2>2. \A x \in 1 .. n : /\ g[x].kind = heap[x].kind
                          /\ \/ \A k \in Slots : g[x].slots[k] = heap[x].slots[k]
                             \/ \A k \in Slots : g[x].slots[k] = None
                             \/ \A i \in DOMAIN frames : frames[i].entity # x
    BY <1>1
  <2> HIDE DEF n, g
  <2>3. Filling(g, frames)
    BY <2>1, <2>2, FillingKept
  <2> QED
    BY <2>3 DEF g
<1>3. Filling(heap', frames')
  <2>1. CASE frames' = frames
    BY <1>2, <2>1
  <2>2. CASE frames' = <<>>
    BY <2>2 DEF Filling
  <2> QED
    BY <2>1, <2>2
<1>4. Flat(heap')
  <2>1. Kind("reference", heap') = Kind("reference", heap)
    BY <1>1 DEF Kind
  <2>2. None \notin Kind("reference", heap)
    BY <1>1 DEF Kind, None
  <2> QED
    BY <1>1, <2>1, <2>2 DEF Flat, Fine
<1> QED
  BY <1>3, <1>4 DEF Fine

LEMMA FineAssign ==
  ASSUME CInv, Fine, Assign
  PROVE  Fine'
<1>1. /\ LInv /\ HandInv /\ Within(heap) /\ SafeHeap(heap) /\ Entities = 1 .. Len(heap)
      /\ DOMAIN heap = Entities /\ Len(heap) \in Nat /\ frames = <<>> /\ frames' = frames
      /\ 1 \in Slots /\ next \in DOMAIN deferred
  <2>1. phase = "hook" /\ frames' = frames
    BY DEF Assign, Statement
  <2>2. next \in Nat \ {0} /\ next <= Len(deferred) /\ frames = <<>>
    BY <2>1 DEF CInv, Turns
  <2>3. DOMAIN deferred = 1 .. Len(deferred) /\ Len(deferred) \in Nat
    BY QueueBound DEF CInv
  <2> QED
    BY <2>1, <2>2, <2>3, Records DEF CInv, LInv, HandInv, Entities
<1>2. PICK e \in Visible, k \in Slots, v \in Visible \cup {None} :
        /\ heap[e].kind = "reference" => k = 1 /\ v \notin Kind("reference", heap)
        /\ heap' = Write(heap, e, k, v)
  BY DEF Assign
<1>3. e \in DOMAIN heap /\ v \in Nat
  <2>1. \A x \in Visible : x \in 1 .. Len(heap)
    BY <1>1, VisibleKnown
  <2> QED
    BY <1>1, <1>2, <2>1 DEF None
<1>4. Wrote(heap', heap, e, k, v)
  BY <1>1, <1>2, <1>3, WriteOne
<1>5. Filling(heap', frames')
  BY <1>1 DEF Filling
<1>6. Flat(heap')
  <2>1. Kind("reference", heap') = Kind("reference", heap)
    BY <1>4 DEF Kind, Wrote
  <2>2. ASSUME NEW x \in DOMAIN heap', NEW j \in Slots, heap'[x].kind = "reference"
        PROVE  heap'[x].slots[j] \notin Kind("reference", heap')
    <3>1. x \in DOMAIN heap /\ heap[x].kind = "reference"
          /\ heap'[x].slots[j] = IF x = e /\ j = k THEN v ELSE heap[x].slots[j]
      BY <1>4, <2>2 DEF Wrote
    <3> QED
      BY <1>2, <2>1, <3>1 DEF Fine, Flat
  <2> QED
    BY <2>2 DEF Flat
<1> QED
  BY <1>5, <1>6 DEF Fine

(* The frames fit what they fill, and no reference holds a reference:      *)
(* after every step.                                                       *)
LEMMA StepFine ==
  ASSUME CInv, Fine, [Next]_vars
  PROVE  Fine'
<1>1. LInv /\ HandInv /\ AliveInv /\ Within(heap) /\ DOMAIN heap = Entities
  BY DEF CInv, HandInv, Entities
<1>2. CASE UNCHANGED <<heap, frames>>
  BY <1>2 DEF Fine, Kind
<1>3. CASE \/ CallDestructor \/ CollectDestructor \/ HookReturns
  <2>1. SameSlots(heap, heap') /\ frames' = frames
    <3>1. frames' = frames
      BY <1>3 DEF CallDestructor, CollectDestructor, HookReturns
    <3>2. ASSUME CallDestructor \/ CollectDestructor PROVE \E e : Destruct(e)
      BY <3>2 DEF CallDestructor, CollectDestructor
    <3> QED
      BY <1>1, <1>3, <3>1, <3>2, FlagsOnly
  <2>2. /\ DOMAIN heap' = DOMAIN heap
        /\ \A x \in Entities : /\ heap'[x].kind = heap[x].kind
                               /\ \A k \in Slots : heap'[x].slots[k] = heap[x].slots[k]
    BY <2>1, <1>1 DEF SameSlots
  <2> QED
    BY <2>1, <2>2, FineKept
<1>4. CASE FreeLast \/ Collect
  <2>1. frames' = frames
    BY <1>4 DEF FreeLast, Collect
  <2>2. PICK set : heap' = Free(set)
    BY <1>4 DEF FreeLast, Collect
  <2> DEFINE g == Free(set)
  <2>3. /\ DOMAIN g = Entities
        /\ \A x \in Entities :
                  /\ x \notin set => g[x] = heap[x]
                  /\ x \in set => ~ g[x].alive /\ g[x].slots = Empty
                  /\ g[x].kind = heap[x].kind /\ g[x].class = heap[x].class
    BY <1>1, FreeEffect
  <2>4. heap' = g
    BY <2>2
  <2> HIDE DEF g
  <2>5. /\ DOMAIN heap' = DOMAIN heap
        /\ \A x \in Entities : /\ heap'[x].kind = heap[x].kind
                               /\ \/ \A k \in Slots : heap'[x].slots[k] = heap[x].slots[k]
                                  \/ \A k \in Slots : heap'[x].slots[k] = None
    BY <1>1, <2>3, <2>4 DEF Empty
  <2> QED
    BY <2>1, <2>5, FineKept
<1>5. CASE ReadScalar \/ ReadBackReference
  BY <1>5, ReadReady, ReadyLands DEF Fine
<1>6. CASE EndValue \/ EndHooked \/ EndApplied
  <2>1. frames # <<>>
    BY <1>6 DEF EndValue, EndHooked, EndApplied
  <2> QED
    BY <1>6, <2>1, EndReady, ReadyLands DEF Fine
<1>7. CASE \E class \in Classes : ReadLegacy(class)
  BY <1>7, LegacyReady, ReadyLands DEF Fine
<1>8. CASE (\E class \in Classes : BeginObject(class)) \/ BeginReference \/ BeginArray
  BY <1>8, Opens, OpenedFine
<1>9. CASE Fail \/ Refuse
  <2>1. heap' = heap /\ frames' = <<>>
    BY <1>9 DEF Fail, Refuse, Abandon
  <2> QED
    BY <1>1, <2>1, FineKept
<1>10. CASE Assign
  BY <1>10, FineAssign
<1>11. CASE \/ Survives \/ Keep \/ Forget \/ StartHooks \/ CallHook \/ HooksDone
            \/ Unwrap \/ Return \/ Discard \/ UNCHANGED vars
  <2>1. UNCHANGED <<heap, frames>>
    BY <1>11 DEF Survives, Keep, Forget, Statement, StartHooks, CallHook, HooksDone, Unwrap,
                 Return, Discard, vars, graphVars
  <2> QED
    BY <1>2, <2>1
<1> QED
  BY <1>3, <1>4, <1>5, <1>6, <1>7, <1>8, <1>9, <1>10, <1>11 DEF Next

----------------------------------------------------------------------------
(* Until something is noted or queued, everything alive can be reached     *)
(* from the frames and the result, so the fast release frees nothing.      *)

(* A table that was applied and is on its way out: nothing else holds it.  *)
Lone(d) ==
  /\ ~ Dropping(Tail(drops), d) /\ ~ HeldIn(heap, d) /\ ~ Identified(ids, d)
  /\ ~ InFrames(frames, d) /\ result # d /\ d \notin user /\ heap[d].kind = "array"

Window == ~ orphan /\ deferred = <<>> /\ phase \in {"walk", "walked", "hooks"}

Whole ==
  Window => \/ Spans(heap, frames, result, {})
            \/ Busy /\ Lone(head.entity) /\ Spans(heap, frames, result, {head.entity})

(* There is no result before the walk is over.                             *)
Unfinished == phase = "walk" => result = None

(* The fast release of pins, while it runs.                                *)
FastPins ==
  (\E i \in DOMAIN drops : drops[i].pin /\ ~ drops[i].rooted) =>
    /\ phase = "release"
    /\ \A i \in DOMAIN drops : drops[i].pin /\ ~ drops[i].rooted
    /\ Spans(heap, <<>>, result, {})

(* Everything but some entities that nothing outside of them holds.        *)
LEMMA SpansBeyond ==
  ASSUME CInv, NEW set \in SUBSET Entities,
         \A e \in set : ~ InFrames(frames, e) /\ result # e,
         \A x \in Entities \ set, k \in Slots : heap[x].slots[k] \notin set,
         NEW spare, Spans(heap, frames, result, spare)
  PROVE  \A e \in set : heap[e].alive => e \in spare
<1>1. /\ Entities = 1 .. Len(heap) /\ DOMAIN heap = Entities /\ Len(heap) \in Nat
      /\ Within(heap) /\ SafeFrames(frames, Len(heap)) /\ result \in 0 .. Len(heap)
      /\ 0 .. Len(heap) = Entities \cup {None}
  BY Records DEF CInv, LInv, HandInv, None
<1> DEFINE S == Entities \ set
<1>2. S \in SUBSET DOMAIN heap
  BY <1>1
<1>3. Shut(heap, S)
  BY <1>1 DEF Shut, Within
<1>4. Has(S, frames, result)
  <2>1. \A i \in DOMAIN frames : frames[i].entity \in 1 .. Len(heap) /\ frames[i].data \in 0 .. Len(heap)
    BY <1>1, FramesPoint
  <2>2. \A i \in DOMAIN frames : frames[i].entity \notin set /\ frames[i].data \notin set
    BY DEF InFrames
  <2> QED
    BY <1>1, <2>1, <2>2 DEF Has
<1> HIDE DEF S
<1>5. \A x \in DOMAIN heap : heap[x].alive => x \in S \cup spare
  BY <1>2, <1>3, <1>4 DEF Spans
<1> QED
  BY <1>1, <1>5 DEF S

(* What is freed in the window is a lone table.                            *)
LEMMA LastIsLone ==
  ASSUME CInv, Whole, Window, Busy, Refcount(head.entity) = 1
  PROVE  Lone(head.entity) /\ Spans(heap, frames, result, {head.entity})
<1> DEFINE e == head.entity
<1>1. LInv /\ HandInv /\ AllPinned /\ AliveInv
  BY DEF CInv
<1>2. /\ ~ HeldIn(heap, e) /\ ~ InFrames(frames, e) /\ result # e
      /\ e \in Entities /\ heap[e].alive
  BY <1>1, LastHolder, HeadDropped DEF AliveInv
<1>3. ASSUME Spans(heap, frames, result, {}) PROVE FALSE
  <2> DEFINE set == {e}
  <2>1. /\ set \in SUBSET Entities
        /\ \A x \in set : ~ InFrames(frames, x) /\ result # x
        /\ \A x \in Entities \ set, k \in Slots : heap[x].slots[k] \notin set
    BY <1>2 DEF HeldIn, Entities
  <2>2. e \in set
    OBVIOUS
  <2> HIDE DEF set, e
  <2>3. heap[e].alive => e \in {}
    BY <1>3, <2>1, <2>2, SpansBeyond
  <2> QED
    BY <1>2, <2>3
<1> QED
  BY <1>3 DEF Whole

(* A lone table has no other holder.                                       *)
LEMMA LoneIsLast ==
  ASSUME CInv, Window, Busy, Lone(head.entity)
  PROVE  ~ (Refcount(head.entity) > 1)
<1>1. ~ Queued(deferred, head.entity)
  BY DEF Window, Queued
<1> QED
  BY <1>1, MoreHolders DEF CInv, Lone

(* The collector finds nothing to free in the window.                      *)
LEMMA NoGarbage ==
  ASSUME CInv, Whole, Window
  PROVE  Garbage = {}
<1>1. LInv /\ HandInv /\ AllPinned /\ AliveInv
  BY DEF CInv
<1>2. /\ \A e \in Garbage : e \in Entities /\ Known(e)
      /\ Garbage \in SUBSET Entities
  BY <1>1, SuspectsReached
<1>3. /\ \A e \in Garbage : ~ Named(e)
      /\ \A x \in Entities \ Garbage, k \in Slots : heap[x].slots[k] \notin Garbage
  BY <1>1, GarbageUnheld
<1>4. \A e \in Garbage : ~ InFrames(frames, e) /\ result # e /\ ~ Dropping(drops, e)
  BY <1>3 DEF Named
<1>5. PICK spare : Spans(heap, frames, result, spare)
                   /\ (spare = {} \/ (Busy /\ spare = {head.entity}))
  BY DEF Whole
<1>6. \A e \in Garbage : heap[e].alive => e \in spare
  BY <1>2, <1>3, <1>4, <1>5, SpansBeyond
<1>7. Busy => head.entity \notin Garbage
  BY <1>1, <1>4, HeadDropped
<1> QED
  BY <1>1, <1>2, <1>5, <1>6, <1>7 DEF AliveInv

(* A value that is dropped alone, or beside nothing.                       *)
LEMMA SoleDrop ==
  ASSUME NEW d \in Nat, d # None
  PROVE  \A seq \in {<<d>>, <<d>> \o <<None>>} : DropAll(seq) = <<Drop(d, TRUE)>>
<1> SUFFICES ASSUME NEW seq \in {<<d>>, <<d>> \o <<None>>}
             PROVE  DropAll(seq) = <<Drop(d, TRUE)>>
  OBVIOUS
<1>1. /\ seq \in Seq(Nat) /\ Len(seq) \in {1, 2} /\ seq[1] = d
      /\ Len(seq) = 2 => seq[2] = None
  <2>1. CASE seq = <<d>>
    BY <2>1
  <2>2. CASE seq = <<d>> \o <<None>>
    <3>1. <<d>> \in Seq(Nat) /\ <<None>> \in Seq(Nat) /\ Len(<<d>>) = 1 /\ Len(<<None>>) = 1
          /\ <<d>>[1] = d /\ <<None>>[1] = None
      BY DEF None
    <3>2. /\ seq \in Seq(Nat) /\ Len(seq) = 2
          /\ \A i \in 1 .. 2 : seq[i] = IF i <= 1 THEN <<d>>[i] ELSE <<None>>[i - 1]
      BY <2>2, <3>1, ConcatProperties
    <3>3. 1 \in 1 .. 2 /\ 2 \in 1 .. 2
      OBVIOUS
    <3>4. seq[1] = d
      BY <3>1, <3>2, <3>3
    <3>5. seq[2] = <<None>>[2 - 1]
      BY <3>2, <3>3
    <3> QED
      BY <3>1, <3>2, <3>4, <3>5
  <2> QED
    BY <2>1, <2>2
<1> DEFINE F(f) == f = [i \in 0 .. Len(seq) |->
             IF i = 0 THEN <<>>
             ELSE IF seq[i] = None THEN f[i - 1] ELSE Append(f[i - 1], seq[i])]
           kept == CHOOSE f : F(f)
<1>2. F(kept)
  <2>1. \E f : F(f)
    <3>1. Len(seq) \in Nat
      BY <1>1
    <3> QED
      BY <3>1, KeptExists
  <2> HIDE DEF F
  <2> QED
    BY <2>1
<1>3. Present(seq) = kept[Len(seq)]
  BY DEF Present
<1>4. \A i \in 0 .. Len(seq) : kept[i] =
        IF i = 0 THEN <<>>
        ELSE IF seq[i] = None THEN kept[i - 1] ELSE Append(kept[i - 1], seq[i])
  <2> HIDE DEF kept
  <2> QED
    BY <1>2
<1> HIDE DEF F, kept
<1>5. kept[0] = <<>>
  <2>1. 0 \in 0 .. Len(seq)
    BY <1>1
  <2> QED
    BY <1>4, <2>1
<1>6. kept[1] = <<d>>
  <2>1. 1 \in 0 .. Len(seq)
    BY <1>1
  <2>2. kept[1] = IF seq[1] = None THEN kept[1 - 1] ELSE Append(kept[1 - 1], seq[1])
    BY <1>4, <2>1
  <2>a. 1 - 1 = 0
    OBVIOUS
  <2>3. kept[1] = Append(<<>>, d)
    BY <1>1, <1>5, <2>2, <2>a, Zenon
  <2> QED
    BY <2>3
<1>7. Len(seq) = 2 => kept[2] = kept[1]
  <2> SUFFICES ASSUME Len(seq) = 2 PROVE kept[2] = kept[1]
    OBVIOUS
  <2>1. 2 \in 0 .. Len(seq) /\ seq[2] = None
    BY <1>1
  <2>2. kept[2] = IF seq[2] = None THEN kept[2 - 1] ELSE Append(kept[2 - 1], seq[2])
    BY <1>4, <2>1
  <2> QED
    BY <2>1, <2>2
<1>8. Present(seq) = <<d>>
  BY <1>1, <1>3, <1>6, <1>7
<1>9. DOMAIN <<d>> = {1} /\ <<d>>[1] = d
  OBVIOUS
<1>10. Dropped(<<d>>) = [i \in {1} |-> Drop(d, TRUE)]
  BY <1>9 DEF Dropped
<1>11. <<Drop(d, TRUE)>> = [i \in {1} |-> Drop(d, TRUE)]
  <2> DEFINE x == Drop(d, TRUE)
  <2> HIDE DEF x
  <2>1. <<x>> = [i \in {1} |-> x]
    OBVIOUS
  <2> QED
    BY <2>1 DEF x
<1> QED
  BY <1>8, <1>10, <1>11 DEF DropAll

LEMMA ChosenOnce ==
  ASSUME NEW S, IsFiniteSet(S), Cardinality(S) <= 1
  PROVE  \A i, j \in S : i = j
<1> SUFFICES ASSUME NEW i \in S, NEW j \in S, i # j PROVE FALSE
  OBVIOUS
<1>1. IsFiniteSet(S \ {i}) /\ Cardinality(S \ {i}) = Cardinality(S) - 1
  BY FS_RemoveElement
<1>2. Cardinality(S) \in Nat /\ Cardinality(S \ {i}) \in Nat
  BY <1>1, FS_CardinalityType
<1>3. j \in S \ {i}
  OBVIOUS
<1>4. Cardinality(S \ {i}) # 0
  BY <1>1, <1>3, FS_EmptySet
<1> QED
  BY <1>1, <1>2, <1>4

(* A table whose last reference is that of the object it is applied to.    *)
LEMMA LastTable ==
  ASSUME CInv, NEW d, ~ (Refcount(d) > 1), NEW m \in DOMAIN frames, frames[m].data = d
  PROVE  /\ ~ HeldIn(heap, d) /\ ~ Identified(ids, d) /\ result # d /\ d \notin user
         /\ \A i \in DOMAIN frames : frames[i].entity # d /\ (frames[i].data = d => i = m)
<1>0. LInv /\ HandInv /\ AllPinned
  BY DEF CInv
<1>1. /\ DOMAIN ids = 1 .. Len(ids) /\ Len(ids) \in Nat
      /\ DOMAIN frames = 1 .. Len(frames) /\ Len(frames) \in Nat
      /\ DOMAIN deferred = 1 .. Len(deferred) /\ Len(deferred) \in Nat
  BY LenProperties DEF CInv, LInv, SafeIds, SafeFrames, HandInv, SafeQueue
<1> DEFINE a == Times(ObjectsOf(deferred), d)
           b == Times(DataOf(deferred), d)
           c == Times(EntitiesOf(frames), d)
           q == Times(DataOf(frames), d)
           p == Pins(d)
           u == IF result = d THEN 1 ELSE 0
           r == IF d \in user THEN 1 ELSE 0
           s == SlotsThatHold(Entities, d)
           t == Times(EntitiesOf(drops), d)
           P == {i \in DOMAIN ids : ids[i].entity = d /\ ids[i].pinned}
           Q == {i \in DOMAIN DataOf(frames) : DataOf(frames)[i] = d}
<1>2. Refcount(d) = s + (p + a + b + c + q + u + r) + t
  BY <1>0, CountParts DEF Others
<1>3. p \in Nat /\ (p = 0 <=> ~ Pinned(ids, d))
  <2>1. IsFiniteSet(P)
    <3>1. P \in SUBSET DOMAIN ids /\ IsFiniteSet(DOMAIN ids)
      BY <1>1, FS_Interval
    <3> HIDE DEF P
    <3> QED
      BY <3>1, FS_Subset
  <2>2. P = {} <=> ~ Pinned(ids, d)
    BY DEF Pinned
  <2> QED
    BY <2>1, <2>2, CountSome DEF Pins
<1>4. a \in Nat /\ b \in Nat /\ c \in Nat /\ q \in Nat
      /\ (c = 0 <=> ~ In(EntitiesOf(frames), d)) /\ (q = 0 <=> ~ In(DataOf(frames), d))
  <2>1. /\ DOMAIN ObjectsOf(deferred) = 1 .. Len(deferred)
        /\ DOMAIN DataOf(deferred) = 1 .. Len(deferred)
        /\ DOMAIN EntitiesOf(frames) = 1 .. Len(frames)
        /\ DOMAIN DataOf(frames) = 1 .. Len(frames)
    BY <1>1 DEF ObjectsOf, DataOf, EntitiesOf
  <2> QED
    BY <1>1, <2>1, TimesCount
<1>5. s \in Nat /\ t \in Nat /\ u \in Nat /\ r \in Nat
      /\ (s = 0 <=> ~ HeldIn(heap, d)) /\ (u = 0 <=> result # d) /\ (r = 0 <=> d \notin user)
  BY <1>0, SlotsCount, DropsCount
<1>6. In(DataOf(frames), d) /\ DOMAIN DataOf(frames) = DOMAIN frames
      /\ \A i \in DOMAIN frames : DataOf(frames)[i] = frames[i].data
  BY DEF In, DataOf
<1>7. Cardinality(Q) = q /\ IsFiniteSet(Q)
  <2>1. Q \in SUBSET DOMAIN frames /\ IsFiniteSet(DOMAIN frames)
    BY <1>1, <1>6, FS_Interval
  <2>2. IsFiniteSet(Q)
    <3> HIDE DEF Q
    <3> QED
      BY <2>1, FS_Subset
  <2> QED
    BY <2>2 DEF Times
<1> HIDE DEF a, b, c, p, q, u, r, s, t
<1>8. s = 0 /\ p = 0 /\ c = 0 /\ u = 0 /\ r = 0 /\ q <= 1
  <2>1. q >= 1
    BY <1>4, <1>6
  <2> QED
    BY <1>2, <1>3, <1>4, <1>5, <2>1
<1>9. \A i, j \in Q : i = j
  BY <1>7, <1>8, ChosenOnce
<1>10. \A i \in DOMAIN frames : frames[i].data = d => i = m
  BY <1>6, <1>9
<1>11. \A i \in DOMAIN frames : frames[i].entity # d
  BY <1>4, <1>8 DEF In, EntitiesOf
<1> QED
  BY <1>0, <1>3, <1>5, <1>8, <1>10, <1>11, PinsHold

(* Frames and a value of which a set has more than of others.              *)
LEMMA SpansMore ==
  ASSUME NEW graph, NEW stack, NEW v, NEW other, NEW w, NEW spare,
         Spans(graph, stack, v, spare),
         \A set : Has(set, other, w) => Has(set, stack, v)
  PROVE  Spans(graph, other, w, spare)
BY DEF Spans

(* A token that decodes one value keeps the window whole.                  *)
LEMMA WholeRead ==
  ASSUME CInv, Fine, Whole, Unfinished, ReadScalar \/ ReadBackReference, Window'
  PROVE  Spans(heap', frames', result', {})
<1>1. phase = "walk" /\ ~ Busy /\ deferred' = deferred
  BY DEF ReadScalar, ReadBackReference, Token, Walking
<1>2. ~ orphan' /\ deferred' = <<>> /\ result = None
  BY <1>1 DEF Window, Unfinished
<1>3. PICK v, stack : /\ Ready(v, heap, stack, <<>>, FALSE)
                      /\ stack \in {frames, SawReference(frames)}
  BY ReadReady
<1>4. PICK into \in Nat, k \in Nat : k \in Slots /\ Landed(into, k, v, heap, stack)
  BY <1>3, ReadyLands
<1>5. ~ orphan
  BY <1>2, <1>3, ReadyLands DEF Parted
<1>6. Spans(heap, frames, None, {})
  BY <1>1, <1>2, <1>5 DEF Whole, Window
<1>7. \A set : Has(set, stack, v) => Has(set, frames, None)
  <2>1. LInv /\ Len(heap) \in Nat /\ SafeFrames(frames, Len(heap))
    BY Records DEF CInv, LInv
  <2>2. /\ DOMAIN stack = DOMAIN frames
        /\ \A i \in DOMAIN frames : /\ stack[i].entity = frames[i].entity
                                    /\ stack[i].data = frames[i].data
    BY <1>3, <2>1, SawSame
  <2> QED
    BY <2>2 DEF Has
<1>8. Spans(heap, stack, v, {})
  BY <1>6, <1>7, SpansMore
<1> QED
  BY <1>2, <1>3, <1>4, <1>8, LandedSpans DEF Ready

LEMMA WholeEndValue ==
  ASSUME CInv, Fine, Whole, Unfinished, EndValue \/ EndHooked, Window'
  PROVE  Spans(heap', frames', result', {})
<1>1. phase = "walk" /\ ~ Busy /\ frames # <<>>
  BY DEF EndValue, EndHooked, Token, Walking
<1>2. ~ orphan' /\ deferred' = <<>> /\ result = None
  BY <1>1 DEF Window, Unfinished
<1>3. LInv /\ HandInv /\ Len(heap) \in Nat /\ SafeFrames(frames, Len(heap))
  BY Records DEF CInv, LInv
<1>4. deferred' = deferred /\ ~ EndHooked
  <2>1. ASSUME NEW e, NEW d, Queue(e, d) PROVE FALSE
    <3>1. deferred \in Seq([object : 1 .. Len(heap), data : 0 .. Len(heap)])
      BY <1>3 DEF HandInv, SafeQueue
    <3>2. deferred' = Append(deferred, [object |-> e, data |-> d])
      BY <2>1 DEF Queue
    <3>3. Len(deferred) \in Nat /\ Len(Append(deferred, [object |-> e, data |-> d])) = Len(deferred) + 1
      BY <3>1, LenProperties, AppendProperties
    <3> QED
      BY <1>2, <3>2, <3>3, EmptySeq
  <2> QED
    BY <2>1 DEF EndValue, EndHooked
<1>5. Ready(top.entity, heap, Outer(frames), <<>>, FALSE)
  BY <1>1, EndReady
<1>6. PICK into \in Nat, k \in Nat : k \in Slots /\ Landed(into, k, top.entity, heap, Outer(frames))
  BY <1>5, ReadyLands
<1>7. ~ orphan
  BY <1>2, <1>5, ReadyLands DEF Parted
<1>8. Spans(heap, frames, None, {})
  BY <1>1, <1>2, <1>4, <1>7 DEF Whole, Window
<1>9. \A set : Has(set, Outer(frames), top.entity) => Has(set, frames, None)
  <2>1. /\ Len(frames) \in Nat \ {0} /\ DOMAIN frames = 1 .. Len(frames)
        /\ DOMAIN Outer(frames) = 1 .. Len(frames) - 1
        /\ \A i \in 1 .. Len(frames) - 1 : Outer(frames)[i] = frames[i]
        /\ top = frames[Len(frames)]
    BY <1>1, <1>3, OuterFrames DEF top
  <2>2. top.data = None
    <3>1. top.what # "hooked"
      BY <1>4 DEF EndValue
    <3>2. Len(frames) \in DOMAIN frames
      BY <2>1
    <3> QED
      BY <2>1, <3>1, <3>2 DEF Fine, Filling, Fits
  <2>3. top.entity # None
    BY <1>1, <1>3, Stacked DEF None
  <2> QED
    BY <2>1, <2>2, <2>3 DEF Has
<1>10. Spans(heap, Outer(frames), top.entity, {})
  BY <1>8, <1>9, SpansMore
<1> QED
  BY <1>2, <1>5, <1>6, <1>10, LandedSpans DEF Ready

LEMMA WholeApplied ==
  ASSUME CInv, Fine, Whole, Unfinished, EndApplied, Window'
  PROVE  (Busy /\ Lone(head.entity))' /\ Spans(heap', frames', result', {head'.entity})
<1> DEFINE d == top.data
           e == top.entity
<1>1. phase = "walk" /\ ~ Busy /\ frames # <<>> /\ d # None /\ top.what = "hooked"
      /\ UNCHANGED <<ids, user>>
  BY DEF EndApplied, Token, Walking
<1>2. ~ orphan' /\ deferred' = <<>> /\ result = None
  BY <1>1 DEF Window, Unfinished
<1>3. LInv /\ HandInv /\ AliveInv /\ Len(heap) \in Nat /\ SafeFrames(frames, Len(heap))
      /\ Entities = 1 .. Len(heap) /\ DOMAIN heap = Entities /\ Within(heap)
  BY Records DEF CInv, LInv, HandInv, Entities
<1>4. deferred' = deferred
  <2>1. ASSUME NEW x, NEW y, Queue(x, y) PROVE FALSE
    <3>1. deferred \in Seq([object : 1 .. Len(heap), data : 0 .. Len(heap)])
      BY <1>3 DEF HandInv, SafeQueue
    <3>2. deferred' = Append(deferred, [object |-> x, data |-> y])
      BY <2>1 DEF Queue
    <3>3. Len(deferred) \in Nat /\ Len(Append(deferred, [object |-> x, data |-> y])) = Len(deferred) + 1
      BY <3>1, LenProperties, AppendProperties
    <3> QED
      BY <1>2, <3>2, <3>3, EmptySeq
  <2> QED
    BY <2>1 DEF EndApplied
<1>5. Ready(e, Copied, Outer(frames), <<d>>, NotesData(d))
  BY <1>1, EndReady
<1>6. PICK into \in Nat, k \in Nat : k \in Slots /\ Landed(into, k, e, Copied, Outer(frames))
  BY <1>5, ReadyLands
<1>7. ~ orphan /\ ~ (Refcount(d) > 1)
      /\ (drops' = DropAll(<<d>>) \/ drops' = DropAll(<<d>> \o <<None>>))
  <2>1. Parted(<<d>>, NotesData(d))
    BY <1>5, ReadyLands
  <2> HIDE DEF d
  <2> QED
    BY <1>2, <2>1 DEF Parted, NotesData
<1>8. Spans(heap, frames, None, {})
  BY <1>1, <1>2, <1>4, <1>7 DEF Whole, Window
<1>9. /\ Len(frames) \in Nat \ {0} /\ DOMAIN frames = 1 .. Len(frames)
      /\ DOMAIN Outer(frames) = 1 .. Len(frames) - 1
      /\ \A i \in 1 .. Len(frames) - 1 : Outer(frames)[i] = frames[i]
      /\ Len(frames) \in DOMAIN frames /\ top = frames[Len(frames)]
  BY <1>1, <1>3, OuterFrames DEF top
<1>10. /\ DOMAIN Copied = Entities
       /\ d \in Entities /\ e \in Entities /\ d \in Nat /\ e # None
       /\ \A x \in Entities : /\ Copied[x].alive = heap[x].alive /\ Copied[x].kind = heap[x].kind
                              /\ Copied[x].slots = IF x = e THEN heap[d].slots ELSE heap[x].slots
       /\ \A x : HeldIn(Copied, x) => HeldIn(heap, x)
  <2>1. /\ SafeHeap(Copied) /\ Len(Copied) = Len(heap) /\ Kept(Copied)
        /\ \A x : HeldIn(Copied, x) => HeldIn(heap, x)
        /\ d \in Entities /\ e \in Entities
        /\ \A x \in Entities : Copied[x].slots = IF x = e THEN heap[d].slots
                                                 ELSE heap[x].slots
    BY <1>1, <1>3, CopiedKept
  <2>2. DOMAIN Copied = Entities
    BY <1>3, <2>1, LenProperties DEF SafeHeap
  <2> QED
    BY <1>3, <2>1, <2>2 DEF Kept, None
<1>11. Fits(heap, top)
  BY <1>9 DEF Fine, Filling
<1>12. heap[d].kind = "array" /\ \A j \in Slots : heap[e].slots[j] = None
  BY <1>1, <1>11 DEF Fits
<1>13. /\ ~ HeldIn(heap, d) /\ ~ Identified(ids, d) /\ d \notin user
       /\ \A i \in DOMAIN frames : frames[i].entity # d /\ (frames[i].data = d => i = Len(frames))
  <2>1. frames[Len(frames)].data = d
    BY <1>9
  <2> HIDE DEF d
  <2> QED
    BY <1>7, <1>9, <2>1, LastTable
<1>14. d # e
  BY <1>9, <1>13
<1> HIDE DEF d, e
<1>15. Spans(Copied, Outer(frames), e, {d})
  <2> SUFFICES ASSUME NEW set \in SUBSET Entities, Shut(Copied, set),
                      Has(set, Outer(frames), e),
                      NEW x \in Entities, heap[x].alive
               PROVE  x \in set \cup {d}
    BY <1>10 DEF Spans
  <2> DEFINE t == set \cup {d}
  <2>1. t \in SUBSET DOMAIN heap
    BY <1>3, <1>10
  <2>2. Shut(heap, t)
    <3>0. e \in set
      BY <1>10 DEF Has
    <3>1. ASSUME NEW y \in t, NEW j \in Slots PROVE heap[y].slots[j] \in t \cup {None}
      <4>1. CASE y = e
        BY <1>12, <4>1
      <4>2. CASE y = d
        <5>1. Copied[e].slots[j] = heap[d].slots[j]
          BY <1>10
        <5> QED
          BY <3>0, <4>2, <5>1 DEF Shut
      <4>3. CASE y # e /\ y # d
        <5>1. y \in set /\ y \in Entities
          BY <4>3
        <5>2. Copied[y].slots[j] = heap[y].slots[j]
          BY <1>10, <4>3, <5>1
        <5> QED
          BY <5>1, <5>2 DEF Shut
      <4> QED
        BY <4>1, <4>2, <4>3
    <3> HIDE DEF t
    <3> QED
      BY <3>1 DEF Shut
  <2>3. Has(t, frames, None)
    <3>1. ASSUME NEW i \in DOMAIN frames
          PROVE  frames[i].entity \in t /\ frames[i].data \in t \cup {None}
      <4>1. CASE i = Len(frames)
        <5>1. frames[i].entity = e /\ frames[i].data = d
          BY <1>9, <4>1 DEF d, e
        <5> QED
          BY <1>10, <5>1 DEF Has
      <4>2. CASE i # Len(frames)
        <5>1. i \in 1 .. Len(frames) - 1
          BY <1>9, <4>2
        <5>2. i \in DOMAIN Outer(frames) /\ Outer(frames)[i] = frames[i]
          BY <1>9, <5>1
        <5> QED
          BY <5>2 DEF Has
      <4> QED
        BY <4>1, <4>2
    <3> HIDE DEF t
    <3> QED
      BY <3>1 DEF Has
  <2> HIDE DEF t
  <2>4. x \in t \cup {}
    BY <1>3, <1>8, <2>1, <2>2, <2>3 DEF Spans
  <2> QED
    BY <2>4 DEF t
<1>16. Spans(heap', frames', result', {d})
  BY <1>2, <1>5, <1>6, <1>15, LandedSpans DEF Ready
<1>17. drops' = <<Drop(d, TRUE)>>
  BY <1>1, <1>7, <1>10, SoleDrop DEF d
<1>18. Busy' /\ head'.entity = d /\ \A x : ~ Dropping(Tail(drops'), x)
  <2>1. drops' # <<>> /\ head' = Drop(d, TRUE) /\ Tail(drops') = <<>>
    BY <1>17 DEF head
  <2> QED
    BY <2>1, NoValue DEF Busy, Drop
<1>19. ~ HeldIn(heap', d) /\ heap'[d].kind = "array"
  <2>1. Wrote(heap', Copied, into, k, e)
    BY <1>6 DEF Landed
  <2>2. HeldIn(heap', d) => HeldIn(Copied, d) \/ d = e
    BY <2>1 DEF Wrote, HeldIn
  <2>3. heap'[d].kind = Copied[d].kind
    BY <1>10, <2>1 DEF Wrote
  <2> QED
    BY <1>10, <1>12, <1>13, <1>14, <2>2, <2>3
<1>20. ~ InFrames(frames', d) /\ result' # d
  <2>1. result' # d
    BY <1>2, <1>6, <1>10, <1>14 DEF Landed, None, d
  <2>2. ASSUME NEW i \in DOMAIN frames' PROVE frames'[i].entity # d /\ frames'[i].data # d
    <3>1. i \in DOMAIN Outer(frames) /\ i \in DOMAIN frames /\ i # Len(frames)
          /\ Outer(frames)[i] = frames[i]
      BY <1>6, <1>9 DEF Landed
    <3>2. /\ frames'[i].entity = frames[i].entity
          /\ frames'[i].data = frames[i].data \/ frames'[i].data = e
      BY <1>6, <3>1 DEF Landed
    <3> QED
      BY <1>13, <1>14, <3>1, <3>2
  <2> QED
    BY <2>1, <2>2 DEF InFrames
<1>21. (Lone(head.entity))'
  BY <1>1, <1>13, <1>18, <1>19, <1>20 DEF Lone
<1> QED
  BY <1>16, <1>18, <1>21

LEMMA WholeOpened ==
  ASSUME CInv, Whole, NEW kind, Opened(kind), ~ Busy, Window'
  PROVE  Spans(heap', frames', result', {})
<1>1. /\ Entities = 1 .. Len(heap) /\ DOMAIN heap = Entities /\ Len(heap) \in Nat
      /\ Within(heap) /\ fresh = Len(heap) + 1 /\ SafeFrames(frames, Len(heap))
      /\ result \in 0 .. Len(heap) /\ fresh # None
  BY Records DEF CInv, LInv, HandInv, None
<1>2. Window /\ result' = result
  BY DEF Window, Opened
<1>3. Spans(heap, frames, result, {})
  BY <1>2 DEF Whole
<1> SUFFICES ASSUME NEW set \in SUBSET DOMAIN heap', Shut(heap', set),
                    Has(set, frames', result'),
                    NEW x \in DOMAIN heap', heap'[x].alive
             PROVE  x \in set \cup {}
  BY DEF Spans
<1> DEFINE t == set \ {fresh}
<1>4. t \in SUBSET DOMAIN heap
  BY <1>1 DEF Opened
<1>5. Shut(heap, t)
  <2>1. ASSUME NEW y \in t, NEW j \in Slots PROVE heap[y].slots[j] \in t \cup {None}
    <3>1. heap'[y] = heap[y] /\ heap[y].slots[j] \in 0 .. Len(heap)
      BY <1>1, <1>4 DEF Opened, Within
    <3>2. heap'[y].slots[j] \in set \cup {None}
      BY DEF Shut
    <3> QED
      BY <1>1, <3>1, <3>2
  <2> HIDE DEF t
  <2> QED
    BY <2>1 DEF Shut
<1>6. Has(t, frames, result)
  <2>1. ASSUME NEW i \in DOMAIN frames
        PROVE  frames[i].entity \in t /\ frames[i].data \in t \cup {None}
    <3>1. /\ i \in DOMAIN frames'
          /\ frames'[i].entity = frames[i].entity /\ frames'[i].data = frames[i].data
      BY DEF Opened
    <3>2. frames[i].entity \in set /\ frames[i].data \in set \cup {None}
      BY <3>1 DEF Has
    <3>3. frames[i].entity \in 1 .. Len(heap) /\ frames[i].data \in 0 .. Len(heap)
      BY <1>1, FramesPoint
    <3> QED
      BY <1>1, <3>2, <3>3
  <2>2. result \in t \cup {None}
    BY <1>1, <1>2 DEF Has
  <2> HIDE DEF t
  <2> QED
    BY <2>1, <2>2 DEF Has
<1>7. fresh \in set
  <2>1. Len(frames) + 1 \in DOMAIN frames' /\ frames'[Len(frames) + 1].entity = fresh
    BY DEF Opened
  <2> QED
    BY <2>1 DEF Has
<1>8. CASE x = fresh
  BY <1>7, <1>8
<1>9. CASE x # fresh
  <2>1. x \in DOMAIN heap /\ heap[x].alive
    BY <1>1, <1>9 DEF Opened
  <2> HIDE DEF t
  <2>2. x \in t
    BY <1>3, <1>4, <1>5, <1>6, <2>1 DEF Spans
  <2> QED
    BY <2>2 DEF t
<1> QED
  BY <1>8, <1>9

(* Freeing a lone table leaves everything within reach.                    *)
LEMMA WholeFreed ==
  ASSUME CInv, Whole, FreeLast, Window'
  PROVE  Spans(heap', frames', result', {})
<1> DEFINE e == head.entity
           g == Free({e})
<1>1. /\ Entities = 1 .. Len(heap) /\ DOMAIN heap = Entities /\ LInv /\ HandInv
  BY Records DEF CInv, Entities
<1>2. /\ Busy /\ Refcount(e) = 1 /\ heap' = g /\ Window
      /\ frames' = frames /\ result' = result
  BY DEF FreeLast, Window
<1>3. Lone(e) /\ Spans(heap, frames, result, {e})
  BY <1>2, LastIsLone
<1>4. /\ DOMAIN g = Entities
      /\ \A x \in Entities : /\ x \notin {e} => g[x] = heap[x]
                             /\ x \in {e} => ~ g[x].alive /\ g[x].slots = Empty
  BY <1>1, FreeEffect
<1> HIDE DEF e, g
<1> SUFFICES ASSUME NEW set \in SUBSET Entities, Shut(g, set), Has(set, frames, result),
                    NEW x \in Entities, g[x].alive
             PROVE  x \in set \cup {}
  BY <1>2, <1>4 DEF Spans
<1> DEFINE t == set \ {e}
<1>5. Shut(heap, t)
  <2>1. ASSUME NEW y \in t, NEW j \in Slots PROVE heap[y].slots[j] \in t \cup {None}
    <3>1. g[y] = heap[y] /\ y \in Entities
      BY <1>4
    <3>2. heap[y].slots[j] # e
      BY <1>1, <1>3, <3>1 DEF Lone, HeldIn
    <3>3. g[y].slots[j] \in set \cup {None}
      BY DEF Shut
    <3> QED
      BY <3>1, <3>2, <3>3
  <2> HIDE DEF t
  <2> QED
    BY <2>1 DEF Shut
<1>6. Has(t, frames, result)
  BY <1>3 DEF Lone, Has, InFrames
<1>7. t \in SUBSET DOMAIN heap
  BY <1>1
<1>8. x # e /\ heap[x].alive
  BY <1>4
<1> HIDE DEF t
<1>9. x \in t \cup {e}
  BY <1>1, <1>3, <1>5, <1>6, <1>7, <1>8 DEF Spans
<1> QED
  BY <1>8, <1>9 DEF t

LEMMA NothingCollected ==
  ASSUME CInv, Collect, Garbage = {}
  PROVE  heap' = heap /\ drops' = drops
<1>1. LInv /\ HandInv /\ heap \in Seq(Entity) /\ DOMAIN heap = Entities
  BY DEF CInv, LInv, SafeHeap, Entities
<1>2. heap' = [e \in Entities |-> heap[e]]
  BY DEF Collect, Free
<1>3. heap = [e \in Entities |-> heap[e]]
  <2>1. heap \in [1 .. Len(heap) -> Entity]
    BY <1>1, LenProperties
  <2> QED
    BY <1>1, <2>1
<1>4. drops' = Dropped(LeavingOrder) \o drops
  BY DEF Collect, LeavingOrder, LeavingSlots
<1>5. LeavingSlots = {}
  BY DEF LeavingSlots
<1> DEFINE order == SE!SetToSeq(LeavingSlots)
           D == [entity : 1 .. Len(heap), rooted : BOOLEAN, pin : BOOLEAN]
           d == Dropped(LeavingOrder)
<1>6. DOMAIN order = {}
  <2>1. order \in Seq({})
    BY <1>5, InSomeOrder, FS_EmptySet
  <2> HIDE DEF order
  <2>2. \A i \in DOMAIN order : order[i] \in {}
    BY <2>1, LenProperties, ElementOfSeq
  <2> QED
    BY <2>2
<1>7. DOMAIN d = {}
  BY <1>6 DEF LeavingOrder, Dropped
<1>8. d \in Seq(D)
  BY <1>1, Leavings DEF SafeDrops
<1>9. drops \in Seq(D)
  BY <1>1 DEF HandInv, SafeDrops
<1> HIDE DEF d, D
<1>10. d = <<>>
  <2>1. Len(d) \in Nat /\ DOMAIN d = 1 .. Len(d)
    BY <1>8, LenProperties
  <2>2. Len(d) = 0
    BY <1>7, <2>1
  <2> QED
    BY <1>8, <2>2, EmptySeq
<1>11. <<>> \o drops = drops
  BY <1>9, ConcatEmptySeq
<1> QED
  BY <1>2, <1>3, <1>4, <1>10, <1>11 DEF d

(* After every step of the window, everything alive is within reach.       *)
LEMMA StepWhole ==
  ASSUME CInv, Fine, Whole, Unfinished, [Next]_vars
  PROVE  Whole'
<1> SUFFICES ASSUME Window'
             PROVE  \/ Spans(heap', frames', result', {})
                    \/ (Busy /\ Lone(head.entity))' /\ Spans(heap', frames', result', {head'.entity})
  BY DEF Whole
<1>1. CASE Survives
  <2>1. Window /\ UNCHANGED <<heap, frames, result>> /\ Busy
    BY <1>1 DEF Survives, Window, graphVars
  <2>2. ~ Lone(head.entity)
    BY <1>1, <2>1, LoneIsLast DEF Survives
  <2> QED
    BY <2>1, <2>2 DEF Whole
<1>2. CASE CallDestructor
  <2>1. Window /\ Busy /\ Refcount(head.entity) = 1 /\ heap[head.entity].kind = "object"
    BY <1>2 DEF CallDestructor, Window, Destructible
  <2>2. heap[head.entity].kind = "array"
    BY <2>1, LastIsLone DEF Lone
  <2> QED
    BY <2>1, <2>2
<1>3. CASE CollectDestructor
  <2>1. Window /\ Garbage # {}
    BY <1>3 DEF CollectDestructor, Window
  <2> QED
    BY <2>1, NoGarbage
<1>4. CASE FreeLast
  BY <1>4, WholeFreed
<1>5. CASE Collect
  <2>1. Window /\ UNCHANGED <<ids, frames, result, user>>
    BY <1>5 DEF Collect, Window
  <2>2. heap' = heap /\ drops' = drops
    BY <1>5, <2>1, NoGarbage, NothingCollected
  <2>3. head' = head /\ (Busy => Busy') /\ (Lone(head.entity) => (Lone(head.entity))')
    BY <2>1, <2>2 DEF head, Busy, Lone
  <2> QED
    BY <2>1, <2>2, <2>3 DEF Whole
<1>6. CASE ReadScalar \/ ReadBackReference
  BY <1>6, WholeRead
<1>7. CASE EndValue \/ EndHooked
  BY <1>7, WholeEndValue
<1>8. CASE EndApplied
  BY <1>8, WholeApplied
<1>9. CASE \E class \in Classes : ReadLegacy(class)
  <2>1. orphan'
    BY <1>9, LegacyReady, ReadyLands DEF Parted
  <2> QED
    BY <2>1 DEF Window
<1>10. CASE (\E class \in Classes : BeginObject(class)) \/ BeginReference \/ BeginArray
  <2>1. ~ Busy
    BY <1>10 DEF BeginObject, BeginReference, BeginArray, Token, Walking
  <2> QED
    BY <1>10, <2>1, Opens, WholeOpened
<1>11. CASE StartHooks
  <2>1. Window /\ ~ Busy /\ UNCHANGED <<heap, frames, result>>
    BY <1>11 DEF StartHooks, Window, graphVars
  <2> QED
    BY <2>1 DEF Whole
<1>12. CASE HookReturns
  <2>1. phase = "hook" /\ deferred = <<>>
    BY <1>12 DEF HookReturns, Window
  <2>2. next \in Nat \ {0} /\ next <= Len(deferred) /\ Len(deferred) = 0
    BY <2>1 DEF CInv, Turns
  <2> QED
    BY <2>2
<1>13. CASE \/ Fail \/ Refuse \/ CallHook \/ Assign \/ Keep \/ Forget \/ HooksDone
            \/ Unwrap \/ Return \/ Discard
  <2>1. phase' \in {"release", "hook", "unwrapped", "returned", "discarded"}
    BY <1>13 DEF Fail, Refuse, Abandon, Destroy, CallHook, Assign, Keep, Forget, Statement,
                 HooksDone, Unwrap, Return, Discard
  <2> QED
    BY <2>1 DEF Window
<1>14. CASE UNCHANGED vars
  <2>1. Window /\ UNCHANGED <<heap, ids, frames, result, user, drops>>
    BY <1>14 DEF vars, Window
  <2>2. head' = head /\ (Busy => Busy') /\ (Lone(head.entity) => (Lone(head.entity))')
    BY <2>1 DEF head, Busy, Lone
  <2> QED
    BY <2>1, <2>2 DEF Whole
<1> QED
  BY <1>1, <1>2, <1>3, <1>4, <1>5, <1>6, <1>7, <1>8, <1>9, <1>10, <1>11, <1>12, <1>13, <1>14
     DEF Next

LEMMA PutFinishes ==
  ASSUME NEW v, NEW graph, NEW stack, NEW given, NEW noted, Put(v, graph, stack, given, noted)
  PROVE  phase' = "walked" \/ UNCHANGED <<phase, result>>
BY DEF Put

LEMMA StepUnfinished ==
  ASSUME Turns, Unfinished, [Next]_vars
  PROVE  Unfinished'
<1>1. CASE \/ ReadScalar \/ ReadBackReference \/ EndValue \/ EndHooked \/ EndApplied
           \/ \E class \in Classes : ReadLegacy(class)
  <2>1. \E v, graph, stack, given, noted : Put(v, graph, stack, given, noted)
    BY <1>1 DEF ReadScalar, ReadBackReference, EndValue, EndHooked, EndApplied, ReadLegacy
  <2> QED
    BY <2>1, PutFinishes DEF Unfinished
<1>2. CASE \/ Survives \/ CallDestructor \/ FreeLast \/ CollectDestructor \/ Collect
           \/ (\E class \in Classes : BeginObject(class)) \/ BeginReference \/ BeginArray
           \/ Assign \/ Keep \/ Forget \/ UNCHANGED vars
  <2>1. UNCHANGED <<phase, result>>
    BY <1>2 DEF Survives, CallDestructor, FreeLast, CollectDestructor, Collect, BeginObject,
                BeginReference, BeginArray, Assign, Keep, Forget, Statement, vars, graphVars
  <2> QED
    BY <2>1 DEF Unfinished
<1>3. CASE \/ Fail \/ Refuse \/ StartHooks \/ CallHook \/ HookReturns \/ HooksDone
            \/ Unwrap \/ Return \/ Discard
  <2>1. phase' # "walk"
    BY <1>3 DEF Fail, Refuse, Abandon, Destroy, StartHooks, CallHook, HookReturns,
                HooksDone, Unwrap, Return, Discard
  <2> QED
    BY <2>1 DEF Unfinished
<1> QED
  BY <1>1, <1>2, <1>3 DEF Next

(* A pin that is released fast is held by something that stays.            *)
LEMMA FastHeld ==
  ASSUME CInv, FastPins, Busy, head.pin, ~ head.rooted
  PROVE  Refcount(head.entity) > 1
<1> DEFINE e == head.entity
           s == SlotsThatHold(Entities, e)
           o == Others(e)
           t == Times(EntitiesOf(drops), e)
<1>1. LInv /\ HandInv /\ AllPinned /\ AliveInv
  BY DEF CInv
<1>2. e \in Entities /\ heap[e].alive /\ head = drops[1] /\ 1 \in DOMAIN drops
  BY <1>1, HeadDropped DEF AliveInv
<1>3. Spans(heap, <<>>, result, {})
  BY <1>2 DEF FastPins
<1>4. result = e \/ HeldIn(heap, e)
  <2> SUFFICES ASSUME result # e, ~ HeldIn(heap, e) PROVE FALSE
    OBVIOUS
  <2>1. /\ Entities = 1 .. Len(heap) /\ DOMAIN heap = Entities /\ Len(heap) \in Nat
        /\ Within(heap) /\ result \in 0 .. Len(heap) /\ 0 .. Len(heap) = Entities \cup {None}
    BY <1>1, Records DEF HandInv, None
  <2> DEFINE set == Entities \ {e}
  <2> HIDE DEF e
  <2>2. set \in SUBSET DOMAIN heap
    BY <2>1
  <2>3. Shut(heap, set)
    BY <2>1 DEF Shut, Within, HeldIn
  <2>4. Has(set, <<>>, result)
    BY <2>1 DEF Has
  <2> HIDE DEF set
  <2>5. e \in set \cup {}
    BY <1>2, <1>3, <2>1, <2>2, <2>3, <2>4 DEF Spans
  <2> QED
    BY <2>5 DEF set
<1>5. Refcount(e) = s + o + t
  BY <1>1, CountParts
<1>6. /\ s \in Nat /\ (s = 0 <=> ~ HeldIn(heap, e)) /\ t \in Nat /\ t >= 1
  BY <1>1, SlotsCount, DropsCount
<1>7. o \in Nat /\ (result = e => o # 0)
  BY <1>1, OthersCount
<1> HIDE DEF s, o, t
<1> QED
  BY <1>4, <1>5, <1>6, <1>7

(* No pin in a queue of references is released fast.                       *)
Slow(seq) == \A i \in DOMAIN seq : ~ (seq[i].pin /\ ~ seq[i].rooted)

(* What is given up now was being given up, or is offered.                 *)
Comes(seq) ==
  \A i \in DOMAIN seq : seq[i].rooted \/ \E j \in DOMAIN drops : seq[i] = drops[j]

LEMMA ComesJoin ==
  ASSUME NEW n \in Nat, NEW s, NEW t, SafeDrops(s, n), SafeDrops(t, n), Comes(s), Comes(t)
  PROVE  Comes(s \o t)
<1>1. /\ SafeDrops(s \o t, n)
      /\ \A e : Dropping(s \o t, e) <=> Dropping(s, e) \/ Dropping(t, e)
      /\ \A i \in DOMAIN (s \o t) : \/ \E j \in DOMAIN s : (s \o t)[i] = s[j]
                                    \/ \E j \in DOMAIN t : (s \o t)[i] = t[j]
  BY DropsJoin
<1> DEFINE r == s \o t
<1>2. \A i \in DOMAIN r : \/ \E j \in DOMAIN s : r[i] = s[j]
                          \/ \E j \in DOMAIN t : r[i] = t[j]
  BY <1>1
<1> HIDE DEF r
<1>3. Comes(r)
  BY <1>2 DEF Comes
<1> QED
  BY <1>3 DEF r

LEMMA ComesValues ==
  ASSUME NEW n \in Nat, NEW seq \in Seq(0 .. n)
  PROVE  SafeDrops(DropAll(seq), n) /\ Comes(DropAll(seq))
<1> DEFINE d == DropAll(seq)
<1>1. SafeDrops(d, n) /\ \A i \in DOMAIN d : d[i].rooted /\ ~ d[i].pin
  BY DropAllSafe
<1> HIDE DEF d
<1>2. Comes(d)
  BY <1>1 DEF Comes
<1> QED
  BY <1>1, <1>2 DEF d

LEMMA OneComes ==
  ASSUME NEW n \in Nat, NEW e \in 0 .. n
  PROVE  Comes(DropAll(<<e>>))
<1>1. <<e>> \in Seq(0 .. n)
  OBVIOUS
<1> QED
  BY <1>1, ComesValues

(* Only the end of the walk and the caller's discarding give up anything   *)
(* without offering it.                                                    *)
LEMMA DropsCome ==
  ASSUME CInv, Fine, [Next]_vars, ~ HooksDone, ~ Discard
  PROVE  Comes(drops')
<1>1. /\ LInv /\ HandInv /\ Len(heap) \in Nat /\ SafeDrops(drops, Len(heap))
      /\ result \in 0 .. Len(heap)
  BY Records DEF CInv, HandInv
<1>2. ASSUME Busy PROVE Comes(Tail(drops)) /\ SafeDrops(Tail(drops), Len(heap))
  <2> DEFINE t == Tail(drops)
  <2>1. /\ DOMAIN t = 1 .. Len(drops) - 1 /\ DOMAIN drops = 1 .. Len(drops)
        /\ \A i \in 1 .. Len(drops) - 1 : t[i] = drops[i + 1]
        /\ Len(drops) \in Nat \ {0} /\ SafeDrops(t, Len(heap))
    BY <1>1, <1>2, HeadDropped
  <2> HIDE DEF t
  <2>2. ASSUME NEW i \in DOMAIN t PROVE \E j \in DOMAIN drops : t[i] = drops[j]
    <3>1. i + 1 \in DOMAIN drops /\ t[i] = drops[i + 1]
      BY <2>1
    <3> QED
      BY <3>1
  <2> QED
    BY <2>1, <2>2 DEF Comes, t
<1>3. CASE Survives
  BY <1>2, <1>3 DEF Survives
<1>4. CASE FreeLast
  <2> DEFINE q == heap[head.entity].slots
             d == DropAll(q)
  <2>1. q \in Seq(0 .. Len(heap))
    <3>1. head.entity \in Entities /\ Within(heap)
      BY <1>1, <1>4, HeadDropped DEF FreeLast, HandInv
    <3> QED
      BY <1>1, <3>1, SlotsInOrder
  <2> HIDE DEF q
  <2>2. SafeDrops(d, Len(heap)) /\ Comes(d)
    BY <1>1, <2>1, ComesValues
  <2>3. Busy /\ drops' = d \o Tail(drops)
    BY <1>4 DEF FreeLast, q
  <2> HIDE DEF d
  <2>4. Comes(Tail(drops)) /\ SafeDrops(Tail(drops), Len(heap))
    BY <1>2, <2>3
  <2> DEFINE t == Tail(drops)
  <2>5. SafeDrops(t, Len(heap)) /\ Comes(t) /\ drops' = d \o t
    BY <2>3, <2>4
  <2> HIDE DEF t
  <2> QED
    BY <1>1, <2>2, <2>5, ComesJoin
<1>5. CASE Collect
  <2> DEFINE d == Dropped(LeavingOrder)
  <2>1. drops' = d \o drops
    BY <1>5 DEF Collect, LeavingOrder, LeavingSlots
  <2>2. SafeDrops(d, Len(heap)) /\ \A i \in DOMAIN d : d[i].rooted /\ ~ d[i].pin
    BY <1>1, Leavings
  <2> HIDE DEF d
  <2>3. Comes(d) /\ Comes(drops)
    BY <2>2 DEF Comes
  <2> QED
    BY <1>1, <2>1, <2>2, <2>3, ComesJoin
<1>6. CASE \/ ReadScalar \/ ReadBackReference \/ EndValue \/ EndHooked \/ EndApplied
           \/ \E class \in Classes : ReadLegacy(class)
  <2>1. \E v, graph, stack, given, noted : Ready(v, graph, stack, given, noted)
    <3>1. CASE ReadScalar \/ ReadBackReference
      BY <3>1, ReadReady
    <3>2. CASE EndValue \/ EndHooked \/ EndApplied
      <4>1. frames # <<>>
        BY <3>2 DEF EndValue, EndHooked, EndApplied
      <4> QED
        BY <3>2, <4>1, EndReady
    <3>3. CASE \E class \in Classes : ReadLegacy(class)
      BY <3>3, LegacyReady
    <3> QED
      BY <1>6, <3>1, <3>2, <3>3
  <2>2. \E given, noted : Parted(given, noted)
    BY <2>1, ReadyLands
  <2> QED
    BY <2>2 DEF Parted, Comes
<1>7. CASE Fail \/ Refuse
  <2>1. \E value \in Seq(0 .. Len(heap)) : Abandon(value)
    <3>1. CASE Fail
      BY <3>1, NoValue DEF Fail
    <3>2. CASE Refuse
      <4>1. PICK i \in DOMAIN ids : Abandon(<<ids[i].entity>>)
        BY <3>2 DEF Refuse
      <4>2. ids[i].entity \in 0 .. Len(heap)
        <5> DEFINE C == [entity : 1 .. Len(heap), pinned : BOOLEAN]
        <5>1. ids \in Seq(C)
          BY <1>1 DEF LInv, SafeIds
        <5>2. ids[i] \in C
          BY <4>1, <5>1, LenProperties, ElementOfSeq
        <5> QED
          BY <1>1, <5>2
      <4> DEFINE e == ids[i].entity
      <4>3. Abandon(<<e>>) /\ e \in 0 .. Len(heap)
        BY <4>1, <4>2
      <4> HIDE DEF e
      <4>4. <<e>> \in Seq(0 .. Len(heap))
        BY <4>3
      <4> QED
        BY <4>3, <4>4
    <3> QED
      BY <1>7, <3>1, <3>2
  <2>2. \A i \in DOMAIN drops' : drops'[i].rooted
    BY <1>1, <2>1, AbandonDrops
  <2> QED
    BY <2>2 DEF Comes
<1>8. CASE Assign
  <2>1. phase = "hook"
    BY <1>8 DEF Assign, Statement
  <2>2. next \in DOMAIN deferred
    <3>1. next \in Nat \ {0} /\ next <= Len(deferred)
      BY <2>1 DEF CInv, Turns
    <3>2. DOMAIN deferred = 1 .. Len(deferred) /\ Len(deferred) \in Nat
      BY QueueBound DEF CInv
    <3> QED
      BY <3>1, <3>2
  <2>3. PICK e \in Visible, k \in Slots : drops' = DropAll(<<heap[e].slots[k]>>)
    BY <1>8 DEF Assign
  <2>4. heap[e].slots[k] \in 0 .. Len(heap)
    <3>1. e \in 1 .. Len(heap) /\ DOMAIN heap = 1 .. Len(heap)
      BY <1>1, <2>2, VisibleKnown, Records
    <3> QED
      BY <1>1, <3>1 DEF HandInv, Within
  <2> QED
    BY <1>1, <2>3, <2>4, OneComes
<1>9. CASE Forget
  <2>1. PICK e \in user : drops' = DropAll(<<e>>)
    BY <1>9 DEF Forget
  <2>2. e \in 0 .. Len(heap)
    BY <1>1 DEF HandInv
  <2> QED
    BY <1>1, <2>1, <2>2, OneComes
<1>10. CASE Unwrap \/ Return
  <2>1. drops' = drops \/ drops' = Dropped(<<result>>) \/ drops' = DropAll(<<result>>)
    BY <1>10 DEF Unwrap, Return
  <2>2. Comes(Dropped(<<result>>)) /\ Comes(drops)
    BY DEF Comes, Dropped, Drop
  <2> QED
    BY <1>1, <2>1, <2>2, OneComes
<1>11. CASE \/ CallDestructor \/ CollectDestructor \/ Keep \/ StartHooks \/ CallHook
            \/ HookReturns \/ UNCHANGED vars
            \/ (\E class \in Classes : BeginObject(class)) \/ BeginReference \/ BeginArray
  <2>1. drops' = drops
    BY <1>11 DEF CallDestructor, CollectDestructor, Keep, Statement, StartHooks, CallHook,
                 HookReturns, vars, BeginObject, BeginReference, BeginArray
  <2> QED
    BY <2>1 DEF Comes
<1> QED
  BY <1>3, <1>4, <1>5, <1>6, <1>7, <1>8, <1>9, <1>10, <1>11 DEF Next

(* Only the end of the walk starts a fast release.                         *)
LEMMA SlowSteps ==
  ASSUME CInv, Fine, Slow(drops), [Next]_vars, ~ HooksDone
  PROVE  Slow(drops')
<1>1. CASE Discard
  BY <1>1 DEF Discard, Drop, Slow
<1>2. CASE ~ Discard
  BY <1>2, DropsCome DEF Comes, Slow
<1> QED
  BY <1>1, <1>2

LEMMA StepFastPins ==
  ASSUME CInv, Fine, Whole, Unfinished, FastPins, [Next]_vars
  PROVE  FastPins'
<1>1. CASE ~ Slow(drops)
  <2>1. /\ \E i \in DOMAIN drops : drops[i].pin /\ ~ drops[i].rooted
        /\ phase = "release" /\ Spans(heap, <<>>, result, {})
        /\ \A i \in DOMAIN drops : drops[i].pin /\ ~ drops[i].rooted
    BY <1>1 DEF Slow, FastPins
  <2>2. Busy
    BY <2>1 DEF Busy
  <2>3. /\ head = drops[1] /\ 1 \in DOMAIN drops
        /\ DOMAIN Tail(drops) = 1 .. Len(drops) - 1 /\ DOMAIN drops = 1 .. Len(drops)
        /\ \A i \in 1 .. Len(drops) - 1 : Tail(drops)[i] = drops[i + 1]
        /\ Len(drops) \in Nat \ {0}
    BY <2>2, HeadDropped DEF CInv
  <2>4. head.pin /\ ~ head.rooted /\ Refcount(head.entity) > 1
    BY <2>1, <2>2, <2>3, FastHeld
  <2>5. ~ CallDestructor /\ ~ FreeLast
    <3> DEFINE count == Refcount(head.entity)
    <3>1. (CallDestructor => count = 1) /\ (FreeLast => count = 1)
      BY DEF CallDestructor, FreeLast
    <3>2. count > 1
      BY <2>4
    <3> HIDE DEF count
    <3>3. count # 1
      BY <3>2
    <3> QED
      BY <3>1, <3>3
  <2>6. ~ CollectDestructor /\ ~ Collect
    BY <2>1, <2>4 DEF CollectDestructor, Collect, MayCollect
  <2>7. CASE Survives
    <3>1. drops' = Tail(drops) /\ UNCHANGED <<phase, heap, result>>
      BY <2>7 DEF Survives, graphVars
    <3>2. \A i \in DOMAIN drops' : drops'[i].pin /\ ~ drops'[i].rooted
      <4>1. ASSUME NEW i \in DOMAIN drops' PROVE drops'[i].pin /\ ~ drops'[i].rooted
        <5>1. drops'[i] = drops[i + 1] /\ i + 1 \in DOMAIN drops
          BY <2>3, <3>1
        <5> QED
          BY <2>1, <5>1
      <4> QED
        BY <4>1
    <3> QED
      BY <2>1, <3>1, <3>2 DEF FastPins
  <2>8. CASE UNCHANGED vars
    BY <2>1, <2>8 DEF FastPins, vars
  <2>9. UNCHANGED vars \/ Survives
    BY <2>1, <2>2, <2>5, <2>6
       DEF Next, ReadScalar, ReadBackReference, BeginReference, BeginArray, BeginObject,
           ReadLegacy, EndValue, EndHooked, EndApplied, Token, Walking, Fail, Refuse, StartHooks,
           CallHook, Assign, Keep, Forget, Statement, HookReturns, HooksDone, Unwrap, Return,
           Discard
  <2> QED
    BY <2>7, <2>8, <2>9
<1>2. CASE Slow(drops) /\ ~ HooksDone
  <2>1. Slow(drops')
    BY <1>2, SlowSteps
  <2> QED
    BY <2>1 DEF FastPins, Slow
<1>3. CASE HooksDone
  <2>1. /\ phase = "hooks" /\ drops' = <<>> \o Releases(ResultLive) /\ phase' = "release"
        /\ UNCHANGED <<heap, result>> /\ drops = <<>> /\ frames = <<>>
    BY <1>3 DEF HooksDone, Destroy, CInv, Turns
  <2> DEFINE n == Len(heap)
             live == ResultLive
  <2>2. n \in Nat /\ SafeIds(ids, n) /\ SafeQueue(deferred, n) /\ live \in BOOLEAN
    <3>1. LInv /\ HandInv
      BY DEF CInv
    <3> QED
      BY <3>1, Records DEF LInv, HandInv, ResultLive
  <2> HIDE DEF n, live
  <2> DEFINE r == Releases(live)
  <2>3. /\ SafeDrops(r, n)
        /\ \A i \in DOMAIN r : LET d == r[i]
                               IN (d.pin /\ d.rooted = ~ live)
                                    \/ (~ d.pin /\ d.rooted /\ deferred # <<>>)
    BY <2>2, ReleasedValues
  <2> HIDE DEF r
  <2>4. drops' = r
    <3>1. <<>> \o r = r
      BY <2>3, ConcatEmptySeq DEF SafeDrops
    <3> QED
      BY <2>1, <3>1 DEF r, live
  <2>5. CASE live
    <3>1. Window /\ deferred = <<>>
      BY <2>1, <2>5 DEF live, ResultLive, Window
    <3>2. ~ Busy
      BY <2>1 DEF Busy
    <3>3. Spans(heap, <<>>, result, {})
      BY <2>1, <3>1, <3>2 DEF Whole
    <3>4. \A i \in DOMAIN r : r[i].pin /\ ~ r[i].rooted
      BY <2>3, <2>5, <3>1
    <3> QED
      BY <2>1, <2>4, <3>3, <3>4 DEF FastPins
  <2>6. CASE ~ live
    <3>1. \A i \in DOMAIN r : ~ (r[i].pin /\ ~ r[i].rooted)
      BY <2>3, <2>6
    <3> QED
      BY <2>4, <3>1 DEF FastPins
  <2> QED
    BY <2>5, <2>6
<1> QED
  BY <1>1, <1>2, <1>3

----------------------------------------------------------------------------
(* Together with what keeps everything known alive: what the walk fills,   *)
(* and that all of it can still be reached from the walk or the result, or *)
(* from the one entity that is being given up.                             *)
DInv == CInv /\ Fine /\ Whole /\ Unfinished /\ FastPins

LEMMA InitWhole == Init => DInv
<1> SUFFICES ASSUME Init PROVE DInv
  OBVIOUS
<1>1. CInv
  BY InitAlive
<1>2. heap = <<>> /\ frames = <<>> /\ drops = <<>> /\ result = None
  BY DEF Init
<1>3. DOMAIN heap = {} /\ DOMAIN frames = {} /\ DOMAIN drops = {}
  BY <1>2
<1>4. Fine
  BY <1>3 DEF Fine, Filling, Flat
<1>5. Whole
  BY <1>3 DEF Whole, Spans
<1>6. Unfinished /\ FastPins
  BY <1>2, <1>3 DEF Unfinished, FastPins
<1> QED
  BY <1>1, <1>4, <1>5, <1>6 DEF DInv

(* What makes the fast release of pins sound in every state: nothing in    *)
(* the value just decoded is out of reach of its root, so every entity     *)
(* that a pin alone names is still held by the value itself.               *)
THEOREM ReleaseInvariant == Spec => []DInv
<1>1. ASSUME DInv, [Next]_vars PROVE DInv'
  <2>1. CInv /\ Fine /\ Whole /\ Unfinished /\ FastPins /\ Turns
    BY <1>1 DEF DInv, CInv
  <2>2. CInv'
    BY <1>1, <2>1, StepAlive
  <2>3. Fine'
    BY <1>1, <2>1, StepFine
  <2>4. Whole'
    BY <1>1, <2>1, StepWhole
  <2>5. Unfinished'
    BY <1>1, <2>1, StepUnfinished
  <2>6. FastPins'
    BY <1>1, <2>1, StepFastPins
  <2> QED
    BY <2>2, <2>3, <2>4, <2>5, <2>6 DEF DInv
<1>2. QED
  BY <1>1, InitWhole, PTL DEF Spec

(* decode_destroy's assertion: a pin that is released without zval_ptr_dtor *)
(* is never the last holder of what it pins, whatever was decoded.         *)
THEOREM FastReleaseHolds == Spec => []FastReleaseFreesNothing
<1>1. DInv => FastReleaseFreesNothing
  BY FastHeld DEF DInv, FastReleaseFreesNothing
<1>2. QED
  BY <1>1, ReleaseInvariant, PTL

----------------------------------------------------------------------------
(* Nothing leaks: what is alive can be reached from what is named or       *)
(* offered to the collector.  A set covers the state when all of that is   *)
(* in it, and all that the slots of its members hold.                      *)
Rooted(e) == Named(e) \/ e \in buffer
Carries(graph, set) ==
  \A x \in DOMAIN graph, k \in Slots :
    x \in set /\ graph[x].slots[k] # None => graph[x].slots[k] \in set
Covers(set) == Carries(heap, set) /\ \A e : e # None /\ Rooted(e) => e \in set
Covered == \A set : Covers(set) => \A x \in Entities : heap[x].alive => x \in set

(* A step that changes no slot and lets go of no root.                     *)
LEMMA RootsStay ==
  ASSUME Covered, SameSlots(heap, heap'), \A e : e # None /\ Rooted(e) => Rooted(e)'
  PROVE  Covered'
<1> SUFFICES ASSUME NEW set, Covers(set)', NEW x \in Entities', heap'[x].alive
             PROVE  x \in set
  BY DEF Covered
<1>1. /\ Carries(heap', set)
      /\ \A e : e # None /\ Rooted(e)' => e \in set
  BY DEF Covers
<1>2. Covers(set)
  BY <1>1 DEF Covers, Carries, SameSlots
<1>3. x \in Entities /\ heap[x].alive
  BY DEF SameSlots, Entities
<1> QED
  BY <1>2, <1>3 DEF Covered

(* A step of the walk that puts a value somewhere.                         *)
Handed(v, graph, stack) ==
  /\ \A e : e # None /\ InFrames(frames, e) =>
       e = v \/ InFrames(stack, e) \/ Dropping(drops', e) \/ Queued(deferred', e)
  /\ \A e : Identified(ids, e) => Identified(ids', e)
  /\ \A e : Queued(deferred, e) => Queued(deferred', e)
  /\ user \subseteq user' /\ buffer' = buffer /\ drops = <<>> /\ result = None
  /\ \A x \in Entities :
       /\ x \in DOMAIN graph /\ graph[x].alive = heap[x].alive
       /\ \A k \in Slots : heap[x].slots[k] \in {None, graph[x].slots[k]}
  /\ \A x \in DOMAIN graph : x \in Entities \/ Identified(ids', x)

LEMMA LandedCovered ==
  ASSUME Covered, NEW v, NEW graph, NEW stack, NEW into \in Nat, NEW k \in Slots,
         SafeHeap(graph), SafeFrames(stack, Len(graph)), v \in 0 .. Len(graph),
         Landed(into, k, v, graph, stack), Handed(v, graph, stack)
  PROVE  Covered'
<1> SUFFICES ASSUME NEW set, Covers(set)', NEW x \in Entities', heap'[x].alive
             PROVE  x \in set
  BY DEF Covered
<1>1. /\ Carries(heap', set)
      /\ \A e : e # None /\ Named(e)' => e \in set
      /\ \A e : e # None /\ e \in buffer => e \in set
  BY DEF Covers, Rooted, Handed
<1>2. /\ DOMAIN heap' = DOMAIN graph /\ None \notin DOMAIN graph
      /\ \A y \in DOMAIN graph :
           /\ heap'[y].alive = graph[y].alive
           /\ \A j \in Slots :
                heap'[y].slots[j] = IF y = into /\ j = k THEN v ELSE graph[y].slots[j]
  BY LenProperties DEF Landed, Wrote, SafeHeap, None
<1>3. \A e : e # None /\ InFrames(stack, e) => e \in set
  <2>1. ASSUME NEW e, e # None, NEW i \in DOMAIN stack, stack[i].entity = e \/ stack[i].data = e
        PROVE  InFrames(frames', e)
    <3>1. /\ i \in DOMAIN frames' /\ frames'[i].entity = stack[i].entity
          /\ frames'[i].data = stack[i].data \/ stack[i].data = None
      BY <2>1 DEF Landed
    <3> QED
      BY <2>1, <3>1 DEF InFrames
  <2>2. \A e : e # None /\ InFrames(stack, e) => InFrames(frames', e)
    BY <2>1 DEF InFrames
  <2> QED
    BY <1>1, <2>2 DEF Named
<1>4. into # None => into \in set /\ into \in DOMAIN graph
  <2>1. into # None => InFrames(stack, into) /\ into \in DOMAIN graph
    <3>1. Len(graph) \in Nat /\ DOMAIN graph = 1 .. Len(graph)
      BY LenProperties DEF SafeHeap
    <3> QED
      BY <3>1, FramesPoint DEF Landed, InFrames
  <2> QED
    BY <1>3, <2>1
<1>5. v = None \/ v \in set
  <2>1. CASE into # None /\ v # None
    <3>1. heap'[into].slots[k] = v
      BY <1>2, <1>4, <2>1
    <3> QED
      BY <1>1, <1>2, <1>4, <2>1, <3>1 DEF Carries
  <2>2. CASE v # None /\ (result' = v \/ Dropping(drops', v) \/ InFrames(frames', v))
    BY <1>1, <2>2 DEF Named
  <2>3. \/ into # None \/ v = None \/ result' = v \/ Dropping(drops', v) \/ InFrames(frames', v)
    BY DEF Landed, InFrames
  <2> QED
    BY <2>1, <2>2, <2>3
<1>6. Carries(heap, set)
  <2>1. ASSUME NEW y \in DOMAIN heap, NEW j \in Slots, y \in set, heap[y].slots[j] # None
        PROVE  heap[y].slots[j] \in set
    <3>1. y \in DOMAIN graph /\ graph[y].slots[j] = heap[y].slots[j] /\ y # None
      BY <1>2, <2>1 DEF Handed, Entities
    <3>2. CASE y = into /\ j = k
      <4>1. Dropping(drops', graph[y].slots[j])
        BY <2>1, <3>1, <3>2 DEF Landed
      <4> QED
        BY <1>1, <2>1, <3>1, <4>1 DEF Named
    <3>3. CASE ~ (y = into /\ j = k)
      <4>1. heap'[y].slots[j] = heap[y].slots[j]
        BY <1>2, <3>1, <3>3
      <4> QED
        BY <1>1, <1>2, <2>1, <3>1, <4>1 DEF Carries
    <3> QED
      BY <3>2, <3>3
  <2> QED
    BY <2>1 DEF Carries
<1>7. ASSUME NEW e, e # None, Named(e) PROVE e \in set
  <2>1. CASE InFrames(frames, e)
    BY <1>1, <1>3, <1>5, <1>7, <2>1 DEF Handed, Named
  <2>2. CASE Identified(ids, e) \/ Queued(deferred, e) \/ e \in user
    BY <1>1, <1>7, <2>2 DEF Handed, Named
  <2>3. ~ Dropping(drops, e) /\ result # e
    BY <1>7 DEF Handed, Dropping
  <2> QED
    BY <1>7, <2>1, <2>2, <2>3 DEF Named
<1>8. Covers(set)
  BY <1>1, <1>6, <1>7 DEF Covers, Rooted
<1>9. CASE x \in Entities
  <2>1. heap[x].alive
    BY <1>2, <1>9 DEF Handed
  <2> QED
    BY <1>8, <1>9, <2>1 DEF Covered
<1>10. CASE x \notin Entities
  <2>1. x \in DOMAIN graph /\ x # None
    BY <1>2 DEF Entities
  <2>2. Named(x)'
    BY <1>10, <2>1 DEF Handed, Named
  <2> QED
    BY <1>1, <2>1, <2>2
<1> QED
  BY <1>9, <1>10

LEMMA PutCovered ==
  ASSUME Covered, NEW v, NEW graph, NEW stack, NEW given, NEW noted,
         Ready(v, graph, stack, given, noted), Handed(v, graph, stack)
  PROVE  Covered'
<1>1. PICK into \in Nat, k \in Nat : k \in Slots /\ Landed(into, k, v, graph, stack)
  BY ReadyLands
<1> QED
  BY <1>1, LandedCovered DEF Ready

LEMMA ReadCovered ==
  ASSUME CInv, Fine, Unfinished, Covered, ReadScalar \/ ReadBackReference
  PROVE  Covered'
<1>1. phase = "walk" /\ ~ Busy /\ UNCHANGED <<deferred, ids, user, buffer>>
  BY DEF ReadScalar, ReadBackReference, Token, Walking
<1>2. PICK v, stack : /\ Ready(v, heap, stack, <<>>, FALSE)
                      /\ stack \in {frames, SawReference(frames)}
  BY ReadReady
<1>3. LInv /\ Len(heap) \in Nat /\ SafeFrames(frames, Len(heap))
  BY Records DEF CInv, LInv
<1>4. \A e : InFrames(frames, e) => InFrames(stack, e)
  BY <1>2, <1>3, SawSame
<1>5. Handed(v, heap, stack)
  BY <1>1, <1>4 DEF Handed, Unfinished, Busy, Entities
<1> QED
  BY <1>2, <1>5, PutCovered

LEMMA EndCovered ==
  ASSUME CInv, Fine, Unfinished, Covered, EndValue \/ EndHooked \/ EndApplied
  PROVE  Covered'
<1> DEFINE d == top.data
           e == top.entity
           n == Len(heap)
<1>1. phase = "walk" /\ ~ Busy /\ frames # <<>> /\ UNCHANGED <<user, buffer>>
  BY DEF EndValue, EndHooked, EndApplied, Token, Walking
<1>2. LInv /\ HandInv /\ AliveInv /\ n \in Nat /\ SafeFrames(frames, n) /\ SafeIds(ids, n)
      /\ SafeQueue(deferred, n) /\ None \in 0 .. n
      /\ Entities = 1 .. n /\ DOMAIN heap = Entities /\ Within(heap)
  BY Records DEF CInv, LInv, HandInv, Entities, None
<1>3. /\ Len(frames) \in DOMAIN frames /\ top = frames[Len(frames)]
      /\ \A x : InFrames(frames, x) => InFrames(Outer(frames), x) \/ x = e \/ x = d
      /\ e \in 1 .. n /\ d \in 0 .. n
  <2>1. /\ Len(frames) \in Nat \ {0} /\ DOMAIN frames = 1 .. Len(frames)
        /\ \A x : InFrames(frames, x) => InFrames(Outer(frames), x) \/ x = e \/ x = d
    BY <1>1, <1>2, OuterFrames
  <2>2. top = frames[Len(frames)] /\ Len(frames) \in DOMAIN frames
    BY <2>1 DEF top
  <2>3. e \in 1 .. n /\ d \in 0 .. n
    BY <1>2, <2>2, FramesPoint
  <2> QED
    BY <2>1, <2>2, <2>3
<1>4. Fits(heap, top)
  BY <1>3 DEF Fine, Filling
<1> HIDE DEF n, d, e
<1>5. \A x : Identified(ids, x) => Identified(ids', x)
  <2>1. CASE ids' = ids
    BY <2>1
  <2>2. CASE Register(e, "array")
    BY <1>2, <1>3, <2>2, RegisterOne
  <2> QED
    BY <2>1, <2>2 DEF EndValue, EndHooked, EndApplied, e
<1>6. /\ \A x : Queued(deferred, x) => Queued(deferred', x)
      /\ EndHooked => Queued(deferred', d)
  <2>1. CASE deferred' = deferred /\ ~ EndHooked
    BY <2>1
  <2>2. CASE Queue(e, d)
    BY <1>2, <1>3, <2>2, QueueOne
  <2>3. CASE Queue(e, None) /\ ~ EndHooked
    BY <1>2, <1>3, <2>3, QueueOne
  <2>4. EndHooked => Queue(e, d)
    BY DEF EndHooked, e, d
  <2>5. EndValue \/ EndApplied => deferred' = deferred \/ Queue(e, None)
    BY DEF EndValue, EndApplied, e
  <2> QED
    BY <2>1, <2>2, <2>3, <2>4, <2>5
<1>7. drops = <<>> /\ result = None
  BY <1>1 DEF Busy, Unfinished
<1>8. CASE EndValue \/ EndHooked
  <2>1. Ready(e, heap, Outer(frames), <<>>, FALSE)
    BY <1>1, <1>8, EndReady DEF e
  <2>2. EndValue => d = None
    BY <1>4 DEF EndValue, Fits, d
  <2>3. Handed(e, heap, Outer(frames))
    BY <1>1, <1>3, <1>5, <1>6, <1>7, <1>8, <2>2 DEF Handed, Entities
  <2> QED
    BY <2>1, <2>3, PutCovered
<1>9. CASE EndApplied
  <2>1. Ready(e, Copied, Outer(frames), <<d>>, NotesData(d))
    BY <1>1, <1>9, EndReady DEF e, d
  <2>2. d # None => Dropping(drops', d)
    <3>1. Parted(<<d>>, NotesData(d))
      BY <2>1, ReadyLands
    <3> QED
      BY <3>1, OneValue DEF Parted
  <2>3. /\ DOMAIN Copied = Entities
        /\ \A x \in Entities : /\ Copied[x].alive = heap[x].alive
                               /\ Copied[x].slots = IF x = e THEN heap[d].slots
                                                    ELSE heap[x].slots
    <3>0. top.what = "hooked" /\ d # None
      BY <1>9 DEF EndApplied, d
    <3>1. /\ SafeHeap(Copied) /\ Len(Copied) = Len(heap) /\ Kept(Copied)
          /\ \A x \in Entities : Copied[x].slots = IF x = e THEN heap[d].slots
                                                   ELSE heap[x].slots
      BY <1>1, <1>2, <3>0, CopiedKept DEF e, d, n
    <3>2. DOMAIN Copied = Entities
      BY <1>2, <3>1, LenProperties DEF SafeHeap, n
    <3> QED
      BY <3>1, <3>2 DEF Kept
  <2>4. \A j \in Slots : heap[e].slots[j] = None
    BY <1>4, <1>9 DEF Fits, EndApplied, e
  <2>5. \A x \in Entities, j \in Slots : heap[x].slots[j] \in {None, Copied[x].slots[j]}
    BY <2>3, <2>4
  <2>6. Handed(e, Copied, Outer(frames))
    BY <1>1, <1>3, <1>5, <1>6, <1>7, <2>2, <2>3, <2>5 DEF Handed
  <2> QED
    BY <2>1, <2>6, PutCovered
<1> QED
  BY <1>8, <1>9

LEMMA LegacyCovered ==
  ASSUME CInv, Fine, Unfinished, Covered, NEW class \in Classes, ReadLegacy(class)
  PROVE  Covered'
<1>1. /\ phase = "walk" /\ ~ Busy /\ UNCHANGED <<deferred, buffer>>
      /\ Register(fresh, "object") /\ user \subseteq user'
  BY DEF ReadLegacy, Token, Walking
<1>2. LInv /\ Len(heap) \in Nat /\ SafeIds(ids, Len(heap)) /\ Entities = 1 .. Len(heap)
      /\ fresh = Len(heap) + 1 /\ fresh \notin Entities /\ DOMAIN heap = Entities
      /\ SafeFrames(frames, Len(heap)) /\ fresh \in 1 .. fresh /\ fresh \in Nat
  BY Records DEF CInv, LInv
<1>3. PICK v, graph : Ready(fresh, graph, frames, <<>>, TRUE) /\ Added(graph, v)
  BY LegacyReady
<1>4. \A x : Identified(ids', x) <=> Identified(ids, x) \/ x = fresh
  <2>1. SafeIds(ids, fresh)
    BY <1>2, Grow
  <2> QED
    BY <1>1, <1>2, <2>1, RegisterOne
<1>5. Handed(fresh, graph, frames)
  <2>1. DOMAIN graph = 1 .. fresh /\ \A x \in Entities : x \in DOMAIN graph /\ graph[x] = heap[x]
    BY <1>2, <1>3 DEF Added
  <2>2. \A x \in DOMAIN graph : x \in Entities \/ Identified(ids', x)
    BY <1>2, <1>4, <2>1
  <2> QED
    BY <1>1, <1>4, <2>1, <2>2 DEF Handed, Busy, Unfinished
<1> QED
  BY <1>3, <1>5, PutCovered

LEMMA OpenedCovered ==
  ASSUME CInv, Covered, NEW kind, Opened(kind)
  PROVE  Covered'
<1> SUFFICES ASSUME NEW set, Covers(set)', NEW x \in Entities', heap'[x].alive
             PROVE  x \in set
  BY DEF Covered
<1>1. /\ Carries(heap', set)
      /\ \A e : e # None /\ Rooted(e)' => e \in set
  BY DEF Covers
<1>2. LInv /\ Len(heap) \in Nat /\ SafeIds(ids, Len(heap)) /\ Entities = 1 .. Len(heap)
      /\ fresh = Len(heap) + 1 /\ DOMAIN heap = Entities /\ fresh # None
  BY Records DEF CInv, LInv, None
<1>3. \A e : InFrames(frames, e) \/ e = fresh => InFrames(frames', e)
  <2>1. \A i \in DOMAIN frames : i \in DOMAIN frames'
    BY DEF Opened
  <2>2. Len(frames) + 1 \in DOMAIN frames' /\ frames'[Len(frames) + 1].entity = fresh
    BY DEF Opened
  <2> QED
    BY <2>1, <2>2 DEF Opened, InFrames
<1>4. \A e : Identified(ids, e) => Identified(ids', e)
  <2>1. CASE Register(fresh, kind)
    <3>1. SafeIds(ids, fresh) /\ fresh \in 1 .. fresh /\ fresh \in Nat
      <4>1. SafeFrames(frames, Len(heap)) /\ fresh \in Nat /\ Len(heap) <= fresh
        BY <1>2 DEF LInv
      <4> QED
        BY <1>2, <4>1, Grow
    <3> QED
      BY <2>1, <3>1, RegisterOne
  <2> QED
    BY <2>1 DEF Opened
<1>5. \A e : Rooted(e) => Rooted(e)'
  BY <1>3, <1>4 DEF Opened, Rooted, Named
<1>6. \A y \in Entities : y \in DOMAIN heap' /\ heap'[y] = heap[y]
  BY <1>2 DEF Opened
<1>7. Carries(heap, set)
  BY <1>1, <1>2, <1>6 DEF Carries
<1>8. Covers(set)
  BY <1>1, <1>5, <1>7 DEF Covers
<1>9. CASE x \in Entities
  BY <1>6, <1>8, <1>9 DEF Covered
<1>10. CASE x \notin Entities
  <2>1. x = fresh
    BY <1>2, <1>10 DEF Opened, Entities
  <2>2. Rooted(x)'
    BY <1>3, <2>1 DEF Rooted, Named
  <2> QED
    BY <1>1, <1>2, <2>1, <2>2
<1> QED
  BY <1>9, <1>10

LEMMA EndsCovered ==
  ASSUME CInv, Covered, Fail \/ Refuse \/ HooksDone
  PROVE  Covered'
<1>1. /\ LInv /\ HandInv /\ AllPinned /\ Len(heap) \in Nat /\ SafeIds(ids, Len(heap))
      /\ SafeQueue(deferred, Len(heap)) /\ ResultLive \in BOOLEAN
  BY Records DEF CInv, LInv, HandInv, ResultLive
<1>2. /\ UNCHANGED <<heap, user, buffer>> /\ drops = <<>>
  BY DEF Fail, Refuse, Abandon, HooksDone, Rest, Walking, Busy, CInv, Turns
<1>3. SameSlots(heap, heap')
  BY <1>2 DEF SameSlots
<1>4. ASSUME NEW value \in Seq(0 .. Len(heap)), Abandon(value), NEW e, e # None, Rooted(e)
      PROVE  Rooted(e)'
  <2>1. Identified(ids, e) => Pinned(ids, e)
    BY <1>1, PinsHold
  <2>2. Dropping(drops', e) \/ e \in user \/ e \in buffer
    BY <1>1, <1>2, <1>4, <2>1, AbandonDrops DEF Rooted, Named, Dropping
  <2> QED
    BY <1>2, <2>2 DEF Rooted, Named
<1>5. CASE Fail
  <2>1. Abandon(<<>>) /\ <<>> \in Seq(0 .. Len(heap))
    BY <1>5, NoValue DEF Fail
  <2> QED
    BY <1>3, <1>4, <2>1, RootsStay
<1>6. CASE Refuse
  <2>1. PICK i \in DOMAIN ids : Abandon(<<ids[i].entity>>)
    BY <1>6 DEF Refuse
  <2>2. ids[i].entity \in 0 .. Len(heap)
    <3>1. ids[i] \in [entity : 1 .. Len(heap), pinned : BOOLEAN]
      BY <1>1, LenProperties, ElementOfSeq DEF SafeIds
    <3> QED
      BY <1>1, <3>1
  <2> DEFINE e == ids[i].entity
  <2>3. Abandon(<<e>>) /\ e \in 0 .. Len(heap)
    BY <2>1, <2>2
  <2> HIDE DEF e
  <2>4. <<e>> \in Seq(0 .. Len(heap))
    BY <2>3
  <2> QED
    BY <1>3, <1>4, <2>3, <2>4, RootsStay
<1>7. CASE HooksDone
  <2> DEFINE live == ResultLive
             r == Releases(live)
  <2>1. drops' = <<>> \o r /\ result' = result /\ frames' = frames
    BY <1>7 DEF HooksDone, Destroy
  <2>2. live \in BOOLEAN
    BY <1>1
  <2> HIDE DEF live
  <2>3. /\ SafeDrops(r, Len(heap))
        /\ \A e : Dropping(r, e) <=> Pinned(ids, e) \/ (e # None /\ Queued(deferred, e))
    BY <1>1, <2>2, ReleasedValues
  <2> HIDE DEF r
  <2>4. drops' = r
    BY <2>1, <2>3, ConcatEmptySeq DEF SafeDrops
  <2>5. ASSUME NEW e, e # None, Rooted(e) PROVE Rooted(e)'
    <3>1. Identified(ids, e) => Pinned(ids, e)
      BY <1>1, PinsHold
    <3>2. \/ Dropping(drops', e) \/ e \in user \/ e \in buffer
          \/ result = e \/ InFrames(frames, e)
      BY <1>2, <2>3, <2>4, <2>5, <3>1 DEF Rooted, Named, Dropping
    <3> QED
      BY <1>2, <2>1, <3>2 DEF Rooted, Named
  <2> QED
    BY <1>3, <2>5, RootsStay
<1> QED
  BY <1>5, <1>6, <1>7

(* Steps that only move a root, or add one.                                *)
LEMMA MovedCovered ==
  ASSUME CInv, Covered,
         \/ CallDestructor \/ CollectDestructor \/ HookReturns
         \/ Keep \/ Forget \/ StartHooks \/ CallHook
         \/ Unwrap \/ Return \/ Discard \/ UNCHANGED vars
  PROVE  Covered'
<1>1. /\ LInv /\ HandInv /\ Len(heap) \in Nat /\ SafeDrops(drops, Len(heap))
      /\ result \in 0 .. Len(heap) /\ None \in 0 .. Len(heap)
  BY Records DEF CInv, HandInv, None
<1>2. SameSlots(heap, heap')
  <2>1. CASE CallDestructor \/ CollectDestructor \/ HookReturns
    <3>1. \E e : Destruct(e) \/ (HookReturns /\ e = called.object)
      BY <2>1 DEF CallDestructor, CollectDestructor
    <3> QED
      BY <1>1, <3>1, FlagsOnly
  <2>2. CASE UNCHANGED heap
    BY <2>2 DEF SameSlots
  <2> QED
    BY <2>1, <2>2 DEF Keep, Forget, Statement, StartHooks, CallHook, Unwrap, Return, Discard, vars,
                      graphVars
<1>3. ASSUME NEW e \in 0 .. Len(heap)
      PROVE  \A x : x # None /\ x = e => Dropping(DropAll(<<e>>), x)
  <2>1. <<e>> \in Seq(0 .. Len(heap))
    OBVIOUS
  <2>2. \A x : Dropping(DropAll(<<e>>), x) <=> x # None /\ In(<<e>>, x)
    BY <1>1, <2>1, DropAllSafe
  <2> QED
    BY <2>2, OneValue
<1>4. ASSUME result # None, drops' = Dropped(<<result>>) \/ drops' = <<Drop(result, FALSE)>>
      PROVE  Dropping(drops', result)
  <2> DEFINE r == result
             d == drops'
  <2>1. r \in 1 .. Len(heap)
    BY <1>1, <1>4 DEF None
  <2>2. d = Dropped(<<r>>) \/ \E b \in BOOLEAN : d = <<Drop(r, b)>>
    BY <1>4
  <2> HIDE DEF r, d
  <2>3. Dropping(d, r)
    BY <1>1, <2>1, <2>2, SingleDrop
  <2> QED
    BY <2>3 DEF r, d
<1>5. \A e : e # None /\ Rooted(e) => Rooted(e)'
  <2>1. CASE CallDestructor \/ CollectDestructor
    <3>1. UNCHANGED <<ids, deferred, frames, drops, result, buffer>> /\ user \subseteq user'
      BY <2>1 DEF CallDestructor, CollectDestructor, Destruct
    <3> QED
      BY <3>1 DEF Rooted, Named
  <2>2. CASE HookReturns \/ Keep \/ StartHooks \/ CallHook \/ UNCHANGED vars
    <3>1. UNCHANGED <<ids, deferred, frames, drops, result, buffer>> /\ user \subseteq user'
      BY <2>2 DEF HookReturns, Keep, Statement, StartHooks, CallHook, vars, graphVars, Rest
    <3> QED
      BY <3>1 DEF Rooted, Named
  <2>3. CASE Forget
    <3>1. PICK e \in user : user' = user \ {e} /\ drops' = DropAll(<<e>>)
      BY <2>3 DEF Forget
    <3>2. e \in 0 .. Len(heap)
      BY <1>1 DEF HandInv
    <3>3. UNCHANGED <<ids, deferred, frames, result, buffer>> /\ drops = <<>>
      BY <2>3 DEF Forget, Statement, Busy
    <3> QED
      BY <1>3, <3>1, <3>2, <3>3 DEF Rooted, Named, Dropping
  <2>4. CASE Unwrap \/ Return \/ Discard
    <3>1. /\ UNCHANGED <<ids, deferred, frames, user>> /\ buffer \subseteq buffer' /\ drops = <<>>
      BY <2>4 DEF Unwrap, Return, Discard, Rest, Busy
    <3>2. result # None => result' = result \/ Dropping(drops', result)
      <4>1. CASE result' = result \/ result = None
        BY <4>1
      <4>2. CASE drops' = DropAll(<<result>>)
        <5>1. \A x : x # None /\ x = result => Dropping(DropAll(<<result>>), x)
          BY <1>1, <1>3
        <5> QED
          BY <4>2, <5>1
      <4>3. CASE drops' = Dropped(<<result>>) \/ drops' = <<Drop(result, FALSE)>>
        BY <1>4, <4>3
      <4> QED
        BY <2>4, <4>1, <4>2, <4>3 DEF Unwrap, Return, Discard
    <3> QED
      BY <3>1, <3>2 DEF Rooted, Named, Dropping
  <2> QED
    BY <2>1, <2>2, <2>3, <2>4
<1> QED
  BY <1>2, <1>5, RootsStay

LEMMA AssignCovered ==
  ASSUME CInv, Covered, Assign
  PROVE  Covered'
<1>1. /\ LInv /\ HandInv /\ Len(heap) \in Nat /\ DOMAIN heap = Entities /\ Within(heap)
      /\ Entities = 1 .. Len(heap) /\ SafeHeap(heap)
  BY Records DEF CInv, LInv, HandInv, Entities
<1>2. /\ UNCHANGED <<ids, deferred, frames, result, buffer, user>> /\ drops = <<>>
  BY DEF Assign, Statement, Busy
<1>3. next \in DOMAIN deferred
  <2>1. phase = "hook"
    BY DEF Assign, Statement
  <2>2. next \in Nat \ {0} /\ next <= Len(deferred)
    BY <2>1 DEF CInv, Turns
  <2>3. DOMAIN deferred = 1 .. Len(deferred) /\ Len(deferred) \in Nat
    BY QueueBound DEF CInv
  <2> QED
    BY <2>2, <2>3
<1>4. PICK e \in Visible, k \in Slots, v \in Visible \cup {None} :
        /\ heap' = Write(heap, e, k, v)
        /\ drops' = DropAll(<<heap[e].slots[k]>>)
  BY DEF Assign
<1>5. e \in Entities /\ v \in Nat
  <2>1. Visible \subseteq 1 .. Len(heap)
    BY <1>1, <1>3, VisibleKnown
  <2> QED
    BY <1>1, <1>4, <2>1 DEF None
<1> DEFINE old == heap[e].slots[k]
<1>6. old \in 0 .. Len(heap) /\ drops' = DropAll(<<old>>)
  BY <1>1, <1>4, <1>5 DEF Within
<1> HIDE DEF old
<1>7. old # None => Dropping(drops', old)
  <2>1. <<old>> \in Seq(0 .. Len(heap))
    BY <1>6
  <2> QED
    BY <1>1, <1>6, <2>1, DropAllSafe, OneValue
<1>8. Wrote(heap', heap, e, k, v)
  BY <1>1, <1>4, <1>5, WriteOne
<1> SUFFICES ASSUME NEW set, Covers(set)', NEW x \in Entities', heap'[x].alive
             PROVE  x \in set
  BY DEF Covered
<1>9. /\ Carries(heap', set)
      /\ \A y : y # None /\ Rooted(y)' => y \in set
  BY DEF Covers
<1>10. \A y : y # None /\ Rooted(y) => y \in set
  BY <1>2, <1>9 DEF Rooted, Named, Dropping
<1>11. Carries(heap, set)
  <2>1. ASSUME NEW y \in Entities, NEW j \in Slots, y \in set, heap[y].slots[j] # None
        PROVE  heap[y].slots[j] \in set
    <3>1. CASE y = e /\ j = k
      <4>1. heap[y].slots[j] = old /\ Dropping(drops', old)
        BY <1>7, <2>1, <3>1 DEF old
      <4> QED
        BY <1>9, <2>1, <4>1 DEF Rooted, Named
    <3>2. CASE ~ (y = e /\ j = k)
      <4>1. heap'[y].slots[j] = heap[y].slots[j] /\ y \in DOMAIN heap'
        BY <1>1, <1>8, <3>2 DEF Wrote
      <4> QED
        BY <1>9, <2>1, <4>1 DEF Carries
    <3> QED
      BY <3>1, <3>2
  <2> QED
    BY <1>1, <2>1 DEF Carries
<1>12. x \in Entities /\ heap[x].alive
  BY <1>1, <1>8 DEF Wrote, Entities
<1> QED
  BY <1>10, <1>11, <1>12 DEF Covered, Covers

(* What the freed entity held is given up.                                 *)
LEMMA FreedCovered ==
  ASSUME CInv, Covered, FreeLast
  PROVE  Covered'
<1> DEFINE e == head.entity
           d == DropAll(heap[e].slots)
           g == Free({e})
<1>1. /\ Busy /\ heap' = g /\ buffer' = buffer \ {e}
      /\ drops' = d \o Tail(drops)
      /\ UNCHANGED <<ids, deferred, frames, result, user>>
  BY DEF FreeLast
<1>2. LInv /\ HandInv /\ DOMAIN heap = Entities /\ Len(heap) \in Nat /\ Within(heap)
  BY Records DEF CInv, HandInv, Entities
<1>3. /\ e \in Entities /\ SafeDrops(Tail(drops), Len(heap))
      /\ \A x : Dropping(drops, x) => x = e \/ Dropping(Tail(drops), x)
  BY <1>1, <1>2, HeadDropped
<1>4. heap[e].slots \in Seq(0 .. Len(heap))
      /\ \A x : In(heap[e].slots, x) <=> \E k \in Slots : heap[e].slots[k] = x
  BY <1>2, <1>3, SlotsInOrder
<1>5. /\ SafeDrops(d, Len(heap))
      /\ \A x : Dropping(d, x) <=> x # None /\ \E k \in Slots : heap[e].slots[k] = x
  BY <1>2, <1>4, DropAllSafe
<1>6. /\ DOMAIN g = Entities
      /\ \A x \in Entities : (x # e => g[x] = heap[x]) /\ (x = e => ~ g[x].alive)
  BY <1>2, FreeEffect
<1> HIDE DEF e, d, g
<1>7. \A x : Dropping(drops', x) <=> Dropping(d, x) \/ Dropping(Tail(drops), x)
  BY <1>1, <1>2, <1>3, <1>5, DropsJoin
<1> SUFFICES ASSUME NEW set, Covers(set)', NEW x \in Entities', heap'[x].alive
             PROVE  x \in set
  BY DEF Covered
<1>8. /\ Carries(heap', set)
      /\ \A y : y # None /\ Rooted(y)' => y \in set
  BY DEF Covers
<1> DEFINE t == set \cup {e}
<1>9. \A y : y # None /\ Rooted(y) => y \in t
  BY <1>1, <1>3, <1>7, <1>8 DEF Rooted, Named
<1>10. Carries(heap, t)
  <2>1. ASSUME NEW y \in Entities, NEW j \in Slots, y \in t, heap[y].slots[j] # None
        PROVE  heap[y].slots[j] \in set
    <3>1. CASE y = e
      <4>1. Dropping(drops', heap[y].slots[j])
        BY <1>5, <1>7, <2>1, <3>1
      <4> QED
        BY <1>8, <2>1, <4>1 DEF Rooted, Named
    <3>2. CASE y # e
      <4>1. heap'[y] = heap[y] /\ y \in DOMAIN heap' /\ y \in set
        BY <1>1, <1>6, <2>1, <3>2
      <4> QED
        BY <1>8, <2>1, <4>1 DEF Carries
    <3> QED
      BY <3>1, <3>2
  <2> HIDE DEF t
  <2>2. ASSUME NEW y \in Entities, NEW j \in Slots, y \in t, heap[y].slots[j] # None
        PROVE  heap[y].slots[j] \in t
    BY <2>1, <2>2 DEF t
  <2> QED
    BY <1>2, <2>2 DEF Carries
<1>11. x \in Entities /\ x # e /\ heap[x].alive
  BY <1>1, <1>6 DEF Entities
<1> HIDE DEF t
<1>12. x \in t
  BY <1>9, <1>10, <1>11 DEF Covered, Covers
<1> QED
  BY <1>11, <1>12 DEF t

(* A set in some order is all of the set.                                  *)
LEMMA InWholeOrder ==
  ASSUME NEW S, IsFiniteSet(S)
  PROVE  \A s \in S : \E i \in DOMAIN SE!SetToSeq(S) : SE!SetToSeq(S)[i] = s
<1> DEFINE q == SE!SetToSeq(S)
           n == Cardinality(S)
<1>1. q = CHOOSE f \in [1 .. n -> S] : SE!IsInjective(f)
  BY DEF SE!SetToSeq, Cardinality, SE!Cardinality
<1>2. \E f \in [1 .. n -> S] : SE!IsInjective(f)
  <2>1. PICK f : f \in Bijection(1 .. Cardinality(S), S)
    BY FS_CardinalityType DEF ExistsBijection
  <2> QED
    BY <2>1 DEF Bijection, Injection, IsInjective, SE!IsInjective
<1>3. n \in Nat
  BY FS_CardinalityType
<1> HIDE DEF q, n
<1>4. q \in [1 .. n -> S] /\ SE!IsInjective(q)
  BY <1>1, <1>2
<1>5. q \in Injection(1 .. n, S)
  BY <1>4 DEF Injection, IsInjective, SE!IsInjective
<1>6. Cardinality(1 .. n) = n
  BY <1>3, FS_Interval
<1>7. Cardinality(S) = n
  BY DEF n
<1>8. q \in Surjection(1 .. n, S)
  BY <1>5, <1>6, <1>7, FS_Injection
<1>9. DOMAIN q = 1 .. n
  BY <1>4
<1> QED
  BY <1>8, <1>9 DEF Surjection, q

LEMMA AllLeave ==
  ASSUME LInv, HandInv, NEW s \in LeavingSlots
  PROVE  Dropping(Dropped(LeavingOrder), heap[s[1]].slots[s[2]])
<1> DEFINE order == SE!SetToSeq(LeavingSlots)
           q == LeavingOrder
<1>1. IsFiniteSet(LeavingSlots)
  <2>1. IsFiniteSet(Entities \X Slots)
    BY Records, FS_Product
  <2>2. LeavingSlots \in SUBSET (Entities \X Slots)
    BY SuspectsReached DEF LeavingSlots
  <2> QED
    BY <2>1, <2>2, FS_Subset
<1>2. PICK i \in DOMAIN order : order[i] = s
  BY <1>1, InWholeOrder
<1> HIDE DEF order
<1>3. q = [j \in DOMAIN order |-> heap[order[j][1]].slots[order[j][2]]]
  BY DEF LeavingOrder, order
<1> HIDE DEF q
<1>4. i \in DOMAIN q /\ q[i] = heap[s[1]].slots[s[2]]
  BY <1>2, <1>3
<1>5. i \in DOMAIN Dropped(q) /\ Dropped(q)[i].entity = q[i]
  BY <1>4 DEF Dropped, Drop
<1> QED
  BY <1>4, <1>5 DEF Dropping, q

(* The collector: what its roots reach and it does not free is held by     *)
(* something else.                                                         *)
LEMMA CollectedCovered ==
  ASSUME CInv, Covered, Collect
  PROVE  Covered'
<1> DEFINE d == Dropped(LeavingOrder)
           ext == {x \in Suspects : Refcount(x) > SlotsThatHold(Suspects, x)}
           g == Free(Garbage)
<1>1. /\ heap' = g /\ drops' = d \o drops
      /\ UNCHANGED <<ids, deferred, frames, result, user>>
  BY DEF Collect, LeavingOrder, LeavingSlots
<1>2. /\ LInv /\ HandInv /\ AllPinned /\ DOMAIN heap = Entities /\ Len(heap) \in Nat
      /\ SafeDrops(drops, Len(heap)) /\ buffer \subseteq Entities
  BY Records DEF CInv, HandInv, Entities
<1>3. /\ SafeDrops(d, Len(heap))
      /\ \A s \in LeavingSlots : Dropping(d, heap[s[1]].slots[s[2]])
  BY <1>2, Leavings, AllLeave
<1>4. /\ DOMAIN g = Entities
      /\ \A x \in Entities : (x \notin Garbage => g[x] = heap[x])
                             /\ (x \in Garbage => ~ g[x].alive)
  BY <1>2, FreeEffect
<1> HIDE DEF d, g
<1>5. \A x : Dropping(drops', x) <=> Dropping(d, x) \/ Dropping(drops, x)
  BY <1>1, <1>2, <1>3, DropsJoin
<1>6. /\ Garbage = Suspects \ Reach(ext) /\ Suspects \in SUBSET Entities
      /\ Garbage \subseteq Entities
  BY <1>2, SuspectsReached DEF Garbage
<1>7. /\ buffer \subseteq Suspects
      /\ \A x \in Suspects, k \in Slots : heap[x].slots[k] # None => heap[x].slots[k] \in Suspects
  <2>1. \A x \in Entities : Held(x) \subseteq Entities
        /\ \A e : e \in Held(x) <=> e # None /\ \E k \in Slots : heap[x].slots[k] = e
    BY <1>2, HeldWithin DEF HandInv
  <2>2. ASSUME NEW x \in Suspects, NEW y \in Held(x) PROVE y \in Suspects
    <3>1. ASSUME NEW s \in SUBSET Entities, buffer \subseteq s, Closed(s) PROVE y \in s
      BY <2>2, <3>1 DEF Suspects, Reach, Closed
    <3> QED
      BY <1>6, <2>1, <2>2, <3>1 DEF Suspects, Reach
  <2>3. buffer \subseteq Suspects
    BY <1>2 DEF Suspects, Reach
  <2> QED
    BY <1>6, <2>1, <2>2, <2>3
<1> SUFFICES ASSUME NEW set, Covers(set)', NEW x \in Entities', heap'[x].alive
             PROVE  x \in set
  BY DEF Covered
<1>8. /\ Carries(heap', set)
      /\ \A y : y # None /\ Rooted(y)' => y \in set
  BY DEF Covers
<1>9. \A y : y # None /\ Named(y) => y \in set
  BY <1>1, <1>5, <1>8 DEF Rooted, Named
<1>10. \A y \in Entities \ Garbage : y \in DOMAIN heap' /\ heap'[y] = heap[y]
  BY <1>1, <1>4
<1>11. \A y \in Entities : heap[y].alive => y \in set \cup Suspects
  <2> DEFINE t == set \cup Suspects
  <2>1. Carries(heap, t)
    <3>1. ASSUME NEW y \in Entities, NEW j \in Slots, y \in t, heap[y].slots[j] # None
          PROVE  heap[y].slots[j] \in t
      <4>1. CASE y \in Suspects
        BY <1>7, <3>1, <4>1
      <4>2. CASE y \notin Suspects
        <5>1. y \in set /\ y \in DOMAIN heap' /\ heap'[y] = heap[y]
          BY <1>6, <1>10, <3>1, <4>2
        <5> QED
          BY <1>8, <3>1, <5>1 DEF Carries
      <4> QED
        BY <4>1, <4>2
    <3> HIDE DEF t
    <3> QED
      BY <1>2, <3>1 DEF Carries
  <2>2. \A y : y # None /\ Rooted(y) => y \in t
    BY <1>7, <1>9 DEF Rooted
  <2> HIDE DEF t
  <2>3. \A y \in Entities : heap[y].alive => y \in t
    BY <2>1, <2>2 DEF Covered, Covers
  <2> QED
    BY <2>3 DEF t
<1>12. ext \subseteq set
  <2>1. ASSUME NEW y \in ext PROVE y \in set
    <3>1. y \in Suspects /\ Refcount(y) > SlotsThatHold(Suspects, y) /\ y \in Entities
      BY <1>6
    <3>2. Named(y) \/ \E z \in Entities \ Suspects, k \in Slots : heap[z].slots[k] = y
      BY <1>2, <1>6, <3>1, HeldElsewhere
    <3>3. y # None
      BY <1>2, <3>1, Records DEF None
    <3>4. CASE \E z \in Entities \ Suspects, k \in Slots : heap[z].slots[k] = y
      <4>1. PICK z \in Entities \ Suspects, k \in Slots : heap[z].slots[k] = y
        BY <3>4
      <4>2. heap[z].alive
        <5>1. heap[z].alive \/ heap[z].slots = Empty
          BY <4>1 DEF CInv, AliveInv
        <5> QED
          BY <3>3, <4>1, <5>1 DEF Empty
      <4>3. z \in set /\ z \in DOMAIN heap' /\ heap'[z] = heap[z]
        BY <1>6, <1>10, <1>11, <4>1, <4>2
      <4> QED
        BY <1>8, <3>3, <4>1, <4>3 DEF Carries
    <3> QED
      BY <1>9, <3>2, <3>3, <3>4
  <2> HIDE DEF ext
  <2> QED
    BY <2>1
<1>13. Reach(ext) \subseteq set \cup Garbage
  <2> DEFINE t == (set \cup Garbage) \cap Entities
  <2>1. ext \subseteq t /\ t \in SUBSET Entities
    BY <1>6, <1>12
  <2> HIDE DEF ext
  <2>2. ASSUME NEW y \in t, NEW z \in Held(y) PROVE z \in t
    <3>1. PICK k \in Slots : heap[y].slots[k] = z
      BY <2>2 DEF Held
    <3>2. z # None /\ z \in Entities /\ y \in Entities
      BY <1>2, <2>2, HeldWithin DEF HandInv, Held
    <3>3. CASE y \in Garbage /\ z \notin Garbage
      <4> DEFINE s == <<y, k>>
      <4>1. s \in LeavingSlots /\ heap[s[1]].slots[s[2]] = z
        BY <3>1, <3>2, <3>3 DEF LeavingSlots
      <4> HIDE DEF s
      <4>2. Dropping(d, z)
        BY <1>3, <4>1
      <4>3. Dropping(drops', z)
        BY <1>5, <4>2
      <4>4. z \in set
        BY <1>8, <3>2, <4>3 DEF Rooted, Named
      <4> QED
        BY <3>2, <4>4
    <3>4. CASE y \notin Garbage
      <4>1. y \in set /\ y \in DOMAIN heap' /\ heap'[y] = heap[y]
        BY <1>10, <2>2, <3>2, <3>4
      <4>2. z \in set
        BY <1>8, <3>1, <3>2, <4>1 DEF Carries
      <4> QED
        BY <3>2, <4>2
    <3> QED
      BY <3>2, <3>3, <3>4
  <2>3. Closed(t)
    <3> HIDE DEF t
    <3> QED
      BY <2>2 DEF Closed
  <2> HIDE DEF t
  <2>4. Reach(ext) \subseteq t
    BY <2>1, <2>3 DEF Reach
  <2> QED
    BY <2>4 DEF t
<1>14. x \in Entities /\ x \notin Garbage
  BY <1>1, <1>4 DEF Entities
<1>15. heap[x].alive
  BY <1>10, <1>14
<1> HIDE DEF ext
<1>16. x \in set \cup Suspects
  BY <1>11, <1>14, <1>15
<1> QED
  BY <1>6, <1>13, <1>14, <1>16

(* A decode of nothing but arrays makes no cycles: an array is not in a    *)
(* set that carries what it holds, and an array that is still being filled *)
(* is held by none and has no id.                                          *)
AllArrays == \A x \in Entities : heap[x].kind = "array"
Below(graph, e, set) ==
  /\ Carries(graph, set) /\ e \notin set
  /\ \A k \in Slots : graph[e].slots[k] # None => graph[e].slots[k] \in set
Trees ==
  AllArrays =>
    /\ \A e \in Entities : \E set : Below(heap, e, set)
    /\ \A i \in DOMAIN frames :
         ~ HeldIn(heap, frames[i].entity) /\ ~ Identified(ids, frames[i].entity)

(* Only the caller's discarding offers nothing to the collector; what it   *)
(* discards was offered by the decoder then, or is made of arrays.         *)
Unrooted ==
  \A i \in DOMAIN drops : ~ drops[i].rooted /\ ~ drops[i].pin =>
    /\ phase = "discarded" /\ Len(drops) = 1
    /\ orphan \/ next # 1 \/ drops[i].entity \in buffer \/ AllArrays

(* A reference that was not the last: what it named is held elsewhere.     *)
LEMMA SurvivorCovered ==
  ASSUME CInv, Fine, FastPins, Trees, Unrooted, phase # "discarded" \/ (~ orphan /\ next = 1),
         Covered, Survives
  PROVE  Covered'
<1> DEFINE e == head.entity
<1>1. /\ Busy /\ Refcount(e) > 1 /\ UNCHANGED <<heap, ids, deferred, frames, result, user>>
      /\ drops' = Tail(drops)
      /\ buffer' = IF head.rooted THEN buffer \cup Offered(e) ELSE buffer
  BY DEF Survives, graphVars
<1>2. LInv /\ HandInv /\ AliveInv /\ AllPinned /\ DOMAIN heap = Entities /\ Within(heap)
  BY DEF CInv, HandInv, Entities
<1>3. /\ e \in Entities /\ e # None
      /\ \A x : Dropping(drops, x) => x = e \/ Dropping(Tail(drops), x)
      /\ head = drops[1] /\ 1 \in DOMAIN drops
  BY <1>1, <1>2, HeadDropped, Records DEF None
<1>4. \/ HeldIn(heap, e) \/ Dropping(Tail(drops), e) \/ Identified(ids, e) \/ Queued(deferred, e)
      \/ InFrames(frames, e) \/ result = e \/ e \in user
  BY <1>1, <1>2, MoreHolders
<1>16. PICK drop : drop = e
  OBVIOUS
<1> HIDE DEF e
<1>5. SameSlots(heap, heap')
  BY <1>1 DEF SameSlots
<1>6. buffer \subseteq buffer'
  BY <1>1
<1>7. \A x : Named(x) => x = e \/ Named(x)'
  BY <1>1, <1>3 DEF Named
<1>8. ASSUME e \in buffer' PROVE Covered'
  <2>1. \A x : x # None /\ Rooted(x) => Rooted(x)'
    BY <1>6, <1>7, <1>8 DEF Rooted
  <2> QED
    BY <1>5, <2>1, RootsStay
<1>9. ASSUME NEW set, Covers(set)'
      PROVE  /\ Carries(heap, set) /\ \A x : x # None /\ Rooted(x) => x = e \/ x \in set
             /\ \A x \in buffer' : x # None => x \in set
             /\ e \in set => Covers(set)
             /\ HeldIn(heap, e) \/ e \in set
  <2>1. Carries(heap, set) /\ \A x : x # None /\ Rooted(x)' => x \in set
    BY <1>1, <1>9 DEF Covers
  <2>2. \A x : x # None /\ Rooted(x) => x = e \/ x \in set
    BY <1>6, <1>7, <2>1 DEF Rooted
  <2>3. Named(drop)' \/ HeldIn(heap, drop)
    BY <1>1, <1>4, <1>16 DEF Named
  <2>4. drop # None /\ Named(drop)' => drop \in set
    BY <2>1 DEF Rooted
  <2>5. \A x \in buffer' : x # None => x \in set
    BY <2>1 DEF Rooted
  <2> QED
    BY <1>3, <1>16, <2>1, <2>2, <2>3, <2>4, <2>5 DEF Covers
<1>10. ASSUME NEW set, Covers(set)', NEW more, ~ Covers(set),
              Carries(heap, more), \A x : x # None /\ Rooted(x) => x \in more
       PROVE  \E x \in Entities, k \in Slots : heap[x].slots[k] = e /\ x \in more
  <2>1. PICK x \in Entities, k \in Slots : heap[x].slots[k] = e
    BY <1>2, <1>9, <1>10 DEF HeldIn
  <2>2. heap[x].alive
    <3>1. heap[x].alive \/ heap[x].slots = Empty
      BY <1>2, <2>1 DEF AliveInv
    <3> QED
      BY <1>3, <2>1, <3>1 DEF Empty
  <2> QED
    BY <1>10, <2>1, <2>2 DEF Covered, Covers
<1>11. ASSUME NEW set, Covers(set)', Covers(set), NEW x \in Entities', heap'[x].alive
       PROVE  x \in set
  BY <1>1, <1>11 DEF Covered, Entities
<1>12. CASE head.rooted /\ e \notin Kind("reference", heap)
  BY <1>1, <1>3, <1>8, <1>12 DEF Offered
<1>13. CASE head.rooted /\ e \in Kind("reference", heap)
  <2> SUFFICES ASSUME NEW set, Covers(set)' PROVE Covers(set)
    BY <1>11 DEF Covered
  <2> SUFFICES ASSUME ~ Covers(set) PROVE FALSE
    OBVIOUS
  <2> DEFINE more == set \cup {e}
  <2>1. \A k \in Slots : heap[e].slots[k] # None => heap[e].slots[k] \in set
    <3>1. Held(e) \subseteq buffer'
      BY <1>1, <1>13 DEF Offered
    <3> QED
      BY <1>9, <3>1 DEF Held
  <2>2. Carries(heap, more)
    BY <1>9, <2>1 DEF Carries
  <2>3. \A x : x # None /\ Rooted(x) => x \in more
    BY <1>9
  <2> HIDE DEF more
  <2>4. PICK x \in Entities, k \in Slots : heap[x].slots[k] = e /\ x \in more
    BY <1>10, <2>2, <2>3
  <2>5. x # e
    BY <1>2, <1>13, <2>4 DEF Fine, Flat, Kind
  <2>6. e \in set
    BY <1>2, <1>3, <1>9, <2>4, <2>5 DEF Carries, more
  <2> QED
    BY <1>9, <2>6
<1>14. CASE head.pin /\ ~ head.rooted
  <2>1. Spans(heap, <<>>, result, {})
    BY <1>3, <1>14 DEF FastPins
  <2> SUFFICES ASSUME NEW set, Covers(set)', NEW x \in Entities', heap'[x].alive
               PROVE  x \in set
    BY DEF Covered
  <2>2. x \in Entities /\ heap[x].alive
    BY <1>1 DEF Entities
  <2> DEFINE part == set \cap Entities
  <2>3. Shut(heap, part)
    <3>1. ASSUME NEW y \in Entities, NEW k \in Slots, y \in set
          PROVE  heap[y].slots[k] \in (set \cap Entities) \cup {None}
      <4>1. heap[y].slots[k] \in Entities \cup {None}
        <5>1. Entities = 1 .. Len(heap) /\ Len(heap) \in Nat /\ heap[y].slots[k] \in 0 .. Len(heap)
          BY <1>2, Records DEF Within
        <5> QED
          BY <5>1 DEF None
      <4>2. heap[y].slots[k] # None => heap[y].slots[k] \in set
        BY <1>2, <1>9, <3>1 DEF Carries
      <4> QED
        BY <4>1, <4>2
    <3> QED
      BY <3>1 DEF Shut
  <2>4. Has(part, <<>>, result)
    <3>1. result \in Entities \cup {None}
      <4>1. Entities = 1 .. Len(heap) /\ Len(heap) \in Nat /\ result \in 0 .. Len(heap)
        BY <1>2, Records DEF HandInv
      <4> QED
        BY <4>1 DEF None
    <3>2. result # None => result \in set
      <4>1. Rooted(result)'
        BY <1>1 DEF Rooted, Named
      <4>2. \A y : y # None /\ Rooted(y)' => y \in set
        BY DEF Covers
      <4> QED
        BY <1>1, <4>2 DEF Rooted, Named
    <3> QED
      BY <3>1, <3>2 DEF Has
  <2>5. part \in SUBSET DOMAIN heap
    BY <1>2
  <2> HIDE DEF part
  <2>6. x \in part \cup {}
    BY <1>2, <2>1, <2>2, <2>3, <2>4, <2>5 DEF Spans
  <2> QED
    BY <2>6 DEF part
<1>15. CASE ~ head.pin /\ ~ head.rooted
  <2>1. e \in buffer \/ AllArrays
    BY <1>3, <1>15 DEF Unrooted, e
  <2>2. CASE e \in buffer
    BY <1>6, <1>8, <2>2
  <2>3. CASE AllArrays
    <3>1. PICK under : Below(heap, e, under)
      BY <1>3, <2>3 DEF Trees
    <3> SUFFICES ASSUME NEW set, Covers(set)' PROVE Covers(set)
      BY <1>11 DEF Covered
    <3> SUFFICES ASSUME ~ Covers(set) PROVE FALSE
      OBVIOUS
    <3> DEFINE more == set \cup under \cup {e}
    <3>2. Carries(heap, more)
      BY <1>9, <3>1 DEF Carries, Below
    <3>3. \A x : x # None /\ Rooted(x) => x \in more
      BY <1>9
    <3> HIDE DEF more
    <3>4. PICK x \in Entities, k \in Slots : heap[x].slots[k] = e /\ x \in more
      BY <1>10, <3>2, <3>3
    <3>5. x # e /\ x \notin under
      BY <1>2, <1>3, <3>1, <3>4 DEF Below, Carries
    <3>6. e \in set
      BY <1>2, <1>3, <1>9, <3>4, <3>5 DEF Carries, more
    <3> QED
      BY <1>9, <3>6
  <2> QED
    BY <2>1, <2>2, <2>3
<1> QED
  BY <1>12, <1>13, <1>14, <1>15

----------------------------------------------------------------------------
(* Steps that make no entity and write no slot, but may empty some.        *)
Pruned ==
  /\ DOMAIN heap' = Entities
  /\ \A x \in Entities :
       /\ heap'[x].kind = heap[x].kind
       /\ \A k \in Slots : heap'[x].slots[k] \in {None, heap[x].slots[k]}

LEMMA Prunes ==
  ASSUME CInv,
         \/ Survives \/ CallDestructor \/ FreeLast \/ CollectDestructor \/ Collect
         \/ Fail \/ Refuse \/ StartHooks \/ CallHook \/ Keep \/ Forget \/ HookReturns
         \/ HooksDone \/ Unwrap \/ Return \/ Discard \/ UNCHANGED vars
  PROVE  Pruned
<1>1. LInv /\ HandInv /\ DOMAIN heap = Entities
  BY DEF CInv, Entities
<1>2. CASE \/ CallDestructor \/ CollectDestructor \/ HookReturns
  <2>1. \E e : Destruct(e) \/ (HookReturns /\ e = called.object)
    BY <1>2 DEF CallDestructor, CollectDestructor
  <2>2. SameSlots(heap, heap')
    BY <1>1, <2>1, FlagsOnly
  <2> QED
    BY <1>1, <2>2 DEF SameSlots, Pruned
<1>3. CASE FreeLast \/ Collect
  <2>2. PICK set : heap' = Free(set)
    BY <1>3 DEF FreeLast, Collect
  <2> DEFINE g == Free(set)
  <2>3. /\ DOMAIN g = Entities
        /\ \A x \in Entities :
                  /\ x \notin set => g[x] = heap[x]
                  /\ x \in set => ~ g[x].alive /\ g[x].slots = Empty
                  /\ g[x].kind = heap[x].kind /\ g[x].class = heap[x].class
    BY <1>1, FreeEffect
  <2>4. heap' = g
    BY <2>2
  <2> HIDE DEF g
  <2> QED
    BY <1>1, <2>3, <2>4 DEF Empty, Pruned
<1>4. CASE heap' = heap
  BY <1>1, <1>4 DEF Pruned
<1>5. \/ heap' = heap \/ CallDestructor \/ CollectDestructor \/ HookReturns \/ FreeLast \/ Collect
  BY DEF Survives, Fail, Refuse, Abandon, StartHooks, CallHook, Keep, Forget, Statement, HooksDone,
         Unwrap, Return, Discard, vars, graphVars
<1> QED
  BY <1>2, <1>3, <1>4, <1>5

(* A value lands in a heap whose entities keep their kinds.                *)
LEMMA LandedKinds ==
  ASSUME NEW v, NEW graph, NEW stack, NEW given, NEW noted, Ready(v, graph, stack, given, noted)
  PROVE  DOMAIN heap' = DOMAIN graph /\ \A x \in DOMAIN graph : heap'[x].kind = graph[x].kind
BY ReadyLands DEF Landed, Wrote

(* An entity stays what it is.                                             *)
LEMMA KindsStay ==
  ASSUME CInv, Fine, [Next]_vars
  PROVE  \A x \in Entities : x \in Entities' /\ heap'[x].kind = heap[x].kind
<1>1. LInv /\ HandInv /\ AliveInv /\ DOMAIN heap = Entities /\ Len(heap) \in Nat
      /\ Entities = 1 .. Len(heap) /\ fresh = Len(heap) + 1
  BY Records DEF CInv, Entities
<1>2. CASE Pruned
  BY <1>2 DEF Pruned, Entities
<1>3. CASE ReadScalar \/ ReadBackReference
  <2>1. \E v, stack, given, noted : Ready(v, heap, stack, given, noted)
    BY <1>3, ReadReady
  <2> QED
    BY <1>1, <2>1, LandedKinds DEF Entities
<1>4. CASE EndValue \/ EndHooked \/ EndApplied
  <2>1. frames # <<>>
    BY <1>4 DEF EndValue, EndHooked, EndApplied
  <2>2. CASE EndValue \/ EndHooked
    BY <1>1, <2>1, <2>2, EndReady, LandedKinds DEF Entities
  <2>3. CASE EndApplied
    <3>1. top.what = "hooked" /\ top.data # None
      BY <2>3 DEF EndApplied
    <3>2. Ready(top.entity, Copied, Outer(frames), <<top.data>>, NotesData(top.data))
      BY <2>1, <2>3, EndReady
    <3>3. DOMAIN heap' = DOMAIN Copied /\ \A x \in DOMAIN Copied : heap'[x].kind = Copied[x].kind
      BY <3>2, LandedKinds
    <3>4. Kept(Copied)
      <4>1. SafeFrames(frames, Len(heap)) /\ Within(heap)
        BY <1>1 DEF LInv, HandInv
      <4> QED
        BY <1>1, <2>1, <3>1, <4>1, CopiedKept
    <3> QED
      BY <3>3, <3>4 DEF Kept, Entities
  <2> QED
    BY <1>4, <2>2, <2>3
<1>5. CASE \E class \in Classes : ReadLegacy(class)
  <2>1. PICK v, graph : Ready(fresh, graph, frames, <<>>, TRUE) /\ Added(graph, v)
    BY <1>5, LegacyReady
  <2>2. DOMAIN heap' = DOMAIN graph /\ \A x \in DOMAIN graph : heap'[x].kind = graph[x].kind
    BY <2>1, LandedKinds
  <2> QED
    BY <1>1, <2>1, <2>2 DEF Added, Entities
<1>6. CASE (\E class \in Classes : BeginObject(class)) \/ BeginReference \/ BeginArray
  <2>1. \E kind : Opened(kind)
    BY <1>6, Opens
  <2> QED
    BY <1>1, <2>1 DEF Opened, Entities
<1>7. CASE Assign
  <2>1. PICK e, k, v : heap' = Write(heap, e, k, v)
    BY <1>7 DEF Assign
  <2>2. DOMAIN heap' = DOMAIN heap
    BY <2>1 DEF Write
  <2>3. ASSUME NEW x \in DOMAIN heap PROVE heap'[x].kind = heap[x].kind
    <3> DEFINE r == [heap[e] EXCEPT !.slots[k] = v]
    <3>1. heap'[x] = IF x = e THEN r ELSE heap[x]
      BY <2>1, <2>3 DEF Write
    <3>2. x = e => r.kind = heap[x].kind
      <4>1. heap[x] \in Entity
        BY <1>1, <2>3, Records
      <4> QED
        BY <4>1 DEF Entity
    <3> HIDE DEF r
    <3> QED
      BY <3>1, <3>2
  <2> QED
    BY <2>2, <2>3 DEF Entities
<1> QED
  BY <1>2, <1>3, <1>4, <1>5, <1>6, <1>7, Prunes DEF Next

(* Until the pins are released every object and every reference has an id. *)
HaveIds ==
  phase \in {"walk", "walked", "hooks", "hook"} =>
    \A x \in Entities : heap[x].kind # "array" => Identified(ids, x)

LEMMA StepIds ==
  ASSUME CInv, Fine, HaveIds, [Next]_vars
  PROVE  HaveIds'
<1>1. LInv /\ HandInv /\ AliveInv /\ DOMAIN heap = Entities /\ Len(heap) \in Nat
      /\ Entities = 1 .. Len(heap) /\ fresh = Len(heap) + 1 /\ SafeIds(ids, Len(heap))
      /\ SafeIds(ids, fresh) /\ fresh \in 1 .. fresh /\ fresh \in Nat
  <2>1. LInv /\ Len(heap) \in Nat /\ fresh = Len(heap) + 1
    BY Records DEF CInv
  <2>2. SafeIds(ids, Len(heap)) /\ SafeFrames(frames, Len(heap)) /\ fresh \in Nat
        /\ Len(heap) <= fresh
    BY <2>1 DEF LInv
  <2>3. SafeIds(ids, fresh)
    BY <2>1, <2>2, Grow
  <2> QED
    BY <2>1, <2>2, <2>3, Records DEF CInv, Entities
<1>2. \A x \in Entities : x \in Entities' /\ heap'[x].kind = heap[x].kind
  BY KindsStay
<1>3. CASE UNCHANGED ids /\ Entities' = Entities /\ phase \in {"walk", "walked", "hooks", "hook"}
  BY <1>2, <1>3 DEF HaveIds
<1>4. CASE phase' \notin {"walk", "walked", "hooks", "hook"}
  BY <1>4 DEF HaveIds
<1>5. CASE \/ Survives \/ CallDestructor \/ FreeLast \/ CollectDestructor \/ Collect
           \/ Fail \/ Refuse \/ StartHooks \/ CallHook \/ Keep \/ Forget \/ HookReturns
           \/ HooksDone \/ Unwrap \/ Return \/ Discard \/ UNCHANGED vars
  <2>1. Entities' = Entities
    BY <1>5, Prunes DEF Pruned, Entities
  <2>2. CASE UNCHANGED <<ids, phase>>
    BY <1>3, <1>4, <2>1, <2>2
  <2>3. CASE \/ Fail \/ Refuse \/ HooksDone \/ Unwrap \/ Return \/ Discard
    <3>1. phase' \notin {"walk", "walked", "hooks", "hook"}
      BY <2>3 DEF Fail, Refuse, Abandon, Destroy, HooksDone, Unwrap, Return, Discard
    <3> QED
      BY <1>4, <3>1
  <2>4. CASE StartHooks \/ CallHook \/ HookReturns
    <3>1. UNCHANGED ids /\ phase \in {"walk", "walked", "hooks", "hook"}
      BY <2>4 DEF StartHooks, CallHook, HookReturns, graphVars
    <3> QED
      BY <1>3, <2>1, <3>1
  <2> QED
    BY <1>5, <2>2, <2>3, <2>4
       DEF Survives, CallDestructor, FreeLast, CollectDestructor, Collect, Keep, Forget,
           Statement, vars, graphVars
<1>6. CASE Assign
  <2>1. UNCHANGED ids /\ phase = "hook"
    BY <1>6 DEF Assign, Statement
  <2>2. Entities' = Entities
    BY <1>6 DEF Assign, Write, Entities
  <2> QED
    BY <1>3, <2>1, <2>2
<1>7. CASE ReadScalar \/ ReadBackReference
  <2>1. UNCHANGED ids /\ phase = "walk"
    BY <1>7 DEF ReadScalar, ReadBackReference, Token, Walking
  <2>2. \E v, stack, given, noted : Ready(v, heap, stack, given, noted)
    BY <1>7, ReadReady
  <2>3. Entities' = Entities
    BY <2>2, LandedKinds DEF Entities
  <2> QED
    BY <1>3, <2>1, <2>3
<1>8. CASE EndValue \/ EndHooked \/ EndApplied
  <2>1. phase = "walk" /\ frames # <<>>
    BY <1>8 DEF EndValue, EndHooked, EndApplied, Token, Walking
  <2>2. SafeFrames(frames, Len(heap)) /\ Within(heap)
    BY <1>1 DEF LInv, HandInv
  <2>3. Entities' = Entities
    <3>1. CASE EndValue \/ EndHooked
      <4>1. Ready(top.entity, heap, Outer(frames), <<>>, FALSE)
        BY <2>1, <3>1, EndReady
      <4>2. DOMAIN heap' = DOMAIN heap
        BY <4>1, LandedKinds
      <4> QED
        BY <4>2 DEF Entities
    <3>2. CASE EndApplied
      <4>1. Ready(top.entity, Copied, Outer(frames), <<top.data>>, NotesData(top.data))
        BY <2>1, <3>2, EndReady
      <4>2. DOMAIN heap' = DOMAIN Copied
        BY <4>1, LandedKinds
      <4>3. DOMAIN Copied = DOMAIN heap
        BY DEF Copied
      <4> QED
        BY <4>2, <4>3 DEF Entities
    <3> QED
      BY <1>8, <3>1, <3>2
  <2>4. \A x : Identified(ids, x) => Identified(ids', x)
    <3>1. CASE UNCHANGED ids
      BY <3>1
    <3>2. CASE Register(top.entity, "array")
      <4>1. top.entity \in 1 .. Len(heap)
        BY <1>1, <2>1, <2>2, FramesPoint DEF top
      <4> QED
        BY <1>1, <3>2, <4>1, RegisterOne
    <3> QED
      BY <1>8, <3>1, <3>2 DEF EndValue, EndHooked, EndApplied
  <2> QED
    BY <1>2, <2>1, <2>3, <2>4 DEF HaveIds
<1>9. CASE \E class \in Classes : ReadLegacy(class)
  <2>1. phase = "walk" /\ Register(fresh, "object")
    BY <1>9 DEF ReadLegacy, Token, Walking
  <2>2. PICK graph : DOMAIN heap' = DOMAIN graph /\ DOMAIN graph = 1 .. fresh
    BY <1>9, LegacyReady, LandedKinds DEF Added
  <2>3. \A x \in Entities' : x \in Entities \/ x = fresh
    BY <1>1, <2>2 DEF Entities
  <2>4. \A x : Identified(ids', x) <=> Identified(ids, x) \/ x = fresh
    BY <1>1, <2>1, RegisterOne
  <2> QED
    BY <1>2, <2>1, <2>3, <2>4 DEF HaveIds
<1>10. CASE (\E class \in Classes : BeginObject(class)) \/ BeginReference \/ BeginArray
  <2>1. phase = "walk"
    BY <1>10 DEF BeginObject, BeginReference, BeginArray, Token, Walking
  <2>2. PICK kind : Opened(kind)
    BY <1>10, Opens
  <2>3. \A x \in Entities' : x \in Entities \/ x = fresh
    BY <1>1, <2>2 DEF Entities, Opened
  <2>4. /\ \A x : Identified(ids, x) => Identified(ids', x)
        /\ kind # "array" => Identified(ids', fresh)
    <3>1. CASE Register(fresh, kind)
      BY <1>1, <3>1, RegisterOne
    <3>2. CASE kind = "array" /\ UNCHANGED ids
      BY <3>2
    <3> QED
      BY <2>2, <3>1, <3>2 DEF Opened
  <2>5. heap'[fresh].kind = kind
    BY <2>2 DEF Opened
  <2> QED
    BY <1>2, <2>1, <2>3, <2>4, <2>5 DEF HaveIds
<1> QED
  BY <1>5, <1>6, <1>7, <1>8, <1>9, <1>10 DEF Next

(* What only has edges taken away has no cycle if there was none.          *)
LEMMA TreesPruned ==
  ASSUME CInv, Trees, Pruned, frames' \in {frames, <<>>}, ids' \in {ids, <<>>}
  PROVE  Trees'
<1> SUFFICES ASSUME AllArrays' PROVE /\ \A e \in Entities' : \E set : Below(heap', e, set)
                                     /\ \A i \in DOMAIN frames' :
                                          /\ ~ HeldIn(heap', frames'[i].entity)
                                          /\ ~ Identified(ids', frames'[i].entity)
  BY DEF Trees
<1>1. DOMAIN heap = Entities /\ Entities' = Entities
  BY DEF Entities, Pruned
<1>2. AllArrays
  BY <1>1 DEF AllArrays, Pruned
<1>3. ASSUME NEW e \in Entities PROVE \E set : Below(heap', e, set)
  <2>1. PICK set : Below(heap, e, set)
    BY <1>2, <1>3 DEF Trees
  <2>2. Below(heap', e, set)
    BY <1>1, <1>3, <2>1 DEF Below, Carries, Pruned
  <2> QED
    BY <2>2
<1>4. \A x : x # None /\ HeldIn(heap', x) => HeldIn(heap, x)
  BY <1>1 DEF HeldIn, Pruned
<1>5. \A x : Identified(ids', x) => Identified(ids, x)
  BY DEF Identified
<1>6. ASSUME NEW i \in DOMAIN frames'
      PROVE  ~ HeldIn(heap', frames'[i].entity) /\ ~ Identified(ids', frames'[i].entity)
  <2>1. frames' = frames /\ i \in DOMAIN frames
    BY <1>6
  <2> DEFINE e == frames[i].entity
  <2>2. e # None
    BY <2>1, FramesPoint, Records DEF CInv, LInv, None
  <2>3. ~ HeldIn(heap, e) /\ ~ Identified(ids, e)
    BY <1>2, <2>1 DEF Trees
  <2> HIDE DEF e
  <2>4. ~ HeldIn(heap', e) /\ ~ Identified(ids', e)
    BY <1>4, <1>5, <2>2, <2>3
  <2> QED
    BY <2>1, <2>4 DEF e
<1> QED
  BY <1>1, <1>3, <1>6

(* What is put into an array is not one that is still being filled.        *)
LEMMA TreesPut ==
  ASSUME CInv, Trees, AllArrays, NEW v, NEW stack, Ready(v, heap, stack, <<>>, FALSE),
         \A i \in DOMAIN stack : /\ stack[i].entity # v /\ ~ HeldIn(heap, stack[i].entity)
                                 /\ ~ Identified(ids', stack[i].entity)
  PROVE  Trees'
<1>1. PICK into \in Nat, k \in Nat : k \in Slots /\ Landed(into, k, v, heap, stack)
  BY ReadyLands
<1>2. /\ LInv /\ Within(heap) /\ Entities = 1 .. Len(heap) /\ Len(heap) \in Nat
      /\ DOMAIN heap = Entities /\ v \in 0 .. Len(heap) /\ SafeFrames(stack, Len(heap))
  BY Records DEF CInv, HandInv, Ready, Entities
<1>3. DOMAIN heap' = Entities /\ Entities' = Entities
      /\ \A x \in Entities, j \in Slots :
           heap'[x].slots[j] = IF x = into /\ j = k THEN v ELSE heap[x].slots[j]
  BY <1>1, <1>2 DEF Landed, Wrote, Entities
<1>4. into # None => into # v /\ ~ HeldIn(heap, into)
  <2>1. into # None => \E i \in DOMAIN stack : stack[i].entity = into
    <3>1. stack # <<>> => Len(stack) \in DOMAIN stack
      BY <1>2, FramesPoint
    <3> QED
      BY <1>1, <3>1 DEF Landed
  <2> QED
    BY <2>1
<1>5. ASSUME NEW e \in Entities PROVE \E set : Below(heap', e, set)
  <2>1. e # None
    BY <1>2, <1>5 DEF None
  <2>2. PICK set : Below(heap, e, set)
    BY <1>5 DEF Trees
  <2>3. CASE into = None
    <3>1. \A x \in Entities, j \in Slots : heap'[x].slots[j] = heap[x].slots[j]
      BY <1>2, <1>3, <2>3 DEF None
    <3>2. Below(heap', e, set)
      BY <1>2, <1>3, <1>5, <2>2, <3>1 DEF Below, Carries
    <3> QED
      BY <3>2
  <2>4. CASE into # None /\ e # into
    <3> DEFINE t == set \ {into}
    <3>1. \A x \in Entities, j \in Slots :
            x # into => heap'[x].slots[j] = heap[x].slots[j] /\ heap'[x].slots[j] # into
      BY <1>2, <1>3, <1>4, <2>4 DEF HeldIn
    <3>2. Carries(heap', t)
      BY <1>2, <1>3, <2>2, <3>1 DEF Below, Carries
    <3>3. Below(heap', e, t)
      <4>1. e \notin t /\ \A j \in Slots : heap'[e].slots[j] # None => heap'[e].slots[j] \in t
        BY <1>5, <2>2, <2>4, <3>1 DEF Below
      <4> QED
        BY <3>2, <4>1 DEF Below
    <3> QED
      BY <3>3
  <2>5. CASE into # None /\ e = into
    <3> DEFINE t == Entities \ {into}
    <3>1. ASSUME NEW x \in Entities, NEW j \in Slots, heap'[x].slots[j] # None
          PROVE  heap'[x].slots[j] \in t
      <4>1. heap[x].slots[j] \in 0 .. Len(heap) /\ heap[x].slots[j] # into
        BY <1>2, <1>4, <2>5, <3>1 DEF Within, HeldIn
      <4>2. heap'[x].slots[j] \in 0 .. Len(heap) /\ heap'[x].slots[j] # into
        BY <1>2, <1>3, <1>4, <2>5, <4>1
      <4> QED
        BY <1>2, <3>1, <4>2 DEF None
    <3>2. Below(heap', e, t)
      BY <1>2, <1>3, <1>5, <2>5, <3>1 DEF Below, Carries
    <3> QED
      BY <3>2
  <2> QED
    BY <2>3, <2>4, <2>5
<1>6. ASSUME NEW i \in DOMAIN frames'
      PROVE  ~ HeldIn(heap', frames'[i].entity) /\ ~ Identified(ids', frames'[i].entity)
  <2>1. i \in DOMAIN stack /\ frames'[i].entity = stack[i].entity
    BY <1>1, <1>6 DEF Landed
  <2> DEFINE e == stack[i].entity
  <2>2. e # v /\ ~ HeldIn(heap, e) /\ ~ Identified(ids', stack[i].entity)
    BY <2>1
  <2> HIDE DEF e
  <2>3. ~ HeldIn(heap', e)
    BY <1>2, <1>3, <2>2 DEF HeldIn
  <2> QED
    BY <2>1, <2>2, <2>3 DEF e
<1> QED
  BY <1>3, <1>5, <1>6 DEF Trees

LEMMA StepTrees ==
  ASSUME CInv, Fine, Trees, [Next]_vars
  PROVE  Trees'
<1>1. LInv /\ HandInv /\ AliveInv /\ DOMAIN heap = Entities /\ Len(heap) \in Nat
      /\ Entities = 1 .. Len(heap) /\ fresh = Len(heap) + 1 /\ SafeIds(ids, Len(heap))
      /\ SafeFrames(frames, Len(heap)) /\ Within(heap)
  BY Records DEF CInv, LInv, HandInv, Entities
<1>2. AllArrays' => AllArrays
  BY KindsStay DEF AllArrays
<1>3. CASE ~ AllArrays'
  BY <1>3 DEF Trees
<1>4. CASE \/ Survives \/ CallDestructor \/ FreeLast \/ CollectDestructor \/ Collect
           \/ Fail \/ Refuse \/ StartHooks \/ CallHook \/ Keep \/ Forget \/ HookReturns
           \/ HooksDone \/ Unwrap \/ Return \/ Discard \/ UNCHANGED vars
  <2>1. Pruned
    BY <1>4, Prunes
  <2>2. frames' \in {frames, <<>>} /\ ids' \in {ids, <<>>}
    BY <1>4 DEF Survives, CallDestructor, FreeLast, CollectDestructor, Collect, Fail, Refuse,
                Abandon, Destroy, StartHooks, CallHook, Keep, Forget, Statement, HookReturns,
                HooksDone, Unwrap, Return, Discard, vars, graphVars
  <2> QED
    BY <2>1, <2>2, TreesPruned
<1>5. CASE Assign
  <2>1. phase = "hook"
    BY <1>5 DEF Assign, Statement
  <2>2. next \in DOMAIN deferred
    <3>1. next \in Nat \ {0} /\ next <= Len(deferred)
      BY <2>1 DEF CInv, Turns
    <3>2. DOMAIN deferred = 1 .. Len(deferred) /\ Len(deferred) \in Nat
      BY QueueBound DEF CInv
    <3> QED
      BY <3>1, <3>2
  <2>3. PICK e \in Visible : heap[e].kind # "array"
    BY <1>5 DEF Assign
  <2>4. e \in Entities
    BY <1>1, <2>2, <2>3, VisibleKnown
  <2> QED
    BY <1>2, <1>3, <2>3, <2>4 DEF AllArrays
<1>6. CASE AllArrays' /\ (ReadScalar \/ ReadBackReference)
  <2>1. UNCHANGED ids
    BY <1>6 DEF ReadScalar, ReadBackReference
  <2>2. PICK v, stack : /\ Ready(v, heap, stack, <<>>, FALSE)
                        /\ stack \in {frames, SawReference(frames)}
                        /\ v = None \/ Identified(ids, v)
    BY <1>6, ReadReady DEF Identified
  <2>3. /\ DOMAIN stack = DOMAIN frames
        /\ \A i \in DOMAIN frames : stack[i].entity = frames[i].entity
    BY <1>1, <2>2, SawSame
  <2>4. ASSUME NEW i \in DOMAIN stack
        PROVE  /\ stack[i].entity # v /\ ~ HeldIn(heap, stack[i].entity)
               /\ ~ Identified(ids', stack[i].entity)
    <3>1. /\ ~ HeldIn(heap, frames[i].entity) /\ ~ Identified(ids, frames[i].entity)
          /\ stack[i].entity = frames[i].entity /\ i \in DOMAIN frames
      BY <1>2, <1>6, <2>3, <2>4 DEF Trees
    <3>2. frames[i].entity # None
      BY <1>1, <3>1, FramesPoint DEF None
    <3> QED
      BY <2>1, <2>2, <3>1, <3>2
  <2> QED
    BY <1>2, <1>6, <2>2, <2>4, TreesPut
<1>7. CASE AllArrays' /\ (EndValue \/ EndHooked \/ EndApplied)
  <2>1. frames # <<>>
    BY <1>7 DEF EndValue, EndHooked, EndApplied
  <2>2. /\ Len(frames) \in DOMAIN frames /\ top = frames[Len(frames)]
        /\ DOMAIN Outer(frames) \subseteq DOMAIN frames /\ Len(frames) \notin DOMAIN Outer(frames)
        /\ \A i \in DOMAIN Outer(frames) : Outer(frames)[i] = frames[i]
        /\ top.entity \in 1 .. Len(heap)
    <3>1. /\ Len(frames) \in Nat \ {0} /\ DOMAIN frames = 1 .. Len(frames)
          /\ DOMAIN Outer(frames) = 1 .. Len(frames) - 1
          /\ \A i \in 1 .. Len(frames) - 1 : Outer(frames)[i] = frames[i]
      BY <1>1, <2>1, OuterFrames
    <3>2. top = frames[Len(frames)] /\ Len(frames) \in DOMAIN frames
      BY <3>1 DEF top
    <3>3. frames[Len(frames)].entity \in 1 .. Len(heap)
      BY <1>1, <3>2, FramesPoint
    <3> QED
      BY <3>1, <3>2, <3>3
  <2>3. top.what # "hooked"
    <3>1. heap[top.entity].kind = "array"
      BY <1>1, <1>2, <1>7, <2>2 DEF AllArrays
    <3> QED
      BY <2>2, <3>1 DEF Fine, Filling, Fits
  <2>4. EndValue
    BY <1>7, <2>3 DEF EndHooked, EndApplied
  <2>5. Ready(top.entity, heap, Outer(frames), <<>>, FALSE)
    BY <2>1, <2>4, EndReady
  <2>6. \A x : Identified(ids', x) => Identified(ids, x) \/ x = top.entity
    <3>1. CASE UNCHANGED ids
      BY <3>1
    <3>2. CASE Register(top.entity, "array")
      BY <1>1, <2>2, <3>2, RegisterOne
    <3> QED
      BY <2>4, <3>1, <3>2 DEF EndValue
  <2>7. ASSUME NEW i \in DOMAIN Outer(frames)
        PROVE  /\ Outer(frames)[i].entity # top.entity /\ ~ HeldIn(heap, Outer(frames)[i].entity)
               /\ ~ Identified(ids', Outer(frames)[i].entity)
    <3>1. /\ i \in DOMAIN frames /\ i # Len(frames) /\ Outer(frames)[i] = frames[i]
      BY <2>2, <2>7
    <3>2. frames[i].entity # frames[Len(frames)].entity
      BY <2>2, <3>1 DEF Fine, Filling
    <3>3. ~ HeldIn(heap, frames[i].entity) /\ ~ Identified(ids, frames[i].entity)
      BY <1>2, <1>7, <3>1 DEF Trees
    <3> QED
      BY <2>2, <2>6, <3>1, <3>2, <3>3
  <2> QED
    BY <1>2, <1>7, <2>5, <2>7, TreesPut
<1>8. CASE \E class \in Classes : ReadLegacy(class)
  <2>1. PICK v, graph : Ready(fresh, graph, frames, <<>>, TRUE) /\ Added(graph, v)
    BY <1>8, LegacyReady
  <2>2. DOMAIN heap' = DOMAIN graph /\ \A x \in DOMAIN graph : heap'[x].kind = graph[x].kind
    BY <2>1, LandedKinds
  <2>3. fresh \in DOMAIN graph /\ graph[fresh].kind = "object"
    BY <1>1, <2>1 DEF Added
  <2> QED
    BY <1>3, <2>2, <2>3 DEF AllArrays, Entities
<1>9. CASE AllArrays' /\ ((\E class \in Classes : BeginObject(class)) \/ BeginReference \/ BeginArray)
  <2>1. PICK kind : Opened(kind)
    BY <1>9, Opens
  <2>2. fresh \in Entities' /\ heap'[fresh].kind = kind
    BY <1>1, <2>1 DEF Opened, Entities
  <2>3. kind = "array" /\ ids' = ids
    BY <1>9, <2>1, <2>2 DEF AllArrays, Opened
  <2>4. /\ \A x \in DOMAIN heap' : x \in Entities \/ x = fresh
        /\ \A x \in Entities : heap'[x] = heap[x]
        /\ \A j \in Slots : heap'[fresh].slots[j] = None
    BY <1>1, <2>1 DEF Opened
  <2>5. ASSUME NEW e \in Entities' PROVE \E set : Below(heap', e, set)
    <3>1. CASE e \in Entities
      <4>1. PICK set : Below(heap, e, set)
        BY <1>2, <1>9, <3>1 DEF Trees
      <4>2. Below(heap', e, set)
        BY <1>1, <2>4, <3>1, <4>1 DEF Below, Carries
      <4> QED
        BY <4>2
    <3>2. CASE e = fresh
      <4>1. Below(heap', e, {})
        BY <2>4, <3>2 DEF Below, Carries
      <4> QED
        BY <4>1
    <3> QED
      BY <2>4, <2>5, <3>1, <3>2 DEF Entities
  <2>6. \A x : x # None /\ HeldIn(heap', x) => HeldIn(heap, x)
    BY <1>1, <2>4 DEF HeldIn
  <2>7. ASSUME NEW i \in DOMAIN frames'
        PROVE  ~ HeldIn(heap', frames'[i].entity) /\ ~ Identified(ids', frames'[i].entity)
    <3> DEFINE e == frames'[i].entity
    <3>1. e # None /\ ~ HeldIn(heap, e) /\ ~ Identified(ids, e)
      <4>1. CASE i \in DOMAIN frames
        <5>1. e = frames[i].entity
          BY <2>1, <4>1 DEF Opened
        <5>2. frames[i].entity # None
          BY <1>1, <4>1, FramesPoint DEF None
        <5> QED
          BY <1>2, <1>9, <4>1, <5>1, <5>2 DEF Trees
      <4>2. CASE i \notin DOMAIN frames
        <5>1. e = fresh
          BY <2>1, <2>7, <4>2 DEF Opened
        <5>2. ~ HeldIn(heap, fresh)
          BY <1>1 DEF HeldIn, Within
        <5>3. ~ Identified(ids, fresh)
          <6>1. \A j \in DOMAIN ids : ids[j] \in [entity : 1 .. Len(heap), pinned : BOOLEAN]
            BY <1>1, LenProperties, ElementOfSeq DEF SafeIds
          <6>2. \A j \in DOMAIN ids : ids[j].entity \in 1 .. Len(heap)
            BY <6>1
          <6> QED
            BY <1>1, <6>2 DEF Identified
        <5> QED
          BY <1>1, <5>1, <5>2, <5>3 DEF None
      <4> QED
        BY <4>1, <4>2
    <3> HIDE DEF e
    <3>2. ~ HeldIn(heap', e)
      BY <2>6, <3>1
    <3> QED
      BY <2>3, <3>1, <3>2 DEF e
  <2> QED
    BY <2>5, <2>7 DEF Trees
<1> QED
  BY <1>3, <1>4, <1>5, <1>6, <1>7, <1>8, <1>9 DEF Next

(* Nothing is given up but pins and what is offered to the collector.      *)
Offers(seq) == \A i \in DOMAIN seq : seq[i].rooted \/ seq[i].pin

LEMMA OffersSteps ==
  ASSUME CInv, Fine, Offers(drops), [Next]_vars, ~ Discard
  PROVE  Offers(drops')
<1>1. CASE ~ HooksDone
  BY <1>1, DropsCome DEF Comes, Offers
<1>2. CASE HooksDone
  <2>1. drops' = <<>> \o Releases(ResultLive)
    BY <1>2 DEF HooksDone, Destroy
  <2> DEFINE n == Len(heap)
             live == ResultLive
  <2>2. n \in Nat /\ SafeIds(ids, n) /\ SafeQueue(deferred, n) /\ live \in BOOLEAN
    <3>1. LInv /\ HandInv
      BY DEF CInv
    <3> QED
      BY <3>1, Records DEF LInv, HandInv, ResultLive
  <2> HIDE DEF n, live
  <2> DEFINE r == Releases(live)
  <2>3. /\ SafeDrops(r, n)
        /\ \A i \in DOMAIN r : LET d == r[i]
                               IN (d.pin /\ d.rooted = ~ live)
                                    \/ (~ d.pin /\ d.rooted /\ deferred # <<>>)
    BY <2>2, ReleasedValues
  <2> HIDE DEF r
  <2>4. drops' = r
    <3>1. <<>> \o r = r
      BY <2>3, ConcatEmptySeq DEF SafeDrops
    <3> QED
      BY <2>1, <3>1 DEF r, live
  <2> QED
    BY <2>3, <2>4 DEF Offers
<1> QED
  BY <1>1, <1>2

(* How the decoder returns its value: never a reference; and after a       *)
(* decode that dropped nothing and called no hook, one that the collector  *)
(* is offered unless it is made of arrays.                                 *)
Returning ==
  /\ phase \in {"release", "unwrapped"} /\ ~ orphan /\ next = 1 /\ ~ exception /\ result # None
     /\ ~ rootResult => AllArrays
  /\ phase \in {"unwrapped", "returned"} => result \notin Kind("reference", heap)
  /\ phase = "returned" /\ result # None =>
       drops = <<>> /\ (orphan \/ next # 1 \/ result \in buffer \/ AllArrays)
  /\ phase = "discarded" => result = None

(* When nothing is given up, the collector does not run.                   *)
LEMMA Quiet ==
  ASSUME phase \in {"release", "unwrapped", "returned", "discarded"},
         \/ ~ Busy \/ ~ head.rooted
  PROVE  ~ CollectDestructor /\ ~ Collect
BY DEF CollectDestructor, Collect, MayCollect

LEMMA StepReturning ==
  ASSUME CInv, Fine, HaveIds, Returning, [Next]_vars
  PROVE  Returning'
<1>1. LInv /\ HandInv /\ DOMAIN heap = Entities /\ Entities = 1 .. Len(heap) /\ Within(heap)
      /\ Len(heap) \in Nat /\ exception \in BOOLEAN /\ rootResult \in BOOLEAN
      /\ result \in 0 .. Len(heap) /\ 1 \in Slots /\ Turns
  BY Records DEF CInv, HandInv, Turns, Entities
<1>2. CASE phase' \notin {"release", "unwrapped", "returned", "discarded"}
  BY <1>2 DEF Returning
<1>3. CASE Fail \/ Refuse
  <2>1. phase' = "release" /\ result' = None
    BY <1>3 DEF Fail, Refuse, Abandon, Destroy
  <2> QED
    BY <2>1 DEF Returning
<1>4. CASE HooksDone
  <2>1. phase = "hooks" /\ phase' = "release" /\ next > Len(deferred) /\ next' = next
        /\ rootResult' = (ResultLive /\ MayCycle) /\ UNCHANGED <<heap, exception, orphan>>
    BY <1>4 DEF HooksDone, Destroy
  <2>2. ASSUME ~ orphan, next = 1, ~ exception, ~ (ResultLive /\ MayCycle) PROVE AllArrays
    <3>1. deferred = <<>>
      <4>1. deferred \in Seq([object : 1 .. Len(heap), data : 0 .. Len(heap)])
        BY <1>1 DEF HandInv, SafeQueue
      <4>2. Len(deferred) = 0
        BY <2>1, <2>2, <4>1, LenProperties
      <4> QED
        BY <4>1, <4>2, EmptySeq
    <3>2. ids = <<>> \/ ~ MayCycle
      BY <2>2, <3>1 DEF ResultLive
    <3>3. \A x : Identified(ids, x) => heap[x].kind = "array"
      BY <3>2 DEF Identified, MayCycle
    <3> QED
      BY <2>1, <3>3 DEF HaveIds, AllArrays
  <2>3. AllArrays => AllArrays'
    BY <2>1 DEF AllArrays, Entities
  <2> QED
    BY <2>1, <2>2, <2>3 DEF Returning
<1>5. CASE \/ Survives \/ CallDestructor \/ FreeLast \/ CollectDestructor \/ Collect
           \/ UNCHANGED vars
  <2>1. UNCHANGED <<orphan, phase, next, result, rootResult>> /\ exception' \in {exception, TRUE}
    BY <1>5 DEF Survives, CallDestructor, FreeLast, CollectDestructor, Collect, Destruct, vars,
                graphVars
  <2>2. Pruned
    BY <1>5, Prunes
  <2>3. AllArrays => AllArrays'
    BY <2>2 DEF Pruned, AllArrays, Entities
  <2>4. result \notin Kind("reference", heap) => result' \notin Kind("reference", heap')
    BY <1>1, <2>1, <2>2 DEF Pruned, Kind
  <2>5. phase = "returned" /\ result # None => UNCHANGED vars
    <3>1. phase = "returned" /\ result # None => ~ Busy
      BY DEF Returning, Busy
    <3> QED
      BY <1>5, <3>1, Quiet DEF Survives, CallDestructor, FreeLast
  <2>6. phase' = "returned" /\ result' # None =>
       drops' = <<>> /\ (orphan' \/ next' # 1 \/ result' \in buffer' \/ AllArrays')
    BY <2>1, <2>3, <2>5 DEF Returning, vars
  <2>7. ~ exception' => ~ exception
    BY <2>1
  <2> QED
    BY <2>1, <2>3, <2>4, <2>6, <2>7 DEF Returning
<1>6. CASE Unwrap
  <2>1. /\ phase = "release" /\ phase' = "unwrapped" /\ UNCHANGED <<orphan, next, exception, rootResult>>
        /\ heap' = heap
        /\ \/ result \in Kind("reference", heap) /\ result' = heap[result].slots[1]
           \/ result \notin Kind("reference", heap) /\ result' = result
    BY <1>6 DEF Unwrap, Rest
  <2>2. AllArrays => AllArrays'
    BY <2>1 DEF AllArrays, Entities
  <2>3. result' \notin Kind("reference", heap)
    BY <1>1, <2>1 DEF Fine, Flat, Kind
  <2>4. result' # None => result # None
    BY <1>1, <2>1 DEF Kind, None
  <2>5. Kind("reference", heap') = Kind("reference", heap)
    BY <2>1
  <2> QED
    BY <2>1, <2>2, <2>3, <2>4, <2>5 DEF Returning
<1>7. CASE Return
  <2>1. /\ phase = "unwrapped" /\ phase' = "returned" /\ UNCHANGED <<orphan, next, exception, rootResult>>
        /\ heap' = heap /\ drops = <<>>
    BY <1>7 DEF Return, Busy
  <2>2. AllArrays => AllArrays'
    BY <2>1 DEF AllArrays, Entities
  <2>3. result \notin Kind("reference", heap)
    BY <2>1 DEF Returning
  <2>4. Kind("reference", heap') = Kind("reference", heap)
    BY <2>1
  <2>5. CASE exception
    <3>1. result' = None
      BY <1>7, <2>5 DEF Return
    <3>2. result' \notin Kind("reference", heap)
      BY <1>1, <3>1 DEF Kind, None
    <3> QED
      BY <2>1, <2>4, <3>1, <3>2 DEF Returning
  <2>6. CASE ~ exception
    <3>1. /\ result' = result /\ drops' = <<>>
          /\ buffer' = IF rootResult THEN buffer \cup Offered(result) ELSE buffer
      BY <1>7, <2>1, <2>6 DEF Return
    <3>2. rootResult /\ result # None => result \in buffer'
      BY <2>3, <3>1 DEF Offered
    <3>3. result # None => orphan \/ next # 1 \/ result \in buffer' \/ AllArrays
      BY <2>1, <2>6, <3>2 DEF Returning
    <3> QED
      BY <2>1, <2>2, <2>3, <2>4, <3>1, <3>3 DEF Returning
  <2> QED
    BY <1>1, <2>5, <2>6
<1>8. CASE Discard
  <2>1. phase' = "discarded" /\ result' = None
    BY <1>8 DEF Discard
  <2> QED
    BY <2>1 DEF Returning
<1>9. CASE \/ ReadScalar \/ ReadBackReference \/ EndValue \/ EndHooked \/ EndApplied
           \/ \E class \in Classes : ReadLegacy(class)
  <2>1. \E v, graph, stack, given, noted : Put(v, graph, stack, given, noted)
    BY <1>9 DEF ReadScalar, ReadBackReference, EndValue, EndHooked, EndApplied, ReadLegacy
  <2>2. phase = "walk"
    BY <1>9 DEF ReadScalar, ReadBackReference, EndValue, EndHooked, EndApplied, ReadLegacy, Token,
                Walking
  <2>3. phase' \in {"walk", "walked"}
    BY <2>1, <2>2, PutFinishes
  <2> QED
    BY <1>2, <2>3
<1>10. CASE \/ (\E class \in Classes : BeginObject(class)) \/ BeginReference \/ BeginArray
            \/ StartHooks \/ CallHook \/ Assign \/ Keep \/ Forget \/ HookReturns
  <2>1. phase' \in {"walk", "hooks", "hook"}
    BY <1>10 DEF BeginObject, BeginReference, BeginArray, Token, Walking, StartHooks, CallHook,
                 Assign, Keep, Forget, Statement, HookReturns
  <2> QED
    BY <1>2, <2>1
<1> QED
  BY <1>3, <1>4, <1>5, <1>6, <1>7, <1>8, <1>9, <1>10 DEF Next

LEMMA StepUnrooted ==
  ASSUME CInv, Fine, Unrooted, Returning, [Next]_vars
  PROVE  Unrooted'
<1>1. CASE Offers(drops) /\ ~ Discard
  <2>1. Offers(drops')
    BY <1>1, OffersSteps
  <2> QED
    BY <2>1 DEF Offers, Unrooted
<1>2. CASE Discard
  <2>1. /\ phase = "returned" /\ result # None /\ phase' = "discarded"
        /\ drops' = <<Drop(result, FALSE)>> /\ UNCHANGED <<heap, orphan, next, buffer>>
    BY <1>2 DEF Discard, Rest
  <2>2. AllArrays => AllArrays'
    BY <2>1 DEF AllArrays, Entities
  <2>3. orphan' \/ next' # 1 \/ result \in buffer' \/ AllArrays'
    BY <2>1, <2>2 DEF Returning
  <2>4. Len(drops') = 1 /\ \A i \in DOMAIN drops' : drops'[i].entity = result
    BY <2>1 DEF Drop
  <2> QED
    BY <2>1, <2>3, <2>4 DEF Unrooted
<1>3. CASE ~ Offers(drops)
  <2>1. PICK i \in DOMAIN drops : ~ drops[i].rooted /\ ~ drops[i].pin
    BY <1>3 DEF Offers
  <2>2. /\ phase = "discarded" /\ Len(drops) = 1
        /\ orphan \/ next # 1 \/ drops[i].entity \in buffer \/ AllArrays
    BY <2>1 DEF Unrooted
  <2>3. Busy
    BY <2>1 DEF Busy
  <2>4. /\ head = drops[1] /\ DOMAIN drops = 1 .. Len(drops) /\ LInv /\ HandInv
        /\ Tail(drops) = <<>> /\ SafeDrops(drops, Len(heap)) /\ Len(heap) \in Nat
    <3>1. LInv /\ HandInv
      BY DEF CInv
    <3>2. /\ head = drops[1] /\ DOMAIN drops = 1 .. Len(drops)
          /\ SafeDrops(Tail(drops), Len(heap)) /\ DOMAIN Tail(drops) = 1 .. Len(drops) - 1
      BY <2>3, <3>1, HeadDropped
    <3>3. Tail(drops) = <<>>
      BY <2>2, <3>2, LenProperties, EmptySeq DEF SafeDrops
    <3> QED
      BY <3>1, <3>2, <3>3, Records DEF HandInv
  <2>5. i = 1 /\ ~ head.rooted
    BY <2>1, <2>2, <2>4
  <2>6. \/ Survives \/ CallDestructor \/ FreeLast \/ UNCHANGED vars
    BY <2>2, <2>5, Quiet
       DEF Next, ReadScalar, ReadBackReference, BeginReference, BeginArray, BeginObject,
           ReadLegacy, EndValue, EndHooked, EndApplied, Token, Walking, Fail, Refuse, StartHooks,
           CallHook, Assign, Keep, Forget, Statement, HookReturns, HooksDone, Unwrap, Return,
           Discard
  <2>7. CASE Survives
    <3>1. drops' = <<>>
      BY <2>4, <2>7 DEF Survives
    <3> QED
      BY <3>1 DEF Unrooted
  <2>8. CASE FreeLast
    <3> DEFINE q == heap[head.entity].slots
               d == DropAll(q)
    <3>1. q \in Seq(0 .. Len(heap))
      <4>1. head.entity \in Entities /\ Within(heap)
        BY <2>3, <2>4, HeadDropped DEF HandInv
      <4> QED
        BY <2>4, <4>1, SlotsInOrder
    <3> HIDE DEF q
    <3>2. SafeDrops(d, Len(heap)) /\ \A j \in DOMAIN d : d[j].rooted /\ ~ d[j].pin
      BY <2>4, <3>1, DropAllSafe
    <3>3. drops' = d \o <<>>
      BY <2>4, <2>8 DEF FreeLast, q
    <3> HIDE DEF d
    <3>4. drops' = d
      BY <3>2, <3>3, ConcatEmptySeq DEF SafeDrops
    <3> QED
      BY <3>2, <3>4 DEF Unrooted
  <2>9. CASE CallDestructor \/ UNCHANGED vars
    <3>1. UNCHANGED <<drops, phase, orphan, next, buffer>> /\ Pruned
      BY <2>9, Prunes DEF CallDestructor, vars
    <3>2. AllArrays => AllArrays'
      BY <3>1 DEF Pruned, AllArrays, Entities
    <3> QED
      BY <3>1, <3>2 DEF Unrooted
  <2> QED
    BY <2>6, <2>7, <2>8, <2>9
<1> QED
  BY <1>1, <1>2, <1>3

(* After a decode that dropped nothing and called no hook, even when the   *)
(* caller discards the value at once.                                      *)
Findable == phase # "discarded" \/ (~ orphan /\ next = 1)
FoundInv == Findable => Covered

LEMMA StepFound ==
  ASSUME DInv, FoundInv, Trees, Unrooted, [Next]_vars
  PROVE  FoundInv'
<1> SUFFICES ASSUME Findable' PROVE Covered'
  BY DEF FoundInv
<1>1. CInv /\ Fine /\ Unfinished /\ FastPins
  BY DEF DInv
<1>2. Findable
  <2>1. CASE phase = "discarded"
    <3>1. UNCHANGED <<phase, orphan, next>>
      BY <2>1
         DEF Next, ReadScalar, ReadBackReference, BeginReference, BeginArray, BeginObject,
             ReadLegacy, EndValue, EndHooked, EndApplied, Token, Walking, Fail, Refuse, StartHooks,
             CallHook, Assign, Keep, Forget, Statement, HookReturns, HooksDone, Unwrap, Return,
             Discard, Survives, CallDestructor, FreeLast, CollectDestructor, Collect, vars
    <3> QED
      BY <2>1, <3>1 DEF Findable
  <2> QED
    BY <2>1 DEF Findable
<1>3. Covered
  BY <1>2 DEF FoundInv
<1>4. CASE Survives
  BY <1>1, <1>2, <1>3, <1>4, SurvivorCovered DEF Findable
<1>5. CASE FreeLast
  BY <1>1, <1>3, <1>5, FreedCovered
<1>6. CASE Collect
  BY <1>1, <1>3, <1>6, CollectedCovered
<1>7. CASE ReadScalar \/ ReadBackReference
  BY <1>1, <1>3, <1>7, ReadCovered
<1>8. CASE EndValue \/ EndHooked \/ EndApplied
  BY <1>1, <1>3, <1>8, EndCovered
<1>9. CASE \E class \in Classes : ReadLegacy(class)
  BY <1>1, <1>3, <1>9, LegacyCovered
<1>10. CASE (\E class \in Classes : BeginObject(class)) \/ BeginReference \/ BeginArray
  <2>1. \E kind : Opened(kind)
    BY <1>1, <1>10, Opens
  <2> QED
    BY <1>1, <1>3, <2>1, OpenedCovered
<1>11. CASE Fail \/ Refuse \/ HooksDone
  BY <1>1, <1>3, <1>11, EndsCovered
<1>12. CASE Assign
  BY <1>1, <1>3, <1>12, AssignCovered
<1>13. CASE \/ CallDestructor \/ CollectDestructor \/ HookReturns
            \/ Keep \/ Forget \/ StartHooks \/ CallHook
            \/ Unwrap \/ Return \/ Discard \/ UNCHANGED vars
  BY <1>1, <1>3, <1>13, MovedCovered
<1> QED
  BY <1>4, <1>5, <1>6, <1>7, <1>8, <1>9, <1>10, <1>11, <1>12, <1>13 DEF Next

(* Together with what makes the fast release sound: what is alive can be   *)
(* found.                                                                  *)
NInv == DInv /\ HaveIds /\ Trees /\ Unrooted /\ Returning /\ FoundInv

LEMMA InitFound == Init => NInv
<1> SUFFICES ASSUME Init PROVE NInv
  OBVIOUS
<1>1. heap = <<>> /\ frames = <<>> /\ drops = <<>> /\ phase = "walk"
  BY DEF Init
<1>2. DOMAIN heap = {} /\ DOMAIN frames = {} /\ DOMAIN drops = {} /\ Entities = {}
  BY <1>1 DEF Entities
<1>3. HaveIds /\ Trees /\ Unrooted /\ Returning /\ FoundInv
  BY <1>1, <1>2 DEF HaveIds, Trees, Unrooted, Returning, FoundInv, Covered
<1> QED
  BY <1>3, InitWhole DEF NInv

(* Whatever is alive can be reached from what is named or offered to the   *)
(* collector, in every state; after a value that was discarded unoffered,  *)
(* when its decode dropped nothing and called no hook.                     *)
THEOREM FoundInvariant == Spec => []NInv
<1>1. ASSUME NInv, [Next]_vars PROVE NInv'
  <2>1. /\ DInv /\ HaveIds /\ Trees /\ Unrooted /\ Returning /\ FoundInv
        /\ CInv /\ Fine /\ Whole /\ Unfinished /\ FastPins
    BY <1>1 DEF NInv, DInv
  <2>2. DInv'
    <3>1. CInv' /\ Fine'
      BY <1>1, <2>1, StepAlive, StepFine
    <3>2. Whole' /\ FastPins'
      BY <1>1, <2>1, StepWhole, StepFastPins
    <3>3. Unfinished'
      BY <1>1, <2>1, StepUnfinished DEF CInv
    <3> QED
      BY <3>1, <3>2, <3>3 DEF DInv
  <2>3. HaveIds' /\ Trees'
    BY <1>1, <2>1, StepIds, StepTrees
  <2>4. Unrooted' /\ Returning'
    BY <1>1, <2>1, StepUnrooted, StepReturning
  <2>5. FoundInv'
    BY <1>1, <2>1, StepFound
  <2> QED
    BY <2>2, <2>3, <2>4, <2>5 DEF NInv
<1>2. QED
  BY <1>1, InitFound, PTL DEF Spec

(* When the decoder returns, and after the caller discards the value of a  *)
(* decode that dropped nothing and called no hook, nothing that was        *)
(* decoded is alive and out of reach of the program, the result and the    *)
(* collector's possible roots.                                             *)
THEOREM NothingIsLost == Spec => []NothingLeaks
<1>1. ASSUME NInv PROVE NothingLeaks
  <2>1. /\ FoundInv /\ Returning /\ Turns /\ HandInv /\ LInv /\ Entities = DOMAIN heap
        /\ None \notin Entities
    BY <1>1, Records DEF NInv, DInv, CInv, Entities, None
  <2>2. ASSUME ~ Busy, phase \in {"returned", "discarded"}, Covered,
               NEW program, result # None => result \in program
        PROVE  Found(program)
    <3>1. ids = <<>> /\ deferred = <<>> /\ frames = <<>> /\ drops = <<>>
      BY <2>1, <2>2 DEF Turns, Busy
    <3> SUFFICES ASSUME NEW e \in Entities, heap[e].alive,
                        NEW set \in SUBSET Entities, program \cup user \cup buffer \subseteq set,
                        Closed(set)
                 PROVE  e \in set
      BY DEF Found, Reach
    <3>2. Carries(heap, set)
      BY <2>1 DEF Carries, Closed, Held
    <3>3. \A x : x # None /\ Rooted(x) => x \in set
      BY <2>2, <3>1 DEF Rooted, Named, Identified, Queued, InFrames, Dropping
    <3> QED
      BY <2>2, <3>2, <3>3 DEF Covered, Covers
  <2>3. ASSUME ~ Busy, phase = "returned" PROVE Found(Ids(result))
    <3>1. Covered
      BY <2>1, <2>3 DEF FoundInv, Findable
    <3>2. result # None => result \in Ids(result)
      BY DEF Ids
    <3> QED
      BY <2>2, <2>3, <3>1, <3>2
  <2>4. ASSUME ~ Busy, phase = "discarded", ~ orphan, next = 1 PROVE Found({})
    <3>1. Covered /\ result = None
      BY <2>1, <2>4 DEF FoundInv, Findable, Returning
    <3> QED
      BY <2>2, <2>4, <3>1
  <2> QED
    BY <2>3, <2>4 DEF NothingLeaks
<1>2. QED
  BY <1>1, FoundInvariant, PTL
=============================================================================
