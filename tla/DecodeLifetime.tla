---------------------------- MODULE DecodeLifetime ----------------------------
(***************************************************************************)
(* Who keeps a decoded entity alive, and who frees it: the decoder's pins  *)
(* (dec_register), the queue of __unserialize and __wakeup calls, what is  *)
(* dropped while properties are stored, and decode_destroy with its fast   *)
(* and slow release, beside PHP's reference counts, root buffer, cycle     *)
(* collector and destructors.                                              *)
(*                                                                         *)
(* GraphDecoder says which frames are refused; here a frame is any         *)
(* sequence of tokens and may be refused at any of them.                   *)
(***************************************************************************)
EXTENDS Integers, Sequences, FiniteSets

SE == INSTANCE SequencesExt

CONSTANTS
  Classes,      \* classes: their hook, and whether they have a destructor
  Width,        \* slots of an object or an array
  MaxEntities,  \* bound: entities decoded
  MaxTokens,    \* bound: tokens read
  MaxSteps      \* bound: statements of user code

Hooks == {"none", "unserialize", "wakeup", "legacy", "unknown"}

ASSUME LifetimeAssumption ==
  /\ Classes \subseteq [hook : Hooks, destructor : BOOLEAN]
  /\ Width \in Nat \ {0}
  /\ MaxEntities \in Nat /\ MaxTokens \in Nat /\ MaxSteps \in Nat

VARIABLES
  heap,         \* entities, in the order of their creation
  ids,          \* id_table: the entity and whether the entry pins it
  deferred,     \* hooks to call: the object, and the data it is given
  frames,       \* values being decoded, outermost first
  orphan,       \* pins_may_orphan
  phase,        \* where phpser_decode_buf_opts is
  next,         \* the hook that is called, or is next
  result,       \* the decoded value
  rootResult,
  exception,    \* EG(exception)
  drops,        \* references being given up, in order
  user,         \* entities the program holds
  buffer,       \* the collector's possible roots
  tokens, steps \* counted against MaxTokens and MaxSteps

graphVars == <<heap, ids, deferred, frames, result>>
vars == <<heap, ids, deferred, frames, orphan, phase, next, result, rootResult,
          exception, drops, user, buffer, tokens, steps>>

None == 0               \* a slot that holds nothing with a reference count
NoClass == [hook |-> "none", destructor |-> FALSE]

Entities == DOMAIN heap
Slots == 1 .. Width
Held(e) == {heap[e].slots[k] : k \in Slots} \ {None}

Kind(kind, graph) == {e \in DOMAIN graph : graph[e].kind = kind}

(* What user code with these references in hand can get at.                *)
Closed(set) == \A e \in set : Held(e) \subseteq set
Reach(from) ==
  {e \in Entities : \A set \in SUBSET Entities : (from \subseteq set /\ Closed(set)) => e \in set}

Times(seq, e) == Cardinality({i \in DOMAIN seq : seq[i] = e})

(* GC_REFCOUNT: slots of live entities, the decoder's locals, its id table *)
(* and its queue, references on their way out, the result, the program.    *)
SlotsThatHold(set, e) == Cardinality({s \in set \X Slots : heap[s[1]].slots[s[2]] = e})
Pins(e) == Cardinality({i \in DOMAIN ids : ids[i].entity = e /\ ids[i].pinned})
Refcount(e) ==
  SlotsThatHold(Entities, e) + Pins(e)
  + Times([i \in DOMAIN deferred |-> deferred[i].object], e)
  + Times([i \in DOMAIN deferred |-> deferred[i].data], e)
  + Times([i \in DOMAIN frames |-> frames[i].entity], e)
  + Times([i \in DOMAIN frames |-> frames[i].data], e)
  + Times([i \in DOMAIN drops |-> drops[i].entity], e)
  + (IF result = e THEN 1 ELSE 0) + (IF e \in user THEN 1 ELSE 0)

Empty == [k \in Slots |-> None]
Write(graph, e, k, v) == [graph EXCEPT ![e].slots[k] = v]

Init ==
  /\ heap = <<>> /\ ids = <<>> /\ deferred = <<>> /\ frames = <<>> /\ drops = <<>>
  /\ orphan = FALSE /\ exception = FALSE /\ rootResult = FALSE
  /\ phase = "walk"
  /\ next = 1 /\ result = None
  /\ user = {} /\ buffer = {}
  /\ tokens = 0 /\ steps = 0

----------------------------------------------------------------------------
(* Giving up a reference.  zval_ptr_dtor offers what survives to the       *)
(* collector; the fast release of pins and zval_ptr_dtor_nogc do not.      *)

Drop(e, rooted) == [entity |-> e, rooted |-> rooted, pin |-> FALSE]
Dropped(seq) ==
  [i \in DOMAIN seq |-> Drop(seq[i], TRUE)]

(* What of a sequence of values has a reference count, in order.           *)
Present(seq) ==
  LET kept[i \in 0 .. Len(seq)] ==
        IF i = 0 THEN <<>>
        ELSE IF seq[i] = None THEN kept[i - 1] ELSE Append(kept[i - 1], seq[i])
  IN kept[Len(seq)]

DropAll(seq) == Dropped(Present(seq))

(* A sequence of pairs as a sequence of values.                            *)
Unpaired(pairs) == [j \in 1 .. 2 * Len(pairs) |-> pairs[(j + 1) \div 2][2 - (j % 2)]]

Destructible(e) ==
  /\ heap[e].kind = "object"
  /\ heap[e].class.destructor
  /\ ~ heap[e].flagged

(* A destructor runs user code: it may keep what it sees, and throw.       *)
Destruct(e) ==
  /\ heap' = [heap EXCEPT ![e] = [@ EXCEPT !.flagged = TRUE, !.destroyed = TRUE]]
  /\ \E kept \in SUBSET Reach({e}) :
       /\ Cardinality(kept) <= 1
       /\ user' = user \cup kept
  /\ exception' \in {exception, TRUE}

Free(set) == [e \in Entities |->
  IF e \in set THEN [heap[e] EXCEPT !.alive = FALSE, !.slots = Empty] ELSE heap[e]]

(* Mutant: a value without a reference count is offered.                   *)
OfferedUnchecked(e) == IF e \in Kind("reference", heap) THEN {heap[e].slots[1]} ELSE {e}

(* gc_check_possible_root: in place of a reference, what it holds.         *)
Offered(e) == IF e \in Kind("reference", heap) THEN Held(e) ELSE {e} \ {None}

head == Head(drops)
Busy == drops # <<>>

Survives ==
  /\ Busy /\ Refcount(head.entity) > 1
  /\ drops' = Tail(drops)
  /\ buffer' = IF head.rooted THEN buffer \cup Offered(head.entity) ELSE buffer
  /\ UNCHANGED <<graphVars, orphan, phase, next, rootResult, exception, user, tokens, steps>>

CallDestructor ==
  /\ Busy /\ Refcount(head.entity) = 1 /\ Destructible(head.entity)
  /\ Destruct(head.entity)
  /\ UNCHANGED <<ids, deferred, frames, orphan, phase, next, result, rootResult, drops,
                 buffer, tokens, steps>>

FreeLast ==
  /\ Busy /\ Refcount(head.entity) = 1 /\ ~ Destructible(head.entity)
  /\ heap' = Free({head.entity})
  /\ buffer' = buffer \ {head.entity}
  /\ drops' = DropAll(heap[head.entity].slots) \o Tail(drops)
  /\ UNCHANGED <<ids, deferred, frames, orphan, phase, next, result, rootResult, exception,
                 user, tokens, steps>>

(* gc_collect_cycles: what the possible roots reach and only itself holds. *)
(* The roots that are not garbage leave the buffer.                        *)
Suspects == Reach(buffer)
Garbage  == Suspects \ Reach({e \in Suspects : Refcount(e) > SlotsThatHold(Suspects, e)})

(* It runs in user code, the walk's autoloaders included, or when offering *)
(* a root finds the buffer full.                                           *)
MayCollect ==
  /\ buffer # {}
  /\ \/ phase \in {"walk", "hook"}
     \/ Busy /\ head.rooted /\ (Refcount(head.entity) > 1 \/ Destructible(head.entity))

CollectDestructor ==
  /\ MayCollect
  /\ \E e \in Garbage : Destructible(e) /\ Destruct(e)
  /\ UNCHANGED <<ids, deferred, frames, orphan, phase, next, result, rootResult, drops,
                 buffer, tokens, steps>>

Collect ==
  /\ MayCollect
  /\ \A e \in Garbage : ~ Destructible(e)
  /\ heap' = Free(Garbage)
  /\ buffer' = {}
  /\ LET leaving == {s \in Garbage \X Slots : heap[s[1]].slots[s[2]] \notin Garbage \cup {None}}
         order == SE!SetToSeq(leaving)
     IN drops' = Dropped([i \in DOMAIN order |-> heap[order[i][1]].slots[order[i][2]]]) \o drops
  /\ UNCHANGED <<ids, deferred, frames, orphan, phase, next, result, rootResult, exception,
                 user, tokens, steps>>


----------------------------------------------------------------------------
(* The walk.  A frame is a call of decode_value that is not over: "props"  *)
(* and "array" have slots to fill, "skip" is an object of an unknown class *)
(* whose values are decoded and dropped, "hooked" awaits the data of an    *)
(* object that is given it as an array, "reference" its value.             *)

Frame(what, e) == [what |-> what, entity |-> e, data |-> None, sawRef |-> FALSE]
top == frames[Len(frames)]
Outer(stack) == SubSeq(stack, 1, Len(stack) - 1)

Walking ==
  /\ phase = "walk"
  /\ ~ Busy
  /\ tokens < MaxTokens
Token ==
  /\ Walking
  /\ tokens' = tokens + 1
  /\ UNCHANGED <<next, rootResult, exception, buffer, steps>>

(* Every frame on the stack: TAG_SHARED_ARRAY compares refs_seen.          *)
SawReference(stack) == [i \in DOMAIN stack |-> [stack[i] EXCEPT !.sawRef = TRUE]]

(* dec_prepare_hook: an object whose class has a hook is not destructed.   *)
PrepareHook(class) == class.destructor /\ class.hook \in {"unserialize", "wakeup"}

Create(kind, class) == Append(heap,
  [kind |-> kind, class |-> class, slots |-> Empty, alive |-> TRUE,
   flagged |-> PrepareHook(class), hooked |-> FALSE, destroyed |-> FALSE])
fresh == Len(heap) + 1
MayCreate == Len(heap) < MaxEntities

(* Mutant: an array's entry holds no reference.                            *)
RegisterArrayUnpinned(e, kind) == ids' = Append(ids, [entity |-> e, pinned |-> kind # "array"])

(* dec_register.                                                           *)
Register(e, kind) == ids' = Append(ids, [entity |-> e, pinned |-> TRUE])

(* Mutant: replacing a value is not noted.                                 *)
NotesNothing(seq) == FALSE

(* dec_note_drop: what a success path drops may have held a pin's entity.  *)
Notes(seq) == Present(seq) # <<>>

(* A value is decoded: it goes into the outermost open frame, replacing    *)
(* what a duplicate key left there.  Of the walk's other state, graph is   *)
(* the heap and stack the frames left by the value's own call; given was   *)
(* dropped by that call, and noted if it had to be.                        *)
Put(v, graph, stack, given, noted) ==
  IF stack = <<>>
  THEN /\ heap' = graph /\ frames' = stack
       /\ result' = v
       /\ phase' = "walked"
       /\ drops' = DropAll(given)
       /\ orphan' = (orphan \/ noted)
  ELSE LET f == stack[Len(stack)]
           into == f.entity
           Stay == frames' = stack /\ UNCHANGED <<result, phase>>
       IN \/ /\ f.what \in {"props", "array", "shared"}
             /\ \E k \in Slots :
                  LET old == <<graph[into].slots[k]>>
                  IN /\ heap' = Write(graph, into, k, v)
                     /\ drops' = DropAll(given \o old)
                     /\ orphan' = (orphan \/ noted \/ Notes(old))
             /\ Stay
          \/ /\ f.what = "skip"
             /\ heap' = graph
             /\ drops' = DropAll(given \o <<v>>)
             /\ orphan' = (orphan \/ noted \/ Notes(<<v>>))
             /\ Stay
          \/ /\ f.what = "hooked" /\ f.data = None
             /\ v \in Kind("array", graph)
             /\ heap' = graph
             /\ frames' = [stack EXCEPT ![Len(stack)].data = v]
             /\ drops' = DropAll(given)
             /\ orphan' = (orphan \/ noted)
             /\ UNCHANGED <<result, phase>>
          \/ /\ f.what = "reference"
             /\ v \notin Kind("reference", graph)
             /\ heap' = Write(graph, into, 1, v)
             /\ frames' = [stack EXCEPT ![Len(stack)].what = "referenced"]
             /\ drops' = DropAll(given)
             /\ orphan' = (orphan \/ noted)
             /\ UNCHANGED <<result, phase>>

Awaits ==
  frames # <<>> => /\ top.what # "referenced"
                   /\ top.what = "hooked" => top.data = None

ReadScalar ==
  /\ Token /\ Awaits
  /\ Put(None, heap, frames, <<>>, FALSE)
  /\ UNCHANGED <<ids, deferred, user>>

(* TAG_REF.                                                                *)
ReadBackReference ==
  /\ Token /\ Awaits
  /\ \E i \in DOMAIN ids :
       LET e == ids[i].entity
           stack == IF heap[e].kind = "reference" THEN SawReference(frames) ELSE frames
       IN Put(e, heap, stack, <<>>, FALSE)
  /\ UNCHANGED <<ids, deferred, user>>

(* TAG_OBJECT, TAG_OBJECT_SLOTS, TAG_OBJECT_MAGIC: made and registered     *)
(* before the contents.  A class with __unserialize gets its contents as   *)
(* an array from any of them; other classes from TAG_OBJECT_MAGIC only.    *)
ContentsOf(class) ==
  CASE class.hook = "unserialize" -> {"hooked"}
    [] class.hook = "unknown"     -> {"props", "hooked", "skip"}
    [] OTHER                      -> {"props", "hooked"}

BeginObject(class) ==
  /\ Token /\ Awaits /\ MayCreate
  /\ class.hook # "legacy"
  /\ heap' = Create("object", class)
  /\ Register(fresh, "object")
  /\ \E what \in ContentsOf(class) : frames' = Append(frames, Frame(what, fresh))
  /\ UNCHANGED <<deferred, orphan, phase, result, drops, user>>

(* TAG_NEW_REF; a reference never starts with a reference.                 *)
BeginReference ==
  /\ Token /\ Awaits /\ MayCreate
  /\ frames # <<>> => top.what # "reference"
  /\ heap' = Create("reference", NoClass)
  /\ Register(fresh, "reference")
  /\ frames' = Append(SawReference(frames), Frame("reference", fresh))
  /\ UNCHANGED <<deferred, orphan, phase, result, drops, user>>

(* The array tags, and TAG_SHARED_ARRAY in front of one.                   *)
BeginArray ==
  /\ Token /\ Awaits /\ MayCreate
  /\ heap' = Create("array", NoClass)
  /\ \E what \in {"array", "shared"} : frames' = Append(frames, Frame(what, fresh))
  /\ UNCHANGED <<ids, deferred, orphan, phase, result, drops, user>>

Queue(e, data) == deferred' = Append(deferred, [object |-> e, data |-> data])

EndValue ==
  /\ frames # <<>> /\ Token
  /\ \/ /\ top.what \in {"array", "referenced", "skip"}
        /\ UNCHANGED <<ids, deferred>>
     \/ /\ top.what = "shared" /\ ~ top.sawRef
        /\ Register(top.entity, "array")
        /\ UNCHANGED deferred
     \/ /\ top.what = "props"
        /\ IF heap[top.entity].class.hook = "wakeup"
           THEN Queue(top.entity, None) ELSE UNCHANGED deferred
        /\ UNCHANGED ids
  /\ Put(top.entity, heap, Outer(frames), <<>>, FALSE)
  /\ UNCHANGED user

(* The data of a hook is queued with it.                                   *)
EndHooked ==
  /\ frames # <<>> /\ Token
  /\ top.what = "hooked" /\ top.data # None
  /\ heap[top.entity].class.hook = "unserialize"
  /\ Queue(top.entity, top.data)
  /\ Put(top.entity, heap, Outer(frames), <<>>, FALSE)
  /\ UNCHANGED <<ids, user>>

(* Mutant: the data array is dropped without a note.                       *)
NotesNoData(e) == FALSE

(* A table somebody else holds may be left to its pin alone.               *)
NotesData(e) == Refcount(e) > 1

(* dec_apply_data_as_props: without __unserialize the data are copied into *)
(* the properties, and the array is dropped.                               *)
EndApplied ==
  /\ frames # <<>> /\ Token
  /\ top.what = "hooked" /\ top.data # None
  /\ heap[top.entity].class.hook # "unserialize"
  /\ IF heap[top.entity].class.hook = "wakeup"
     THEN Queue(top.entity, None) ELSE UNCHANGED deferred
  /\ Put(top.entity, [heap EXCEPT ![top.entity].slots = heap[top.data].slots],
         Outer(frames), <<top.data>>, NotesData(top.data))
  /\ UNCHANGED <<ids, user>>

(* TAG_OBJECT_LEGACY: the class's own unserialize makes the object, in     *)
(* user code that sees that object and what the program already held.      *)
ReadLegacy(class) ==
  /\ Token /\ Awaits /\ MayCreate
  /\ class.hook = "legacy"
  /\ \E v \in Reach(user) \cup {fresh, None}, keep \in SUBSET {fresh} :
       LET graph == Write(Create("object", class), fresh, 1, v)
       IN Put(fresh, graph, frames, <<>>, TRUE) /\ user' = user \cup keep
  /\ Register(fresh, "object")
  /\ UNCHANGED deferred

----------------------------------------------------------------------------
(* The end of phpser_decode_buf_opts.                                      *)

Rest == <<rootResult, user, buffer, tokens, steps>>

(* decode_destroy: the pins in the order of the ids, then the queue.  The  *)
(* fast release of a pin only counts down.                                 *)
Releases(live) ==
  LET pins  == Present([i \in DOMAIN ids |-> IF ids[i].pinned THEN ids[i].entity ELSE None])
      queue == [i \in DOMAIN deferred |-> <<deferred[i].object, deferred[i].data>>]
  IN [i \in DOMAIN pins |-> [entity |-> pins[i], rooted |-> ~ live, pin |-> TRUE]]
     \o DropAll(Unpaired(queue))

Destroy(first, live) ==
  /\ drops' = first \o Releases(live)
  /\ ids' = <<>> /\ deferred' = <<>>
  /\ phase' = "release"

(* A token, a budget, the memory limit or trailing bytes: every call gives *)
(* up its value, the innermost first; a reference lets go of what it holds *)
(* only when it is freed, for it holds nothing while its value is decoded. *)
Unwound ==
  Unpaired([i \in DOMAIN frames |->
    LET f == frames[Len(frames) + 1 - i] IN <<f.data, f.entity>>])

Abandon(value) ==
  /\ Destroy(DropAll(value \o Unwound \o <<result>>), FALSE)
  /\ frames' = <<>> /\ result' = None
  /\ UNCHANGED <<heap, orphan, next, exception, Rest>>

Fail ==
  /\ phase \in {"walk", "walked"} /\ ~ Busy
  /\ Abandon(<<>>)

(* A TAG_REF to a value that may not stand where it is.                    *)
Refuse ==
  /\ Walking /\ frames # <<>> /\ Awaits
  /\ \E i \in DOMAIN ids :
       /\ \/ top.what = "reference" /\ ids[i].entity \in Kind("reference", heap)
          \/ top.what = "hooked" /\ ids[i].entity \notin Kind("array", heap)
       /\ Abandon(<<ids[i].entity>>)

StartHooks ==
  /\ phase = "walked" /\ ~ Busy
  /\ phase' = "hooks"
  /\ UNCHANGED <<graphVars, orphan, next, exception, drops, Rest>>

CallHook ==
  /\ phase = "hooks" /\ next <= Len(deferred)
  /\ phase' = "hook"
  /\ UNCHANGED <<graphVars, orphan, next, exception, drops, Rest>>

(* The hook's statements: it changes the properties of objects, and the    *)
(* values of references, that it can reach; it keeps and forgets values.   *)
called == deferred[next]
Visible == Reach(user \cup ({called.object, called.data} \ {None}))

Statement ==
  /\ phase = "hook" /\ ~ Busy
  /\ steps < MaxSteps
  /\ steps' = steps + 1
  /\ UNCHANGED <<ids, deferred, frames, orphan, phase, next, result, rootResult, exception,
                 buffer, tokens>>

Assign ==
  /\ Statement
  /\ \E e \in Visible, k \in Slots, v \in Visible \cup {None} :
       /\ heap[e].kind # "array"
       /\ heap[e].kind = "reference" => k = 1 /\ v \notin Kind("reference", heap)
       /\ heap' = Write(heap, e, k, v)
       /\ drops' = DropAll(<<heap[e].slots[k]>>)
  /\ UNCHANGED user

Keep ==
  /\ Statement
  /\ \E e \in Visible : user' = user \cup {e}
  /\ UNCHANGED <<heap, drops>>

Forget ==
  /\ Statement
  /\ \E e \in user : user' = user \ {e} /\ drops' = DropAll(<<e>>)
  /\ UNCHANGED heap

(* Mutant: the destructor is allowed again whatever the hook did.          *)
FlagCleared(threw) == TRUE

ClearsFlag(threw) == ~ threw

(* A hook that does not throw has made its object whole.  An exception     *)
(* ends the loop.                                                          *)
HookReturns ==
  /\ phase = "hook" /\ ~ Busy
  /\ \E threw \in {exception, TRUE} :
       /\ exception' = threw
       /\ LET object == heap[called.object]
          IN heap' = [heap EXCEPT ![called.object] =
               [object EXCEPT !.flagged = (object.flagged /\ ~ ClearsFlag(threw)),
                              !.hooked = (object.hooked \/ ~ threw)]]
       /\ next' = IF threw THEN Len(deferred) + 1 ELSE next + 1
  /\ phase' = "hooks"
  /\ UNCHANGED <<ids, deferred, frames, orphan, result, drops, Rest>>

(* Every pinned entity can still be reached from the result.               *)
ResultLive == ids # <<>> /\ ~ orphan /\ deferred = <<>> /\ ~ exception

(* ids_may_cycle: an object or a reference claimed an id.                  *)
MayCycle == \E i \in DOMAIN ids : heap[ids[i].entity].kind # "array"

HooksDone ==
  /\ phase = "hooks" /\ next > Len(deferred)
  /\ Destroy(<<>>, ResultLive)
  /\ rootResult' = (ResultLive /\ MayCycle)
  /\ UNCHANGED <<heap, frames, orphan, next, result, exception, user, buffer, tokens, steps>>

(* A reference at the top is replaced by its value.                        *)
Unwrap ==
  /\ phase = "release" /\ ~ Busy
  /\ phase' = "unwrapped"
  /\ IF result \in Kind("reference", heap)
     THEN result' = heap[result].slots[1] /\ drops' = Dropped(<<result>>)
     ELSE UNCHANGED <<result, drops>>
  /\ UNCHANGED <<heap, ids, deferred, frames, orphan, next, exception, Rest>>

Return ==
  /\ phase = "unwrapped" /\ ~ Busy
  /\ phase' = "returned"
  /\ IF exception
     THEN /\ result' = None /\ drops' = DropAll(<<result>>)
          /\ UNCHANGED buffer
     ELSE /\ buffer' = IF rootResult THEN buffer \cup Offered(result) ELSE buffer
          /\ UNCHANGED <<result, drops>>
  /\ UNCHANGED <<heap, ids, deferred, frames, orphan, next, rootResult, exception, user,
                 tokens, steps>>

(* The caller discards the value: zval_ptr_dtor_nogc.                      *)
Discard ==
  /\ phase = "returned" /\ ~ Busy /\ result # None
  /\ phase' = "discarded"
  /\ drops' = <<Drop(result, FALSE)>>
  /\ result' = None
  /\ UNCHANGED <<heap, ids, deferred, frames, orphan, next, exception, Rest>>

Next ==
  \/ Survives \/ CallDestructor \/ FreeLast \/ CollectDestructor \/ Collect
  \/ ReadScalar \/ ReadBackReference \/ BeginReference \/ BeginArray
  \/ EndValue \/ EndHooked \/ EndApplied
  \/ \E class \in Classes : BeginObject(class) \/ ReadLegacy(class)
  \/ Fail \/ Refuse \/ StartHooks \/ CallHook \/ Assign \/ Keep \/ Forget
  \/ HookReturns \/ HooksDone \/ Unwrap \/ Return \/ Discard

Spec == Init /\ [][Next]_vars

----------------------------------------------------------------------------
Ids(e) == {e} \ {None}

Entity ==
  [kind : {"object", "reference", "array"}, class : Classes \cup {NoClass},
   slots : [Slots -> Nat], alive : BOOLEAN, flagged : BOOLEAN, hooked : BOOLEAN,
   destroyed : BOOLEAN]
IdEntry == [entity : Entities, pinned : BOOLEAN]
Call ==
  [what : {"props", "skip", "hooked", "reference", "referenced", "array", "shared"},
   entity : Entities, data : Entities \cup {None}, sawRef : BOOLEAN]

TypeOK ==
  /\ heap \in Seq(Entity) /\ Len(heap) <= MaxEntities
  /\ \A e \in Entities : Held(e) \subseteq Entities
  /\ ids \in Seq(IdEntry)
  /\ frames \in Seq(Call)
  /\ deferred \in Seq([object : Entities, data : Entities \cup {None}])
  /\ drops \in Seq([entity : Entities, rooted : BOOLEAN, pin : BOOLEAN])
  /\ phase \in {"walk", "walked", "hooks", "hook", "release", "unwrapped", "returned",
               "discarded"}
  /\ orphan \in BOOLEAN /\ rootResult \in BOOLEAN /\ exception \in BOOLEAN
  /\ result \in Entities \cup {None}
  /\ user \subseteq Entities /\ buffer \subseteq Entities
  /\ next \in 1 .. MaxEntities + 1
  /\ tokens \in 0 .. MaxTokens /\ steps \in 0 .. MaxSteps

(* Whatever duplicate keys replaced, hooks let go of, destructors did and  *)
(* the collector ran, nothing that a later TAG_REF may name, that a queued *)
(* hook will be called on or with, that is being filled or released, or    *)
(* that can be reached from those, the result or the program, is freed.    *)
NamedIsAlive ==
  \A e \in Reach({ids[i].entity : i \in DOMAIN ids}
                 \cup (UNION {Ids(deferred[i].object) \cup Ids(deferred[i].data)
                              : i \in DOMAIN deferred})
                 \cup (UNION {Ids(frames[i].entity) \cup Ids(frames[i].data)
                              : i \in DOMAIN frames})
                 \cup {drops[i].entity : i \in DOMAIN drops}
                 \cup Ids(result) \cup user \cup buffer) : heap[e].alive

(* An object whose class has a hook is not destructed unless its own hook  *)
(* ran to its end: not after a refused frame, after a hook that threw      *)
(* before its turn, in another object's hook, nor by the collector.        *)
NoDestructorBeforeHook ==
  \A e \in Entities :
    heap[e].destroyed /\ heap[e].class.hook \in {"unserialize", "wakeup"} => heap[e].hooked

(* decode_destroy's assertion, "pin was the last holder; missed            *)
(* dec_note_drop": the fast release of a pin never frees.                  *)
FastReleaseFreesNothing ==
  Busy /\ head.pin /\ ~ head.rooted => Refcount(head.entity) > 1

Found(program) ==
  {e \in Entities : heap[e].alive} \subseteq Reach(program \cup user \cup buffer)

(* When the decoder returns, everything decoded and not freed can be       *)
(* reached by the program, from the result, or from a possible root, so    *)
(* that the collector finds it when it is garbage.  After a decode that    *)
(* dropped nothing and called no hook, whose pins were released fast, that *)
(* is so even if the caller discards the result at once, without offering  *)
(* it to the collector.                                                    *)
NothingLeaks ==
  ~ Busy =>
    /\ phase = "returned" => Found(Ids(result))
    /\ phase = "discarded" /\ ~ orphan /\ next = 1 => Found({})

(* phpser.c:4856, of the slow release: "The slow release already buffered  *)
(* each surviving entity", so a result that is discarded needs no root.    *)
SlowReleaseRoots ==
  phase = "discarded" /\ ~ Busy => Found({})

=============================================================================
