---------------------------- MODULE GraphEncoder ----------------------------
(***************************************************************************)
(* The encoder's walk over a graph of arrays, references and objects       *)
(* (encode_value_ex and what it calls).  Objects and references are        *)
(* written once and repeated by id; so are arrays held in several places,  *)
(* unless a PHP reference was met inside them.                             *)
(*                                                                         *)
(* The C recursion is an explicit agenda of tasks, head first.  Hooks only *)
(* choose their outcome here; what they may do to the graph meanwhile is   *)
(* the subject of EncoderPins.                                             *)
(***************************************************************************)
EXTENDS ObjectGraph, DepthLimit

CONSTANT Graphs         \* the graphs encoded

ASSUME EncoderAssumption == \A g \in Graphs : WellFormed(g)

VARIABLES
  graph,
  agenda,       \* tasks left, head first
  body,         \* tokens written
  claim,        \* id table: node -> NoEntry, Pending, Unshared or its id
  nextId,
  refsSeen,
  hold,         \* references the encoder holds on each node for a walk
  pinsActive,
  nulled,       \* objects a hook made the encoder write as NULL
  depthExceeded,
  failed,
  encoded       \* "no", "ok", "depth", "exception", or "none": no encode here

table  == <<claim, nextId>>
encVars == <<graph, maxDepth, agenda, body, claim, nextId, refsSeen, hold, pinsActive,
             nulled, depthExceeded, failed, encoded>>

NoEntry  == -3
Pending  == -2
Unshared == -1
HasId(n) == claim[n] >= 0

Token(tag, arg, node) == [tag |-> tag, arg |-> arg, node |-> node]
RefTo(n) == Token("ref", claim[n], n)
NullFor(n) == Token("null", 0, n)

Kind(n) == graph.kind[n]
Kids(n) == graph.kids[n]

(* What GC_REFCOUNT shows the encoder: the program's references, its own   *)
(* for the walk, and the pin of an id-table entry.  An immutable array has *)
(* no reference count.                                                     *)
Refcount(n) ==
  OwnRefcount(graph, n) + hold[n]
    + (IF pinsActive /\ claim[n] # NoEntry THEN 1 ELSE 0)

(* A list of values retained or released: its nodes are, once for each     *)
(* place; a scalar has no count.                                           *)
Times(values, n) == Cardinality({i \in DOMAIN values : values[i] = n})
(* Mutant: a node listed twice is retained once.                           *)
HeldOnce(values) ==
  [n \in DOMAIN hold |-> hold[n] + (IF Times(values, n) > 0 THEN 1 ELSE 0)]

Held(values)     == [n \in DOMAIN hold |-> hold[n] + Times(values, n)]
Released(values) == [n \in DOMAIN hold |-> hold[n] - Times(values, n)]

(* Tasks: a value to encode (ENC_RCN: reached through a shared container;  *)
(* ENC_BORROWED: the encoder itself holds one reference to it; element: of *)
(* an array), the end of an array's walk, the release of a snapshot.       *)
ValueTask(v, depth, rcn, borrowed) ==
  [do |-> "value", v |-> v, depth |-> depth, rcn |-> rcn, borrowed |-> borrowed,
   element |-> FALSE]
ValueTasks(values, depth, rcn, borrowed) ==
  [i \in DOMAIN values |-> ValueTask(values[i], depth, rcn, borrowed)]
ElementTasks(values, depth, rcn, borrowed) ==
  [i \in DOMAIN values |->
     [ValueTask(values[i], depth, rcn, borrowed) EXCEPT !.element = TRUE]]
ArrayDoneTask(n, held, claimed) ==
  [do |-> "arrayDone", n |-> n, held |-> held, claimed |-> claimed,
   at |-> Len(body) + 1, refs |-> refsSeen]
ReleaseTask(held) == [do |-> "release", held |-> held]

task == Head(agenda)

EncInit ==
  /\ graph \in Graphs /\ maxDepth \in MaxDepths
  /\ agenda = <<ValueTask(1, 0, FALSE, FALSE)>>
  /\ body = <<>>
  /\ claim = [n \in Nodes(graph) |-> NoEntry]
  /\ nextId = 0
  /\ refsSeen = 0
  /\ hold = [n \in Nodes(graph) |-> 0]
  /\ pinsActive = FALSE
  /\ nulled = {}
  /\ depthExceeded = FALSE
  /\ failed = FALSE
  /\ encoded = "no"

----------------------------------------------------------------------------
(* encode_value_ex: the checks before the type switch.                     *)

IsValue == agenda # <<>> /\ task.do = "value"

(* Mutant: the depth check lets one more level through.                    *)
VisitingOneDeeper(n) ==
  /\ IsValue
  /\ ~ failed
  /\ task.depth <= maxDepth
  /\ n = task.v

(* A value the type switch sees; its depth is the task's plus one.         *)
Visiting(n) ==
  /\ IsValue
  /\ ~ failed
  /\ task.depth < maxDepth
  /\ n = task.v

Emit(tokens) == body' = body \o tokens
Then(tasks)  == agenda' = tasks \o Tail(agenda)
NothingMore  == Then(<<>>)

(* After a failure placeholders keep the container counts right.           *)
FailedPlaceholder ==
  /\ IsValue
  /\ failed
  /\ Emit(<<NullFor(task.v)>>)
  /\ NothingMore
  /\ UNCHANGED <<graph, table, refsSeen, hold, pinsActive, nulled,
                 depthExceeded, failed, encoded>>

TooDeep ==
  /\ IsValue
  /\ ~ failed
  /\ task.depth >= maxDepth
  /\ depthExceeded' = TRUE
  /\ Emit(<<NullFor(task.v)>>)
  /\ NothingMore
  /\ UNCHANGED <<graph, table, refsSeen, hold, pinsActive, nulled, failed, encoded>>

(* A scalar; the elements of an array that make a typed run are written    *)
(* without a recursion, so the depth does not bound them.                  *)
EncodeScalar ==
  /\ IsValue
  /\ ~ failed
  /\ task.v = Scalar
  /\ task.depth < maxDepth \/ task.element
  /\ Emit(<<Token("scalar", 0, Scalar)>>)
  /\ NothingMore
  /\ UNCHANGED <<graph, table, refsSeen, hold, pinsActive, nulled,
                 depthExceeded, failed, encoded>>

----------------------------------------------------------------------------
(* Arrays.                                                                 *)

IsImmutable(n) == Kind(n) = "immutable"

(* ht_shared: the raw reference count, before the protective addref.       *)
IsShared(n) == ~ IsImmutable(n) /\ Refcount(n) > 1

(* Held in several places of the graph, so worth an id.  The top level is  *)
(* not, and a reference the encoder holds does not count.                  *)
WorthClaiming(n) ==
  /\ IsImmutable(n) \/ Refcount(n) > (IF task.borrowed THEN 2 ELSE 1)
  /\ task.depth > 0
  /\ Kids(n) # <<>>

(* Mutant: a private copy drops references that have one other holder.     *)
DupKidDropsAlias(n, k) ==
  IF IsNode(k) /\ Kind(k) = "reference" /\ Refcount(k) <= 2 /\ Kids(k)[1] # n
    THEN Kids(k)[1] ELSE k

(* zend_array_dup copies a reference nobody else holds as its value.       *)
DupKid(n, k) ==
  IF IsNode(k) /\ Kind(k) = "reference" /\ Refcount(k) = 1 /\ Kids(k)[1] # n
    THEN Kids(k)[1] ELSE k
Dup(n) == [i \in DOMAIN Kids(n) |-> DupKid(n, Kids(n)[i])]

(* enc_pin_walk: a shared nested array is walked through a private copy.   *)
WalksDup(n) == IsShared(n) /\ task.depth > 0

(* enc_visit_array, ENC_ARR_REPEAT.                                        *)
ArrayRepeat(n) ==
  /\ Visiting(n)
  /\ IsNode(n) /\ Kind(n) \in ArrayKinds
  /\ WorthClaiming(n)
  /\ HasId(n)
  /\ Emit(<<RefTo(n)>>)
  /\ NothingMore
  /\ UNCHANGED <<graph, table, refsSeen, hold, pinsActive, nulled,
                 depthExceeded, failed, encoded>>

(* A walk: claiming (ENC_ARR_NEW, also to retry an unshared array), or by  *)
(* value, which is what an array still being walked gets.                  *)
ArrayWalk(n) ==
  /\ Visiting(n)
  /\ IsNode(n) /\ Kind(n) \in ArrayKinds
  /\ ~ (WorthClaiming(n) /\ HasId(n))
  /\ LET claiming == WorthClaiming(n) /\ claim[n] \in {NoEntry, Unshared}
         values   == IF WalksDup(n) THEN Dup(n) ELSE Kids(n)
         copied   == IF WalksDup(n) THEN values ELSE <<>>
         locked   == IF IsImmutable(n) THEN copied ELSE copied \o <<n>>
     IN /\ claim' = IF claiming THEN [claim EXCEPT ![n] = Pending] ELSE claim
        /\ hold' = Held(locked)
        /\ Emit((IF claiming THEN <<Token("shared", 0, n)>> ELSE <<>>)
                  \o <<Token("array", Len(values), n)>>)
        /\ Then(ElementTasks(values, task.depth + 1, task.rcn \/ IsShared(n), WalksDup(n))
                  \o <<ArrayDoneTask(n, locked, claiming)>>)
  /\ UNCHANGED <<graph, nextId, refsSeen, pinsActive, nulled, depthExceeded,
                 failed, encoded>>

WithoutToken(at) == SubSeq(body, 1, at - 1) \o SubSeq(body, at + 1, Len(body))

(* enc_visit for an entity that is not in the table yet.                   *)
Claim(n) == claim' = [claim EXCEPT ![n] = nextId] /\ nextId' = nextId + 1

(* enc_array_done: the id is claimed after those of the contents; a walk   *)
(* that met a reference loses its TAG_SHARED_ARRAY prefix instead.         *)
ArrayDone ==
  /\ agenda # <<>>
  /\ task.do = "arrayDone"
  /\ hold' = Released(task.held)
  /\ \/ /\ ~ task.claimed
        /\ UNCHANGED <<table, body>>
     \/ /\ task.claimed
        /\ refsSeen = task.refs
        /\ Claim(task.n)
        /\ UNCHANGED body
     \/ /\ task.claimed
        /\ refsSeen # task.refs
        /\ claim' = [claim EXCEPT ![task.n] = Unshared]
        /\ body' = WithoutToken(task.at)
        /\ UNCHANGED nextId
  /\ NothingMore
  /\ UNCHANGED <<graph, refsSeen, pinsActive, nulled, depthExceeded, failed, encoded>>

----------------------------------------------------------------------------
(* References and objects.                                                 *)

ReferenceRepeat(n) ==
  /\ Visiting(n)
  /\ IsNode(n) /\ Kind(n) = "reference"
  /\ HasId(n)
  /\ refsSeen' = refsSeen + 1
  /\ Emit(<<RefTo(n)>>)
  /\ NothingMore
  /\ UNCHANGED <<graph, table, hold, pinsActive, nulled, depthExceeded, failed, encoded>>

ReferenceNew(n) ==
  /\ Visiting(n)
  /\ IsNode(n) /\ Kind(n) = "reference"
  /\ ~ HasId(n)
  /\ refsSeen' = refsSeen + 1
  /\ Claim(n)
  /\ Emit(<<Token("new_ref", 1, n)>>)
  /\ Then(ValueTasks(Kids(n), task.depth + 1, TRUE, FALSE))
  /\ UNCHANGED <<graph, hold, pinsActive, nulled, depthExceeded, failed, encoded>>

(* Mutant: sharing is not inherited from the containers above.             *)
IsTrackedByCount(n) ==
  Refcount(n) > 1 \/ Kind(n) \in {"magic", "factory", "sleep"}

(* identity_tracked: somebody else may lead back to this object.  A unique *)
(* object only takes the next id.                                          *)
IsTracked(n) ==
  task.rcn \/ Refcount(n) > 1 \/ Kind(n) \in {"magic", "factory", "sleep"}

ObjectRepeat(n) ==
  /\ Visiting(n)
  /\ IsNode(n) /\ Kind(n) \in ObjectKinds \ {"forbidden"}
  /\ IsTracked(n)
  /\ HasId(n)
  /\ Emit(<<RefTo(n)>>)
  /\ NothingMore
  /\ UNCHANGED <<graph, table, refsSeen, hold, pinsActive, nulled,
                 depthExceeded, failed, encoded>>

NewObject(n, kinds) ==
  /\ Visiting(n)
  /\ IsNode(n) /\ Kind(n) \in kinds
  /\ ~ (IsTracked(n) /\ HasId(n))

ClaimObject(n) ==
  /\ claim' = IF IsTracked(n) THEN [claim EXCEPT ![n] = nextId] ELSE claim
  /\ nextId' = nextId + 1

(* TAG_OBJECT_SLOTS: from the first value that can run a hook on, slots    *)
(* are read from a snapshot; scalars before it need none.                  *)
EncodeSlots(n) ==
  /\ NewObject(n, {"slots"})
  /\ ClaimObject(n)
  /\ hold' = Held(Kids(n))
  /\ Emit(<<Token("object", Len(Kids(n)), n)>>)
  /\ Then(ValueTasks(Kids(n), task.depth + 1, TRUE, TRUE)
            \o <<ReleaseTask(Kids(n))>>)
  /\ UNCHANGED <<graph, refsSeen, pinsActive, nulled, depthExceeded, failed, encoded>>

(* TAG_OBJECT from a property table that the walk pins, not copies.        *)
EncodeKeyed(n) ==
  /\ NewObject(n, {"keyed"})
  /\ ClaimObject(n)
  /\ Emit(<<Token("object", Len(Kids(n)), n)>>)
  /\ Then(ValueTasks(Kids(n), task.depth + 1, TRUE, FALSE))
  /\ UNCHANGED <<graph, refsSeen, hold, pinsActive, nulled, depthExceeded, failed, encoded>>

(* An enum case: class and case name.                                      *)
EncodeEnum(n) ==
  /\ NewObject(n, {"enum"})
  /\ ClaimObject(n)
  /\ Emit(<<Token("leaf", 0, n)>>)
  /\ NothingMore
  /\ UNCHANGED <<graph, refsSeen, hold, pinsActive, nulled, depthExceeded, failed, encoded>>

(* An object of an unserializable class aborts the frame and claims no id. *)
Refuse(n) ==
  /\ Visiting(n)
  /\ IsNode(n) /\ Kind(n) = "forbidden"
  /\ failed' = TRUE
  /\ Emit(<<NullFor(n)>>)
  /\ NothingMore
  /\ UNCHANGED <<graph, table, refsSeen, hold, pinsActive, nulled, depthExceeded, encoded>>

----------------------------------------------------------------------------
(* Objects that run user code while they are encoded: the id is claimed    *)
(* and every table entry pinned before the hook is called.                 *)

HookTask(n) ==
  [do |-> "hook", n |-> n, depth |-> task.depth, tracked |-> IsTracked(n)]

CallHook(n) ==
  /\ NewObject(n, HookKinds)
  /\ ClaimObject(n)
  /\ pinsActive' = TRUE
  /\ Then(<<HookTask(n)>>)
  /\ UNCHANGED <<graph, body, refsSeen, hold, nulled, depthExceeded, failed, encoded>>

HookReturned(n, kinds) ==
  /\ agenda # <<>>
  /\ task.do = "hook"
  /\ n = task.n
  /\ Kind(n) \in kinds

(* __sleep() returned names, or a lazy object was initialized and its      *)
(* table pinned.  Sleep owns keys and values from then on.                 *)
EncodeHooked(n) ==
  /\ HookReturned(n, {"sleep", "lazy"})
  /\ LET copied == IF Kind(n) = "sleep" THEN Kids(n) ELSE <<>>
     IN /\ hold' = Held(copied)
        /\ Then(ValueTasks(Kids(n), task.depth + 1, TRUE, Kind(n) = "sleep")
                  \o <<ReleaseTask(copied)>>)
  /\ Emit(<<Token("object", Len(Kids(n)), n)>>)
  /\ UNCHANGED <<graph, table, refsSeen, pinsActive, nulled, depthExceeded, failed, encoded>>

EncodeLegacy(n) ==
  /\ HookReturned(n, {"legacy"})
  /\ Emit(<<Token("leaf", 0, n)>>)
  /\ NothingMore
  /\ UNCHANGED <<graph, table, refsSeen, hold, pinsActive, nulled,
                 depthExceeded, failed, encoded>>

(* __serialize() returned the object's own array: the return value is one  *)
(* more reference to it, discounted as borrowed.                           *)
EncodeMagic(n) ==
  /\ HookReturned(n, {"magic"})
  /\ hold' = Held(Kids(n))
  /\ Emit(<<Token("magic", 1, n)>>)
  /\ Then(ValueTasks(Kids(n), task.depth + 1, FALSE, TRUE)
            \o <<ReleaseTask(Kids(n))>>)
  /\ UNCHANGED <<graph, table, refsSeen, pinsActive, nulled, depthExceeded, failed, encoded>>

(* __serialize() built an array: nobody else holds it, so it is walked by  *)
(* value, one level deeper, with the caller's flags cleared.               *)
EncodeFactory(n) ==
  /\ HookReturned(n, {"factory"})
  /\ LET fits == task.depth + 1 < maxDepth
         kids == IF fits THEN Kids(n) ELSE <<>>
     IN /\ hold' = Held(kids)
        /\ Emit(<<Token("magic", 1, n),
                  IF fits THEN Token("array", Len(kids), n) ELSE NullFor(n)>>)
        /\ Then(ElementTasks(kids, task.depth + 2, FALSE, FALSE)
                  \o <<ReleaseTask(kids)>>)
        /\ depthExceeded' = (depthExceeded \/ ~ fits)
  /\ UNCHANGED <<graph, table, refsSeen, pinsActive, nulled, failed, encoded>>

(* Mutant: the id is not given back.                                       *)
UnvisitKeepsId(n, tracked) ==
  /\ claim' = IF tracked THEN [claim EXCEPT ![n] = NoEntry] ELSE claim
  /\ UNCHANGED nextId

(* enc_unvisit_last: TAG_NULL claims no id in the decoder, so the claim    *)
(* made for the hook is undone.                                            *)
Unvisit(n, tracked) ==
  /\ claim' = IF tracked THEN [claim EXCEPT ![n] = NoEntry] ELSE claim
  /\ nextId' = nextId - 1

(* __sleep() returned no array, or the legacy handler failed quietly.      *)
HookYieldsNull(n) ==
  /\ HookReturned(n, {"sleep", "legacy"})
  /\ Unvisit(n, task.tracked)
  /\ nulled' = nulled \cup {n}
  /\ Emit(<<NullFor(n)>>)
  /\ NothingMore
  /\ UNCHANGED <<graph, refsSeen, hold, pinsActive, depthExceeded, failed, encoded>>

HookThrows(n) ==
  /\ HookReturned(n, HookKinds)
  /\ Unvisit(n, task.tracked)
  /\ failed' = TRUE
  /\ Emit(<<NullFor(n)>>)
  /\ NothingMore
  /\ UNCHANGED <<graph, refsSeen, hold, pinsActive, nulled, depthExceeded, encoded>>

(* Mutant: a failure skips the release.                                    *)
ReleaseUnlessFailed ==
  /\ agenda # <<>>
  /\ task.do = "release"
  /\ hold' = IF failed THEN hold ELSE Released(task.held)
  /\ NothingMore
  /\ UNCHANGED <<graph, body, table, refsSeen, pinsActive, nulled,
                 depthExceeded, failed, encoded>>

(* The end of a snapshot or of a hook's return value.                      *)
ReleaseSnapshot ==
  /\ agenda # <<>>
  /\ task.do = "release"
  /\ hold' = Released(task.held)
  /\ NothingMore
  /\ UNCHANGED <<graph, body, table, refsSeen, pinsActive, nulled,
                 depthExceeded, failed, encoded>>

----------------------------------------------------------------------------
(* phpser_encode_zval_ex after the walk: an exception outranks the depth.  *)

Outcome ==
  IF failed THEN "exception" ELSE IF depthExceeded THEN "depth" ELSE "ok"

EncFinish ==
  /\ encoded = "no"
  /\ agenda = <<>>
  /\ encoded' = Outcome
  /\ pinsActive' = FALSE
  /\ UNCHANGED <<graph, agenda, body, table, refsSeen, hold, nulled,
                 depthExceeded, failed>>

EncodeValue(n) ==
  \/ ArrayRepeat(n) \/ ArrayWalk(n)
  \/ ReferenceRepeat(n) \/ ReferenceNew(n)
  \/ ObjectRepeat(n) \/ EncodeSlots(n) \/ EncodeKeyed(n) \/ EncodeEnum(n)
  \/ Refuse(n) \/ CallHook(n)

AfterHook(n) ==
  \/ EncodeHooked(n) \/ EncodeLegacy(n) \/ EncodeMagic(n) \/ EncodeFactory(n)
  \/ HookYieldsNull(n) \/ HookThrows(n)

EncNext ==
  \/ FailedPlaceholder \/ TooDeep \/ EncodeScalar
  \/ \E n \in Nodes(graph) : EncodeValue(n) \/ AfterHook(n)
  \/ ArrayDone \/ ReleaseSnapshot \/ EncFinish

----------------------------------------------------------------------------
(* Properties of the walk itself.                                          *)

TaskType(t) ==
  CASE t.do = "value"     -> t.v \in Nodes(graph) \cup {Scalar}
    [] t.do = "arrayDone" -> t.n \in Nodes(graph) /\ t.at \in Nat /\ t.refs \in Nat
    [] t.do = "hook"      -> t.n \in Nodes(graph)
    [] t.do = "release"   -> TRUE

EncTypeOK ==
  /\ \A i \in DOMAIN agenda : TaskType(agenda[i])
  /\ claim \in [Nodes(graph) -> {NoEntry, Pending, Unshared} \cup Nat]
  /\ nextId \in Nat
  /\ refsSeen \in Nat
  /\ hold \in [Nodes(graph) -> Nat]
  /\ pinsActive \in BOOLEAN
  /\ nulled \subseteq Nodes(graph)
  /\ depthExceeded \in BOOLEAN /\ failed \in BOOLEAN
  /\ encoded \in {"no", "ok", "depth", "exception", "none"}

(* Everything the encoder took a reference to for the walk is released     *)
(* when the walk ends, also after a failure.                               *)
HoldsReleased == agenda = <<>> => \A n \in Nodes(graph) : hold[n] = 0
=============================================================================
