---------------------------- MODULE GraphDecoder ----------------------------
(***************************************************************************)
(* The decoder's walk over the tokens of a frame (decode_value and what it *)
(* calls).  It builds entities numbered in creation order and registers    *)
(* those that own an id: objects and references before their contents, a   *)
(* shared array after them.  The C recursion is an explicit agenda.        *)
(*                                                                         *)
(* Which class a name resolves to, typed properties and hooks after the    *)
(* walk are left out: every object decodes to an object.                   *)
(***************************************************************************)
EXTENDS DepthLimit, Sequences, FiniteSets

VARIABLES
  frame,        \* the tokens
  pos,          \* tokens consumed
  todo,         \* agenda: values to decode, ends of wrappers
  made,         \* entities created: kind, kids, and the token they came from
  ids,          \* id table, ids from 0
  dRefsSeen,
  result,       \* the decoded value
  decoded       \* "no", "running", "ok" or "failed"

decVars == <<maxDepth, frame, pos, todo, made, ids, dRefsSeen, result, decoded>>

NoValue  == -9
DScalar  == 0
DNull    == -1

(* A value goes into entity `into` (0: it is the result).  Where the code  *)
(* calls decode_value_hot a scalar is read whatever the depth.             *)
ReadTask(into, depth, hot) ==
  [do |-> "read", into |-> into, depth |-> depth, hot |-> hot]
ReadTasks(count, into, depth) == [i \in 1 .. count |-> ReadTask(into, depth, TRUE)]

todoHead == Head(todo)
token == frame[pos + 1]

DecInit(tokens) ==
  /\ frame = tokens
  /\ pos = 0
  /\ todo = <<>>
  /\ made = <<>>
  /\ ids = <<>>
  /\ dRefsSeen = 0
  /\ result = NoValue
  /\ decoded = "no"

(* phpser_decode_buf_opts.                                                 *)
DecStart(tokens) ==
  /\ decoded = "no"
  /\ frame' = tokens
  /\ decoded' = "running"
  /\ todo' = <<ReadTask(0, 0, FALSE)>>
  /\ UNCHANGED <<pos, made, ids, dRefsSeen, result>>

----------------------------------------------------------------------------

ScalarTags == {"scalar", "null"}

(* decode_value, behind decode_value_hot: MAX_DEPTH.                       *)
DepthAllows ==
  todoHead.depth < maxDepth \/ (todoHead.hot /\ token.tag \in ScalarTags)

Reading(tags) ==
  /\ decoded = "running"
  /\ todo # <<>> /\ todoHead.do = "read"
  /\ pos < Len(frame)
  /\ token.tag \in tags
  /\ DepthAllows

(* Mutant: the tag is consumed twice.                                      *)
AdvanceTwice == pos' = pos + 2

Advance == pos' = pos + 1
ThenRead(tasks) == todo' = tasks \o Tail(todo)

(* Store v where the task wants it, in entities or as the result.          *)
StoreIn(entities, v) ==
  IF todoHead.into = 0 THEN entities
  ELSE [entities EXCEPT ![todoHead.into].kids = Append(@, v)]
Store(entities, v) ==
  /\ made' = StoreIn(entities, v)
  /\ result' = IF todoHead.into = 0 THEN v ELSE result

new == Len(made) + 1
Create(kind) == Append(made, [kind |-> kind, kids |-> <<>>, from |-> token])
Register(v)  == ids' = Append(ids, v)

ReadScalar ==
  /\ Reading(ScalarTags)
  /\ Store(made, IF token.tag = "null" THEN DNull ELSE DScalar)
  /\ Advance /\ ThenRead(<<>>)
  /\ UNCHANGED <<frame, ids, dRefsSeen, decoded>>

InTable(id) == id < Len(ids)

(* TAG_REF: an id that is not registered yet is refused.                   *)
ReadBackReference ==
  /\ Reading({"ref"})
  /\ InTable(token.arg)
  /\ LET v == ids[token.arg + 1]
     IN /\ Store(made, v)
        /\ dRefsSeen' = dRefsSeen + (IF made[v].kind = "reference" THEN 1 ELSE 0)
  /\ Advance /\ ThenRead(<<>>)
  /\ UNCHANGED <<frame, ids, decoded>>

ReadArray ==
  /\ Reading({"array"})
  /\ Store(Create("array"), new)
  /\ Advance /\ ThenRead(ReadTasks(token.arg, new, todoHead.depth + 1))
  /\ UNCHANGED <<frame, ids, dRefsSeen, decoded>>

NextTagIs(tag) == pos + 1 < Len(frame) /\ frame[pos + 2].tag = tag

(* TAG_SHARED_ARRAY: the array follows at the wrapper's own depth.         *)
ReadSharedArray ==
  /\ Reading({"shared"})
  /\ NextTagIs("array")
  /\ pos' = pos + 2
  /\ Store(Append(made, [kind |-> "array", kids |-> <<>>, from |-> frame[pos + 2]]), new)
  /\ ThenRead(ReadTasks(frame[pos + 2].arg, new, todoHead.depth + 1)
                \o <<[do |-> "shared", entity |-> new, refs |-> dRefsSeen]>>)
  /\ UNCHANGED <<frame, ids, dRefsSeen, decoded>>

(* Mutant: references met inside do not matter.                            *)
SharedArrayCompleteAnyway ==
  /\ decoded = "running"
  /\ todo # <<>> /\ todoHead.do = "shared"
  /\ Register(todoHead.entity)
  /\ ThenRead(<<>>)
  /\ UNCHANGED <<frame, pos, made, dRefsSeen, result, decoded>>

(* Registered only now, and only if no reference was met inside.           *)
SharedArrayComplete ==
  /\ decoded = "running"
  /\ todo # <<>> /\ todoHead.do = "shared"
  /\ dRefsSeen = todoHead.refs
  /\ Register(todoHead.entity)
  /\ ThenRead(<<>>)
  /\ UNCHANGED <<frame, pos, made, dRefsSeen, result, decoded>>

(* TAG_NEW_REF: registered before its value, which may not be one itself.  *)
ReadNewReference ==
  /\ Reading({"new_ref"})
  /\ pos + 1 < Len(frame) /\ ~ NextTagIs("new_ref")
  /\ Store(Create("reference"), new)
  /\ Register(new)
  /\ dRefsSeen' = dRefsSeen + 1
  /\ Advance
  /\ ThenRead(<<ReadTask(new, todoHead.depth + 1, FALSE), [do |-> "reference", entity |-> new]>>)
  /\ UNCHANGED <<frame, decoded>>

Inner(entity) == made[entity].kids[1]
InnerKindIs(entity, kind) == Inner(entity) > 0 /\ made[Inner(entity)].kind = kind

ReferenceComplete ==
  /\ decoded = "running"
  /\ todo # <<>> /\ todoHead.do = "reference"
  /\ ~ InnerKindIs(todoHead.entity, "reference")
  /\ ThenRead(<<>>)
  /\ UNCHANGED <<frame, pos, made, ids, dRefsSeen, result, decoded>>

(* TAG_OBJECT, TAG_OBJECT_SLOTS, TAG_ENUM, TAG_OBJECT_LEGACY: the object   *)
(* is registered before its properties.                                    *)
ReadObject ==
  /\ Reading({"object", "leaf"})
  /\ Store(Create("object"), new)
  /\ Register(new)
  /\ Advance /\ ThenRead(ReadTasks(token.arg, new, todoHead.depth + 1))
  /\ UNCHANGED <<frame, dRefsSeen, decoded>>

(* TAG_OBJECT_MAGIC: one value follows, which has to be an array.          *)
ReadMagicObject ==
  /\ Reading({"magic"})
  /\ Store(Create("object"), new)
  /\ Register(new)
  /\ Advance
  /\ ThenRead(<<ReadTask(new, todoHead.depth + 1, FALSE), [do |-> "magic", entity |-> new]>>)
  /\ UNCHANGED <<frame, dRefsSeen, decoded>>

MagicObjectComplete ==
  /\ decoded = "running"
  /\ todo # <<>> /\ todoHead.do = "magic"
  /\ InnerKindIs(todoHead.entity, "array")
  /\ ThenRead(<<>>)
  /\ UNCHANGED <<frame, pos, made, ids, dRefsSeen, result, decoded>>

DecStep ==
  \/ ReadScalar \/ ReadBackReference \/ ReadArray
  \/ ReadSharedArray \/ SharedArrayComplete
  \/ ReadNewReference \/ ReferenceComplete
  \/ ReadObject \/ ReadMagicObject \/ MagicObjectComplete

(* The checks of the steps above, negated: the whole decode fails.         *)
Refused ==
  \/ todoHead.do = "read" /\ pos >= Len(frame)
  \/ /\ todoHead.do = "read"
     /\ pos < Len(frame)
     /\ \/ ~ DepthAllows
        \/ token.tag = "ref" /\ ~ InTable(token.arg)
        \/ token.tag = "shared" /\ ~ NextTagIs("array")
        \/ token.tag = "new_ref" /\ (pos + 1 >= Len(frame) \/ NextTagIs("new_ref"))
  \/ todoHead.do = "shared" /\ dRefsSeen # todoHead.refs
  \/ todoHead.do = "reference" /\ InnerKindIs(todoHead.entity, "reference")
  \/ todoHead.do = "magic" /\ ~ InnerKindIs(todoHead.entity, "array")

DecFail ==
  /\ decoded = "running"
  /\ todo # <<>>
  /\ Refused
  /\ decoded' = "failed"
  /\ UNCHANGED <<frame, pos, todo, made, ids, dRefsSeen, result>>

(* require_exact: signed, keyed and session frames allow no trailing byte. *)
DecFinish ==
  /\ decoded = "running"
  /\ todo = <<>>
  /\ decoded' = IF pos = Len(frame) THEN "ok" ELSE "failed"
  /\ UNCHANGED <<frame, pos, todo, made, ids, dRefsSeen, result>>

DecNext == DecStep \/ DecFail \/ DecFinish

----------------------------------------------------------------------------
(* Properties of the decoder alone, whatever the frame says.               *)

Entities == DOMAIN made

(* Values are scalars, NULL or entities; every task fills an entity that   *)
(* exists; every id names one.                                             *)
DecTypeOK ==
  /\ pos \in 0 .. Len(frame)
  /\ \A e \in Entities :
       /\ made[e].kind \in {"array", "reference", "object"}
       /\ \A i \in DOMAIN made[e].kids : made[e].kids[i] \in {DScalar, DNull} \cup Entities
  /\ \A i \in DOMAIN todo :
       IF todo[i].do = "read" THEN todo[i].into \in {0} \cup Entities
       ELSE todo[i].entity \in Entities
  /\ \A i \in DOMAIN ids : ids[i] \in Entities
  /\ dRefsSeen \in Nat
  /\ result \in {NoValue, DScalar, DNull} \cup Entities
  /\ decoded \in {"no", "running", "ok", "failed"}

(* What an array holds, itself or in nested arrays: the least set that has *)
(* its values and, with an array, the values of that array.                *)
KidsOf(entities, e) ==
  {entities[e].kids[i] : i \in DOMAIN entities[e].kids} \ {DScalar, DNull}
ClosedFor(entities, e, s) ==
  /\ KidsOf(entities, e) \subseteq s
  /\ \A a \in s : entities[a].kind = "array" => KidsOf(entities, a) \subseteq s
ArrayContents(entities, e) ==
  {x \in DOMAIN entities :
     \A s \in SUBSET DOMAIN entities : ClosedFor(entities, e, s) => x \in s}

(* An array handed to several holders contains no reference, neither       *)
(* itself nor in its nested arrays: separating one holder's copy would     *)
(* lose the aliasing (the rule behind refs_seen and ENC_ARR_ST_UNSHARED).  *)
SharedArraysHoldNoReference ==
  \A i \in DOMAIN ids :
    made[ids[i]].kind = "array" =>
      \A e \in ArrayContents(made, ids[i]) : made[e].kind # "reference"

(* A cycle always passes through an object or a reference, which is what   *)
(* lets a frame without either be released without the cycle collector     *)
(* (ids_may_cycle), at any moment, also when the decode fails half way.    *)
ArraysAcyclic ==
  \A e \in Entities : made[e].kind = "array" => e \notin ArrayContents(made, e)

(* In a value that is returned no PHP reference holds a reference,         *)
(* whichever tag brought the inner one.                                    *)
NoReferenceToReference ==
  decoded = "ok" => \A e \in Entities :
    made[e].kind = "reference" => ~ InnerKindIs(e, "reference")

(* A value that is returned is complete: every container has the values    *)
(* its token announced and nothing of the frame is left over.              *)
NothingMissing ==
  decoded = "ok" => /\ pos = Len(frame)
                    /\ result # NoValue
                    /\ \A e \in Entities : Len(made[e].kids) = made[e].from.arg

(* What a frame builds is a graph PHP can hold and tear down, at every     *)
(* moment, and whole when it is returned, whatever the frame says.         *)
DecodedWellFormed ==
  /\ SharedArraysHoldNoReference
  /\ ArraysAcyclic
  /\ NoReferenceToReference
  /\ NothingMissing
=============================================================================
