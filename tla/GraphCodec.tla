----------------------------- MODULE GraphCodec -----------------------------
(***************************************************************************)
(* Encoder and decoder together: a graph is encoded, the frame is decoded, *)
(* and the copy is compared with the original.  Or a frame that no encoder *)
(* wrote arrives.                                                          *)
(***************************************************************************)
EXTENDS GraphEncoder, GraphDecoder

CONSTANT Frames       \* frames from elsewhere

(* Tokens as they are on the wire: what announces one value announces one. *)
WireTags == ScalarTags \cup {"ref", "array", "shared", "new_ref", "object", "leaf", "magic"}
IsWire(tokens) ==
  \A i \in DOMAIN tokens :
    /\ tokens[i].tag \in WireTags /\ tokens[i].arg \in Nat
    /\ tokens[i].tag \in {"new_ref", "magic"} => tokens[i].arg = 1

ASSUME FramesAssumption ==
  \A tokens \in Frames : tokens \in Seq([tag : WireTags, arg : Nat]) /\ IsWire(tokens)

vars == <<encVars, decVars>>

(* Nothing to encode here. *)
Idle ==
  /\ graph = [kind |-> <<>>, kids |-> <<>>, outside |-> {}] /\ maxDepth \in MaxDepths
  /\ agenda = <<>> /\ body = <<>>
  /\ claim = <<>> /\ nextId = 0 /\ refsSeen = 0 /\ hold = <<>>
  /\ pinsActive = FALSE /\ nulled = {}
  /\ depthExceeded = FALSE /\ failed = FALSE
  /\ encoded = "none"

Init ==
  \/ EncInit /\ DecInit(<<>>)
  \/ Idle /\ \E tokens \in Frames : DecInit(tokens)

Deliver ==
  /\ encoded = "ok"
  /\ DecStart(body)
  /\ UNCHANGED encVars

Arrive ==
  /\ encoded = "none"
  /\ DecStart(frame)
  /\ UNCHANGED encVars

(* An encode that failed returns no frame; there is nothing to decode.     *)
Stop ==
  /\ decoded \in {"ok", "failed"} \/ encoded \in {"depth", "exception"}
  /\ UNCHANGED vars

Next ==
  \/ EncNext /\ UNCHANGED decVars
  \/ Deliver \/ Arrive
  \/ DecNext /\ UNCHANGED encVars
  \/ Stop

Spec == Init /\ [][Next]_vars

----------------------------------------------------------------------------

Done == encoded = "ok" /\ decoded = "ok"

(* The node an entity is a copy of.                                        *)
Origin(entity) == made[entity].from.node

(* A reference nobody else holds is a plain value: PHP drops it whenever   *)
(* an array is copied, and the encoder does when it walks a private copy.  *)
IsLoneReference(k) == Kind(k) = "reference" /\ OwnRefcount(graph, k) = 1

CopyOf(k, d) ==
  \/ k = Scalar /\ d = DScalar
  \/ IsNode(k) /\ d = DNull /\ k \in nulled
  \/ IsNode(k) /\ d \in Entities /\ Origin(d) = k

ValueCopyOf(k, d) ==
  \/ CopyOf(k, d)
  \/ IsNode(k) /\ IsLoneReference(k) /\ CopyOf(Kids(k)[1], d)

SameValues(ks, ds) ==
  Len(ks) = Len(ds) /\ \A i \in DOMAIN ks : ValueCopyOf(ks[i], ds[i])

KindAgrees(n, entity) ==
  CASE made[entity].kind = "array" -> Kind(n) \in ArrayKinds \cup {"factory"}
    [] made[entity].kind = "reference" -> Kind(n) = "reference"
    [] made[entity].kind = "object" -> Kind(n) \in ObjectKinds

(* The contents of an entity are copies of the contents of its origin, in  *)
(* order; an object with __serialize() holds one array, its own or built.  *)
ContentsAgree(entity) ==
  LET n == Origin(entity)
      kids == made[entity].kids
  IN IF Kind(n) = "factory" /\ made[entity].kind = "object"
       THEN Len(kids) = 1 /\ kids[1] \in Entities /\ Origin(kids[1]) = n
       ELSE SameValues(Kids(n), kids)

(* The decoded value is the encoded one: same shape everywhere.            *)
SameShape ==
  Done => /\ CopyOf(1, result)
          /\ \A entity \in Entities :
               KindAgrees(Origin(entity), entity) /\ ContentsAgree(entity)

(* And the same identities: an object or a reference has one copy, however *)
(* many paths lead to it.  (Arrays are values; they may be copied.)        *)
SameIdentity ==
  Done => \A d, e \in Entities :
            /\ made[d].kind \in {"object", "reference"}
            /\ made[e].kind = made[d].kind
            /\ Origin(d) = Origin(e)
            => d = e

(* A frame that was returned is never refused, at any depth and after any  *)
(* rollback of an id.                                                      *)
FrameAccepted == encoded = "ok" => decoded # "failed"

(* The id tables agree: the entity the decoder has under an id is a copy   *)
(* of the node the encoder has there, and both handed out the same ids.    *)
IdsAgree ==
  Done => /\ Len(ids) = nextId
          /\ \A n \in Nodes(graph) : HasId(n) => Origin(ids[claim[n] + 1]) = n

(* "Object cycles go through the id table and don't count against the cap; *)
(* only genuinely deep trees hit it" (README.md:482): a graph with fewer   *)
(* nodes than MAX_DEPTH has no path that deep unless it repeats a node.    *)
OnlyDeepTreesHitTheCap ==
  encoded = "depth" => Cardinality(Nodes(graph)) >= maxDepth
=============================================================================
