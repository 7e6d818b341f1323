--------------------------- MODULE RoundTripProofs ---------------------------
(***************************************************************************)
(* The round trip of a graph, for every graph, root, set of classes with   *)
(* hooks and depth: a frame the encoder closed is accepted, what the       *)
(* decoder builds has the shape of what was encoded, and the ids of the    *)
(* two walks name the same things.                                         *)
(***************************************************************************)
EXTENDS GraphCodecProofs, WellFoundedInduction, NaturalsInduction

(***************************************************************************)
(* Round trips.  What is written, without the prefixes of shared arrays,   *)
(* is followed by the states a decoder goes through when it reads it       *)
(* (a run).  A run exists at every moment of an encode, and its last state *)
(* has one task for every task of the encoder.                             *)
(***************************************************************************)

(* The decoder's tasks, with the slot a value goes to; the end of an array *)
(* names the token that began it; an end that does nothing is kept, too.   *)
RunTask ==
  [do : {"read"}, into : Nat, slot : Nat, depth : Nat, hot : BOOLEAN]
    \cup [do : {"end"}, at : Nat, entity : Nat, refs : Nat]
    \cup [do : {"magic"}, entity : Nat] \cup [do : {"nothing"}]
RunEntity == [kind : {"array", "reference", "object"}, kids : Seq(Int), from : NodeToken]
RunState ==
  [n : Nat, todo : Seq(RunTask), made : Seq(RunEntity), ids : Seq(Nat), refs : Nat,
   result : Int, ended : SUBSET Nat]

SlotTask(into, slot, depth, hot) ==
  [do |-> "read", into |-> into, slot |-> slot, depth |-> depth, hot |-> hot]
Slots(count, into, depth, hot) == [i \in 1 .. count |-> SlotTask(into, i, depth, hot)]
EndTask(at, entity, refs) == [do |-> "end", at |-> at, entity |-> entity, refs |-> refs]
MagicTask(entity) == [do |-> "magic", entity |-> entity]
NothingTask == [do |-> "nothing"]

MadeKind(tag) ==
  IF tag = "array" THEN "array" ELSE IF tag = "new_ref" THEN "reference" ELSE "object"
IsReference(m, d) == d \in DOMAIN m /\ m[d].kind = "reference"

Stored(base, into, d) ==
  IF into = 0 THEN base ELSE [base EXCEPT ![into].kids = Append(@, d)]

(* One token is consumed, and the value it stands for stored.              *)
Fed(g, base, d, tasks, ids_, refs) ==
  [n |-> g.n + 1, todo |-> tasks \o Tail(g.todo), made |-> Stored(base, g.todo[1].into, d),
   ids |-> ids_, refs |-> refs, result |-> IF g.todo[1].into = 0 THEN d ELSE g.result,
   ended |-> g.ended]
Closed(g, ids_, ended) ==
  [n |-> g.n, todo |-> Tail(g.todo), made |-> g.made, ids |-> ids_, refs |-> g.refs,
   result |-> g.result, ended |-> ended]

(* What comes after the values of an entity.                               *)
Enders(tag, at, entity, refs) ==
  CASE tag = "array"   -> {<<>>, <<EndTask(at, entity, refs)>>}
    [] tag = "new_ref" -> {<<>>}
    [] tag = "magic"   -> {<<MagicTask(entity)>>}
    [] OTHER           -> {<<>>, <<NothingTask>>}

Readable(core, g) ==
  /\ g.todo # <<>> /\ g.todo[1].do = "read" /\ g.n < Len(core)
  /\ \/ g.todo[1].depth < maxDepth
     \/ g.todo[1].hot /\ core[g.n + 1].tag \in ScalarTags

(* A token that stands for a scalar or for what was made before.           *)
StandsFor(g, t, d) ==
  \/ t.tag \in ScalarTags /\ d = IF t.tag = "null" THEN DNull ELSE DScalar
  \/ t.tag = "ref" /\ t.arg < Len(g.ids) /\ d = g.ids[t.arg + 1]
KnownFed(g, d) ==
  Fed(g, g.made, d, <<>>, g.ids, g.refs + (IF IsReference(g.made, d) THEN 1 ELSE 0))
KnownStep(core, g, h) ==
  /\ Readable(core, g)
  /\ \E d \in {DScalar, DNull} \cup DOMAIN g.made :
       StandsFor(g, core[g.n + 1], d) /\ h = KnownFed(g, d)

(* A token that makes an entity.                                           *)
Entity(t)  == [kind |-> MadeKind(t.tag), kids |-> <<>>, from |-> t]
Contents(g, t) ==
  Slots(t.arg, Len(g.made) + 1, g.todo[1].depth + 1, t.tag \notin {"new_ref", "magic"})
NewFed(g, t, ender) ==
  Fed(g, Append(g.made, Entity(t)), Len(g.made) + 1, Contents(g, t) \o ender,
      IF t.tag = "array" THEN g.ids ELSE Append(g.ids, Len(g.made) + 1),
      g.refs + (IF t.tag = "new_ref" THEN 1 ELSE 0))
NewStep(core, shared, g, h) ==
  LET t == core[g.n + 1]
  IN /\ Readable(core, g)
     /\ t.tag \in EntityTags
     /\ \E ender \in Enders(t.tag, g.n + 1, Len(g.made) + 1, g.refs) :
          (g.n + 1 \in shared => ender # <<>>) /\ h = NewFed(g, t, ender)

HoldsArray(m, e) ==
  m[e].kids # <<>> /\ m[e].kids[1] \in DOMAIN m /\ m[m[e].kids[1]].kind = "array"

(* An end: only an array that is shared is given an id.                    *)
CloseStep(shared, g, h) ==
  /\ g.todo # <<>>
  /\ \/ /\ g.todo[1].do = "end" /\ g.todo[1].at \in shared
        /\ g.refs = g.todo[1].refs
        /\ h = Closed(g, Append(g.ids, g.todo[1].entity), g.ended \cup {g.todo[1].at})
     \/ /\ g.todo[1].do = "end" /\ g.todo[1].at \notin shared
        /\ h = Closed(g, g.ids, g.ended \cup {g.todo[1].at})
     \/ /\ g.todo[1].do = "magic" /\ HoldsArray(g.made, g.todo[1].entity)
        /\ h = Closed(g, g.ids, g.ended)
     \/ /\ g.todo[1].do = "nothing"
        /\ h = Closed(g, g.ids, g.ended)

RunStep(core, shared, g, h) ==
  KnownStep(core, g, h) \/ NewStep(core, shared, g, h) \/ CloseStep(shared, g, h)

(* No reference holds a reference.                                         *)
Flat(m) ==
  \A e \in DOMAIN m : m[e].kind = "reference" =>
    \A i \in DOMAIN m[e].kids : ~ IsReference(m, m[e].kids[i])

RunStart ==
  [n |-> 0, todo |-> <<SlotTask(0, 1, 0, FALSE)>>, made |-> <<>>, ids |-> <<>>, refs |-> 0,
   result |-> NoValue, ended |-> {}]

Final(R) == R[Len(R)]
Run(core, shared, R) ==
  /\ R \in Seq(RunState) /\ R # <<>> /\ R[1] = RunStart
  /\ \A i \in 1 .. Len(R) - 1 : RunStep(core, shared, R[i], R[i + 1])
  /\ \A i \in 1 .. Len(R) :
       R[i].n \in 0 .. Len(core) /\ R[i].ended \subseteq Final(R).ended /\ Flat(R[i].made)
  /\ Final(R).n = Len(core)

(* Where the tokens of core are in b, and the prefixes.                    *)
Layout(b, core, shared, loc) ==
  /\ core \in Seq(NodeToken) /\ shared \subseteq 1 .. Len(core)
  /\ loc \in [0 .. Len(core) -> 0 .. Len(b)]
  /\ loc[0] = 0 /\ loc[Len(core)] = Len(b)
  /\ \A c \in 1 .. Len(core) :
       /\ core[c].tag # "shared" /\ b[loc[c]] = core[c]
       /\ IF c \in shared
            THEN core[c].tag = "array" /\ loc[c] = loc[c - 1] + 2 /\ b[loc[c] - 1].tag = "shared"
            ELSE loc[c] = loc[c - 1] + 1
       /\ \A d \in 0 .. Len(core) : d < c => loc[d] < loc[c]

----------------------------------------------------------------------------
(* What the entities of a run are copies of.  nu: the nodes written as NULL*)

MayStandFor(k, v) == v = k \/ (IsNode(k) /\ IsLoneReference(k) /\ v = Kids(k)[1])
Copies(nu, m, v, d) ==
  \/ v = Scalar /\ d = DScalar
  \/ IsNode(v) /\ d = DNull /\ v \in nu
  \/ IsNode(v) /\ d \in DOMAIN m /\ m[d].from.node = v

(* An object whose __serialize() builds an array has that array.           *)
HasBuilt(m, e) == Kind(m[e].from.node) = "factory" /\ m[e].kind = "object"
Announced(m, e) == IF HasBuilt(m, e) THEN 1 ELSE Len(Kids(m[e].from.node))

KindFits(kind, n) ==
  \/ kind = "array" /\ Kind(n) \in ArrayKinds \cup {"factory"}
  \/ kind = "reference" /\ Kind(n) = "reference"
  \/ kind = "object" /\ Kind(n) \in ObjectKinds

Right(nu, m, e, i, d) ==
  IF HasBuilt(m, e)
    THEN d \in DOMAIN m /\ m[d].kind = "array" /\ m[d].from.node = m[e].from.node
    ELSE \E v \in Nodes(graph) \cup {Scalar} :
           MayStandFor(Kids(m[e].from.node)[i], v) /\ Copies(nu, m, v, d)

EntityOK(nu, m, e) ==
  /\ m[e].from.node \in Nodes(graph) /\ m[e].from.arg = Announced(m, e)
  /\ KindFits(m[e].kind, m[e].from.node)
  /\ Len(m[e].kids) <= Announced(m, e)
  /\ \A i \in DOMAIN m[e].kids : Right(nu, m, e, i, m[e].kids[i])

ContentsOK(nu, g) ==
  /\ \A e \in DOMAIN g.made : EntityOK(nu, g.made, e)
  /\ g.result = NoValue \/ Copies(nu, g.made, 1, g.result)
  /\ \A i \in DOMAIN g.ids : g.ids[i] \in DOMAIN g.made

(* What is missing is still to be read, slot by slot.                      *)
IsRead(k, e, s) == k.do = "read" /\ k.into = e /\ k.slot = s
InRange(m, k) ==
  IF k.do = "read"
    THEN IF k.into = 0 THEN k.slot = 1
         ELSE k.into \in DOMAIN m /\ k.slot \in Len(m[k.into].kids) + 1 .. m[k.into].from.arg
    ELSE k.do # "nothing" => k.entity \in DOMAIN m
Before(k, l) ==
  l.do = "read" => /\ k.do = "read" /\ k.into = l.into => k.slot < l.slot
                   /\ k.do = "magic" => k.entity # l.into
SlotsOK(g) ==
  /\ \A j \in DOMAIN g.todo : InRange(g.made, g.todo[j])
  /\ \A i, j \in DOMAIN g.todo : i < j => Before(g.todo[i], g.todo[j])
  /\ \A e \in DOMAIN g.made : \A s \in Len(g.made[e].kids) + 1 .. g.made[e].from.arg :
       \E j \in DOMAIN g.todo : IsRead(g.todo[j], e, s)

(* The encoder's tasks ag and the decoder's.                               *)
Expects(m, k, v) ==
  IF k.into = 0 THEN v = 1
  ELSE ~ HasBuilt(m, k.into) /\ MayStandFor(Kids(m[k.into].from.node)[k.slot], v)
ExpectsBuilt(m, k, n) == k.into # 0 /\ HasBuilt(m, k.into) /\ m[k.into].from.node = n

Tracks(core, shared, loc, g, t, k) ==
  /\ t.do = "value" =>
       k.do = "read" /\ k.depth = t.depth /\ (t.element => k.hot) /\ Expects(g.made, k, t.v)
  /\ t.do = "hook" =>
       k.do = "read" /\ k.depth = t.depth /\ t.depth < maxDepth /\ Expects(g.made, k, t.n)
  /\ t.do = "built" =>
       k.do = "read" /\ k.depth = t.depth /\ ExpectsBuilt(g.made, k, t.n)
  /\ t.do = "arrayDone" =>
       /\ k.do = "end" /\ k.refs = t.refs /\ k.at \in 1 .. Len(core)
       /\ t.claimed <=> k.at \in shared
       /\ t.claimed => t.at = loc[k.at] - 1 /\ k.at \notin g.ended
       /\ k.entity \in DOMAIN g.made /\ g.made[k.entity].kind = "array"
       /\ g.made[k.entity].from.node = t.n
  /\ t.do = "release" =>
       \/ k.do = "nothing"
       \/ /\ k.do = "magic" /\ k.entity \in DOMAIN g.made /\ g.made[k.entity].kind = "object"
          /\ Kind(g.made[k.entity].from.node) \in {"magic", "factory"}

AllTrack(core, shared, loc, g, ag) ==
  /\ Len(ag) = Len(g.todo)
  /\ \A j \in DOMAIN ag : Tracks(core, shared, loc, g, ag[j], g.todo[j])

(* The id tables.  A hook's object has its id before its token is written. *)
Hooked(ag) == ag # <<>> /\ ag[1].do = "hook"
HasKind(kind, n) ==
  \/ kind = "array" /\ Kind(n) \in ArrayKinds
  \/ kind = "reference" /\ Kind(n) = "reference"
  \/ kind = "object" /\ Kind(n) \in ObjectKinds
Registered(g, cl, n) ==
  /\ cl[n] + 1 \in DOMAIN g.ids
  /\ g.made[g.ids[cl[n] + 1]].from.node = n /\ HasKind(g.made[g.ids[cl[n] + 1]].kind, n)
IdsOK(g, ag, cl, nx) ==
  /\ nx = Len(g.ids) + (IF Hooked(ag) THEN 1 ELSE 0)
  /\ \A n \in Nodes(graph) : cl[n] >= 0 =>
       IF Hooked(ag) /\ ag[1].n = n /\ ag[1].tracked THEN cl[n] = Len(g.ids) ELSE Registered(g, cl, n)

NulledOK(nu) == \A n \in nu : n \in Nodes(graph) /\ Kind(n) \in {"sleep", "legacy"}

Matched(core, shared, loc, g, ag, cl, nx, rs, nu) ==
  /\ ContentsOK(nu, g) /\ SlotsOK(g) /\ AllTrack(core, shared, loc, g, ag)
  /\ IdsOK(g, ag, cl, nx) /\ g.refs = rs /\ NulledOK(nu) /\ g.ended \subseteq 1 .. Len(core)

----------------------------------------------------------------------------
(* Sequences whose first element is replaced by others.                    *)
Comes(u, s, old) ==
  /\ Len(u) \in Nat /\ Len(s) \in Nat /\ Len(old) \in Nat /\ Len(u) = Len(s) + Len(old) - 1
  /\ DOMAIN u = 1 .. Len(u) /\ DOMAIN s = 1 .. Len(s) /\ DOMAIN old = 1 .. Len(old)
  /\ 1 \in DOMAIN old
  /\ \A i \in DOMAIN u :
       \/ i \in DOMAIN s /\ u[i] = s[i]
       \/ /\ i > Len(s) /\ i - Len(s) + 1 \in DOMAIN old /\ i - Len(s) + 1 > 1
          /\ u[i] = old[i - Len(s) + 1]
  /\ \A i \in DOMAIN s : i \in DOMAIN u /\ u[i] = s[i]
  /\ \A i \in DOMAIN old : i > 1 => i - 1 + Len(s) \in DOMAIN u /\ u[i - 1 + Len(s)] = old[i]

Joined(c, b, t) ==
  /\ Len(c) = Len(b) + Len(t) /\ Len(b) \in Nat /\ Len(t) \in Nat /\ Len(c) \in Nat
  /\ DOMAIN b = 1 .. Len(b) /\ DOMAIN t = 1 .. Len(t) /\ DOMAIN c = 1 .. Len(c)
  /\ \A i \in DOMAIN b : i \in DOMAIN c /\ c[i] = b[i]
  /\ \A i \in DOMAIN t : i + Len(b) \in DOMAIN c /\ c[i + Len(b)] = t[i]
  /\ \A i \in DOMAIN c : \/ i \in DOMAIN b /\ c[i] = b[i]
                         \/ i > Len(b) /\ i - Len(b) \in DOMAIN t /\ c[i] = t[i - Len(b)]

(* Two lists after one another.                                            *)
LEMMA Joins ==
  ASSUME NEW X, NEW b \in Seq(X), NEW t \in Seq(X)
  PROVE  b \o t \in Seq(X) /\ Joined(b \o t, b, t)
<1>1. PICK c : c = b \o t
  OBVIOUS
<1>2. /\ c \in Seq(X) /\ Len(c) = Len(b) + Len(t) /\ Len(b) \in Nat /\ Len(t) \in Nat
      /\ DOMAIN b = 1 .. Len(b) /\ DOMAIN t = 1 .. Len(t) /\ DOMAIN c = 1 .. Len(c)
      /\ \A i \in DOMAIN b : i \in DOMAIN c /\ c[i] = b[i]
      /\ \A i \in DOMAIN t : i + Len(b) \in DOMAIN c /\ c[i + Len(b)] = t[i]
      /\ \A i \in DOMAIN c : \/ i \in DOMAIN b /\ c[i] = b[i]
                             \/ i - Len(b) \in DOMAIN t /\ c[i] = t[i - Len(b)]
  BY <1>1, Appended
<1>3. \A i \in DOMAIN c : i - Len(b) \in DOMAIN t => i > Len(b)
  BY <1>2
<1> QED BY <1>1, <1>2, <1>3 DEF Joined

(* Where the elements are then, and where they come from.                  *)
LEMMA Replaced ==
  ASSUME NEW X, NEW s \in Seq(X), NEW old \in Seq(X), old # <<>>, NEW u, u = s \o Tail(old)
  PROVE  u \in Seq(X) /\ Comes(u, s, old)
<1>1. /\ u \in Seq(X) /\ Len(u) = Len(s) + Len(old) - 1
      /\ \A i \in DOMAIN u :
           \/ i \in DOMAIN s /\ i <= Len(s) /\ u[i] = s[i]
           \/ i > Len(s) /\ i - Len(s) + 1 \in 2 .. Len(old) /\ u[i] = old[i - Len(s) + 1]
  BY Placed
<1>2. \A i \in 2 .. Len(old) : i - 1 + Len(s) \in DOMAIN u /\ u[i - 1 + Len(s)] = old[i]
  BY Moved
<1>3. /\ Len(u) \in Nat /\ Len(s) \in Nat /\ Len(old) \in Nat /\ Len(old) > 0
      /\ DOMAIN u = 1 .. Len(u) /\ DOMAIN s = 1 .. Len(s) /\ DOMAIN old = 1 .. Len(old)
  BY <1>1, EmptySeq, LenProperties
<1>4. \A i \in DOMAIN s : i \in DOMAIN u /\ u[i] = s[i]
  <2> SUFFICES ASSUME NEW i \in DOMAIN s PROVE i \in DOMAIN u /\ u[i] = s[i]
    OBVIOUS
  <2>1. i \in DOMAIN u /\ ~ (i > Len(s))
    BY <1>1, <1>3
  <2> QED BY <1>1, <2>1
<1>5. \A i \in DOMAIN old : i > 1 => i - 1 + Len(s) \in DOMAIN u /\ u[i - 1 + Len(s)] = old[i]
  <2> SUFFICES ASSUME NEW i \in DOMAIN old, i > 1
               PROVE  i - 1 + Len(s) \in DOMAIN u /\ u[i - 1 + Len(s)] = old[i]
    OBVIOUS
  <2>1. i \in 2 .. Len(old)
    BY <1>3
  <2> QED BY <1>2, <2>1
<1>6. \A i \in DOMAIN u :
        \/ i \in DOMAIN s /\ u[i] = s[i]
        \/ /\ i > Len(s) /\ i - Len(s) + 1 \in DOMAIN old /\ i - Len(s) + 1 > 1
           /\ u[i] = old[i - Len(s) + 1]
  <2> SUFFICES ASSUME NEW i \in DOMAIN u, ~ (i \in DOMAIN s /\ u[i] = s[i])
               PROVE  /\ i > Len(s) /\ i - Len(s) + 1 \in DOMAIN old /\ i - Len(s) + 1 > 1
                      /\ u[i] = old[i - Len(s) + 1]
    OBVIOUS
  <2>1. i > Len(s) /\ i - Len(s) + 1 \in 2 .. Len(old) /\ u[i] = old[i - Len(s) + 1]
    BY <1>1
  <2> QED BY <1>3, <2>1
<1>7. Len(u) = Len(s) + Len(old) - 1 /\ 1 \in DOMAIN old
  BY <1>1, <1>3
<1> QED BY <1>1, <1>3, <1>4, <1>5, <1>6, <1>7 DEF Comes

(* The first is taken away.                                                *)
LEMMA Dropped ==
  ASSUME NEW X, NEW old \in Seq(X), old # <<>>, NEW u, u = Tail(old)
  PROVE  u \in Seq(X) /\ Comes(u, <<>>, old)
<1>1. u \in Seq(X)
  BY HeadTailProperties
<1>2. u = <<>> \o Tail(old) /\ <<>> \in Seq(X)
  BY <1>1, ConcatEmptySeq
<1> QED BY <1>2, Replaced

----------------------------------------------------------------------------
(* A value is stored in an entity, or is the result; an entity may be new. *)
Grew(m, m2, p, v) ==
  /\ m \in Seq(RunEntity) /\ m2 \in Seq(RunEntity)
  /\ Len(m) \in Nat /\ Len(m2) \in Nat /\ DOMAIN m = 1 .. Len(m) /\ DOMAIN m2 = 1 .. Len(m2)
  /\ DOMAIN m \subseteq DOMAIN m2 /\ p \in {0} \cup DOMAIN m /\ v \in Int
  /\ \A e \in DOMAIN m :
       /\ m2[e].kind = m[e].kind /\ m2[e].from = m[e].from
       /\ m2[e].kids = IF e = p THEN Append(m[e].kids, v) ELSE m[e].kids
  /\ \A e \in DOMAIN m2 : e \in DOMAIN m \/ (e = Len(m) + 1 /\ m2[e].kids = <<>>)

(* Fields of an entity.                                                    *)
LEMMA EntityFields ==
  ASSUME NEW r \in RunEntity
  PROVE  /\ r.kind \in {"array", "reference", "object"} /\ r.kids \in Seq(Int)
         /\ r.from \in NodeToken /\ r.from.tag \in WireTags /\ r.from.arg \in Nat /\ r.from.node \in Nat
BY DEF RunEntity, NodeToken

BaseOf(m, base) ==
  /\ m \in Seq(RunEntity) /\ base \in Seq(RunEntity)
  /\ Len(m) <= Len(base) /\ Len(base) <= Len(m) + 1
  /\ \A e \in 1 .. Len(m) : base[e] = m[e]
  /\ \A e \in Len(m) + 1 .. Len(base) : base[e].kids = <<>>
GrewFrom(m, base, m2, p, v) ==
  /\ Grew(m, m2, p, v) /\ Len(m2) = Len(base)
  /\ \A e \in DOMAIN m2 : m2[e].kind = base[e].kind /\ m2[e].from = base[e].from

(* Storing changes the values of one entity only.                          *)
LEMMA StoreGrew ==
  ASSUME NEW m, NEW base, BaseOf(m, base), NEW p \in {0} \cup DOMAIN m, NEW v \in Int
  PROVE  GrewFrom(m, base, Stored(base, p, v), p, v)
<1> PICK m2 : m2 = Stored(base, p, v)
  OBVIOUS
<1>0. /\ m \in Seq(RunEntity) /\ base \in Seq(RunEntity)
      /\ Len(m) <= Len(base) /\ Len(base) <= Len(m) + 1
      /\ \A e \in 1 .. Len(m) : base[e] = m[e]
      /\ \A e \in Len(m) + 1 .. Len(base) : base[e].kids = <<>>
  BY DEF BaseOf
<1> SUFFICES /\ Grew(m, m2, p, v) /\ Len(m2) = Len(base)
             /\ \A e \in DOMAIN m2 : m2[e].kind = base[e].kind /\ m2[e].from = base[e].from
  BY DEF GrewFrom
<1>1. /\ Len(m) \in Nat /\ DOMAIN m = 1 .. Len(m) /\ \A e \in 1 .. Len(m) : m[e] \in RunEntity
      /\ Len(base) \in Nat /\ DOMAIN base = 1 .. Len(base) /\ \A e \in 1 .. Len(base) : base[e] \in RunEntity
  BY <1>0, LenProperties
<1>2. 1 .. Len(m) \subseteq 1 .. Len(base)
      /\ \A e \in 1 .. Len(base) : e \in 1 .. Len(m) \/ (e = Len(m) + 1 /\ e \in Len(m) + 1 .. Len(base))
  BY <1>0, <1>1
<1>3. CASE p = 0
  <2>1. m2 = base
    BY <1>3 DEF Stored
  <2>2. \A e \in 1 .. Len(m) : e # p
    BY <1>1, <1>3
  <2> QED BY <1>0, <1>1, <1>2, <2>1, <2>2 DEF Grew
<1>4. CASE p # 0
  <2>1. p \in 1 .. Len(m) /\ p \in 1 .. Len(base) /\ base[p] \in RunEntity
    BY <1>1, <1>2, <1>4
  <2>2. PICK r : r = [base[p] EXCEPT !.kids = Append(@, v)]
    OBVIOUS
  <2>3. m2 = [base EXCEPT ![p] = r]
    BY <1>4, <2>2 DEF Stored
  <2>4. r \in RunEntity /\ r.kind = base[p].kind /\ r.from = base[p].from
        /\ r.kids = Append(base[p].kids, v)
    <3>1. PICK b : b = base[p]
      OBVIOUS
    <3>2. b \in [kind : {"array", "reference", "object"}, kids : Seq(Int), from : NodeToken]
      BY <2>1, <3>1 DEF RunEntity
    <3>3. b.kids \in Seq(Int) /\ Append(b.kids, v) \in Seq(Int)
      BY <3>2
    <3>4. PICK k : k = Append(b.kids, v)
      OBVIOUS
    <3>5. r = [b EXCEPT !.kids = k] /\ k \in Seq(Int)
      BY <2>2, <3>1, <3>3, <3>4
    <3>6. /\ r \in [kind : {"array", "reference", "object"}, kids : Seq(Int), from : NodeToken]
          /\ r.kind = b.kind /\ r.from = b.from /\ r.kids = k
      BY <3>2, <3>5
    <3> QED BY <3>1, <3>4, <3>6 DEF RunEntity
  <2>5. /\ m2 \in Seq(RunEntity) /\ Len(m2) = Len(base) /\ DOMAIN m2 = 1 .. Len(base)
        /\ \A e \in 1 .. Len(base) : m2[e] = IF e = p THEN r ELSE base[e]
    BY <1>0, <1>1, <2>1, <2>3, <2>4
  <2>6. \A e \in 1 .. Len(base) : m2[e].kind = base[e].kind /\ m2[e].from = base[e].from
    BY <2>4, <2>5
  <2>7. ASSUME NEW e \in 1 .. Len(m)
        PROVE  /\ m2[e].kind = m[e].kind /\ m2[e].from = m[e].from
               /\ m2[e].kids = IF e = p THEN Append(m[e].kids, v) ELSE m[e].kids
    <3>1. e \in 1 .. Len(base) /\ base[e] = m[e] /\ m2[e] = IF e = p THEN r ELSE base[e]
      BY <1>0, <1>2, <2>5
    <3> QED BY <2>4, <3>1
  <2>8. \A e \in 1 .. Len(base) : e \in 1 .. Len(m) \/ (e = Len(m) + 1 /\ m2[e].kids = <<>>)
    <3> SUFFICES ASSUME NEW e \in 1 .. Len(base), e \notin 1 .. Len(m)
                 PROVE  e = Len(m) + 1 /\ m2[e].kids = <<>>
      OBVIOUS
    <3>1. e = Len(m) + 1 /\ e \in Len(m) + 1 .. Len(base) /\ e # p
      BY <1>2, <2>1
    <3> QED BY <1>0, <2>5, <3>1
  <2>9. Len(m2) \in Nat /\ DOMAIN m2 = 1 .. Len(m2)
    BY <1>1, <2>5
  <2> QED BY <1>0, <1>1, <1>2, <2>1, <2>5, <2>6, <2>7, <2>8, <2>9 DEF Grew
<1> QED BY <1>3, <1>4

----------------------------------------------------------------------------
(* What a token changes.  An entity it makes is new, and waits for what    *)
(* its token announces.                                                    *)
Opens(g, h, e, tasks) ==
  /\ e = Len(g.made) + 1 /\ e \in DOMAIN h.made /\ e \notin DOMAIN g.made
  /\ h.made[e].kids = <<>> /\ h.made[e].from.arg \in Nat
  /\ \A i \in DOMAIN tasks :
       \/ i \in 1 .. h.made[e].from.arg /\ IsRead(tasks[i], e, i)
       \/ /\ i = Len(tasks) /\ i = h.made[e].from.arg + 1 /\ tasks[i].do # "read"
          /\ tasks[i].do # "nothing" => tasks[i].entity = e
  /\ \A i \in 1 .. h.made[e].from.arg : i \in DOMAIN tasks /\ IsRead(tasks[i], e, i)
Took(g, h, d, tasks) ==
  /\ Grew(g.made, h.made, g.todo[1].into, d)
  /\ Comes(h.todo, tasks, g.todo) /\ g.todo[1].do = "read"
  /\ h.result = IF g.todo[1].into = 0 THEN d ELSE g.result
  /\ h.ended = g.ended /\ h.n = g.n + 1
  /\ (tasks = <<>> /\ DOMAIN h.made = DOMAIN g.made) \/ Opens(g, h, d, tasks)

(* Fields of a task and of a state.                                        *)
LEMMA RunFields ==
  /\ \A k \in RunTask :
       /\ k.do = "read" => k.into \in Nat /\ k.slot \in Nat /\ k.depth \in Nat /\ k.hot \in BOOLEAN
       /\ k.do = "end" => k.at \in Nat /\ k.entity \in Nat /\ k.refs \in Nat
       /\ k.do = "magic" => k.entity \in Nat
       /\ k.do \in {"read", "end", "magic", "nothing"}
  /\ \A g \in RunState :
       /\ g.n \in Nat /\ g.todo \in Seq(RunTask) /\ g.made \in Seq(RunEntity) /\ g.ids \in Seq(Nat)
       /\ g.refs \in Nat /\ g.result \in Int /\ g.ended \in SUBSET Nat
BY DEF RunTask, RunState

FedTo(g, h, m2, d, tasks, ids_, refs) ==
  /\ h \in RunState /\ h.n = g.n + 1 /\ h.made = m2 /\ h.ids = ids_ /\ h.refs = refs
  /\ h.ended = g.ended /\ h.result = (IF g.todo[1].into = 0 THEN d ELSE g.result)
  /\ Comes(h.todo, tasks, g.todo)

(* The next state is a state.                                              *)
LEMMA FedTyped ==
  ASSUME NEW g \in RunState, g.todo # <<>>, NEW d \in Int, NEW base,
         Stored(base, g.todo[1].into, d) \in Seq(RunEntity),
         NEW tasks \in Seq(RunTask), NEW ids_ \in Seq(Nat), NEW refs \in Nat
  PROVE  FedTo(g, Fed(g, base, d, tasks, ids_, refs), Stored(base, g.todo[1].into, d), d,
               tasks, ids_, refs)
<1> PICK h : h = Fed(g, base, d, tasks, ids_, refs)
  OBVIOUS
<1> PICK m2 : m2 = Stored(base, g.todo[1].into, d)
  OBVIOUS
<1>1. /\ g.n \in Nat /\ g.todo \in Seq(RunTask) /\ g.result \in Int /\ g.ended \in SUBSET Nat
      /\ m2 \in Seq(RunEntity)
  BY RunFields
<1>2. PICK u : u = tasks \o Tail(g.todo)
  OBVIOUS
<1>3. u \in Seq(RunTask) /\ Comes(u, tasks, g.todo)
  BY <1>1, <1>2, Replaced
<1>4. PICK r : r = IF g.todo[1].into = 0 THEN d ELSE g.result
  OBVIOUS
<1>5. r \in Int /\ g.n + 1 \in Nat
  BY <1>1, <1>4
<1>6. h = [n |-> g.n + 1, todo |-> u, made |-> m2, ids |-> ids_, refs |-> refs, result |-> r,
           ended |-> g.ended]
  BY <1>2, <1>4 DEF Fed
<1>7. h \in RunState
  BY <1>1, <1>3, <1>5, <1>6 DEF RunState
<1> QED BY <1>3, <1>4, <1>6, <1>7 DEF FedTo

(* A value that is known already is stored.                                *)
LEMMA KnownTook ==
  ASSUME NEW g \in RunState, g.todo # <<>>, g.todo[1].do = "read",
         g.todo[1].into \in {0} \cup DOMAIN g.made,
         NEW d \in {DScalar, DNull} \cup DOMAIN g.made, NEW h, h = KnownFed(g, d)
  PROVE  /\ h \in RunState /\ Took(g, h, d, <<>>) /\ h.ids = g.ids
         /\ h.refs = g.refs + (IF IsReference(g.made, d) THEN 1 ELSE 0)
<1>1. /\ g.made \in Seq(RunEntity) /\ Len(g.made) \in Nat /\ DOMAIN g.made = 1 .. Len(g.made)
      /\ g.ids \in Seq(Nat) /\ g.refs \in Nat
  BY RunFields, LenProperties
<1>2. d \in Int
  BY <1>1 DEF DScalar, DNull
<1>3. PICK m2 : m2 = Stored(g.made, g.todo[1].into, d)
  OBVIOUS
<1>4. Grew(g.made, m2, g.todo[1].into, d) /\ Len(m2) = Len(g.made)
  <2>1. BaseOf(g.made, g.made)
    BY <1>1 DEF BaseOf
  <2> QED BY <1>2, <1>3, <2>1, StoreGrew DEF GrewFrom
<1>5. m2 \in Seq(RunEntity) /\ DOMAIN m2 = DOMAIN g.made
  BY <1>1, <1>4 DEF Grew
<1>6. PICK refs : refs = g.refs + (IF IsReference(g.made, d) THEN 1 ELSE 0)
  OBVIOUS
<1>7. refs \in Nat /\ <<>> \in Seq(RunTask) /\ h = Fed(g, g.made, d, <<>>, g.ids, refs)
  BY <1>1, <1>6 DEF KnownFed
<1>8. /\ h \in RunState /\ h.n = g.n + 1 /\ h.made = m2 /\ h.ids = g.ids /\ h.refs = refs
      /\ h.ended = g.ended /\ h.result = (IF g.todo[1].into = 0 THEN d ELSE g.result)
      /\ Comes(h.todo, <<>>, g.todo)
  <2>1. FedTo(g, h, m2, d, <<>>, g.ids, refs)
    BY <1>1, <1>2, <1>3, <1>5, <1>7, FedTyped
  <2> QED BY <2>1 DEF FedTo
<1> QED BY <1>4, <1>5, <1>6, <1>8 DEF Took

SlotList(s, count, e, depth, hot) ==
  /\ s \in Seq(RunTask) /\ Len(s) = count /\ DOMAIN s = 1 .. count
  /\ \A i \in 1 .. count : /\ s[i] = SlotTask(e, i, depth, hot) /\ IsRead(s[i], e, i)
                           /\ s[i].depth = depth /\ s[i].hot = hot

(* The tasks for the contents of an entity.                                *)
LEMMA SlotsTyped ==
  ASSUME NEW count \in Nat, NEW e \in Nat, NEW depth \in Nat, NEW hot \in BOOLEAN,
         NEW s, s = Slots(count, e, depth, hot)
  PROVE  SlotList(s, count, e, depth, hot)
<1>1. \A i \in 1 .. count : SlotTask(e, i, depth, hot) \in RunTask
  BY DEF SlotTask, RunTask
<1>2. s = [i \in 1 .. count |-> SlotTask(e, i, depth, hot)]
  BY DEF Slots
<1>3. s \in Seq(RunTask) /\ Len(s) = count /\ DOMAIN s = 1 .. count
      /\ \A i \in 1 .. count : s[i] = SlotTask(e, i, depth, hot)
  BY <1>1, <1>2
<1> QED BY <1>3 DEF SlotTask, IsRead, SlotList

Opening(g, t, ender, s) ==
  /\ s \in Seq(RunTask) /\ t.arg \in Nat /\ DOMAIN s = 1 .. Len(s) /\ Len(s) \in Nat
  /\ \A i \in 1 .. t.arg :
       /\ i \in DOMAIN s /\ IsRead(s[i], Len(g.made) + 1, i)
       /\ s[i].depth = g.todo[1].depth + 1 /\ s[i].hot = (t.tag \notin {"new_ref", "magic"})
  /\ \/ ender = <<>> /\ Len(s) = t.arg
     \/ /\ Len(s) = t.arg + 1 /\ ender = <<s[t.arg + 1]>> /\ s[t.arg + 1].do # "read"
        /\ s[t.arg + 1].do # "nothing" => s[t.arg + 1].entity = Len(g.made) + 1

(* The contents, and what comes after them.                                *)
LEMMA ContentsTyped ==
  ASSUME NEW g \in RunState, g.todo # <<>>, g.todo[1].do = "read", NEW t \in NodeToken,
         t.tag \in EntityTags,
         NEW ender \in Enders(t.tag, g.n + 1, Len(g.made) + 1, g.refs),
         NEW s, s = Contents(g, t) \o ender
  PROVE  Opening(g, t, ender, s)
<1>1. /\ g.made \in Seq(RunEntity) /\ Len(g.made) + 1 \in Nat /\ g.refs \in Nat /\ g.n + 1 \in Nat
      /\ g.todo[1] \in RunTask /\ g.todo[1].depth + 1 \in Nat /\ t.arg \in Nat
  <2>1. g.todo \in Seq(RunTask) /\ g.made \in Seq(RunEntity) /\ g.refs \in Nat /\ g.n \in Nat
    BY RunFields
  <2>2. g.todo[1] \in RunTask /\ Len(g.made) \in Nat
    BY <2>1, EmptySeq, LenProperties
  <2>3. g.todo[1].depth \in Nat /\ t.arg \in Nat
    BY <2>2, RunFields DEF NodeToken
  <2> QED BY <2>1, <2>2, <2>3
<1>2. PICK c : c = Contents(g, t)
  OBVIOUS
<1>3. PICK hot : hot = (t.tag \notin {"new_ref", "magic"})
  OBVIOUS
<1>4. /\ c \in Seq(RunTask) /\ Len(c) = t.arg /\ DOMAIN c = 1 .. t.arg
      /\ \A i \in 1 .. t.arg : IsRead(c[i], Len(g.made) + 1, i)
                               /\ c[i].depth = g.todo[1].depth + 1 /\ c[i].hot = hot
  <2>1. c = Slots(t.arg, Len(g.made) + 1, g.todo[1].depth + 1, hot) /\ hot \in BOOLEAN
    BY <1>2, <1>3 DEF Contents
  <2>2. SlotList(c, t.arg, Len(g.made) + 1, g.todo[1].depth + 1, hot)
    BY <1>1, <2>1, SlotsTyped
  <2> QED BY <2>2 DEF SlotList
<1>5. \/ ender = <<>>
      \/ \E w \in RunTask : /\ ender = <<w>> /\ w.do # "read"
                            /\ w.do # "nothing" => w.entity = Len(g.made) + 1
  BY <1>1 DEF Enders, EndTask, MagicTask, NothingTask, RunTask, EntityTags, ObjectTags
<1>6. CASE ender = <<>>
  <2>1. s = c
    BY <1>2, <1>4, <1>6, ConcatEmptySeq
  <2> QED BY <1>1, <1>3, <1>4, <1>6, <2>1 DEF Opening
<1>7. CASE \E w \in RunTask : /\ ender = <<w>> /\ w.do # "read"
                              /\ w.do # "nothing" => w.entity = Len(g.made) + 1
  <2>1. PICK w \in RunTask : /\ ender = <<w>> /\ w.do # "read"
                             /\ w.do # "nothing" => w.entity = Len(g.made) + 1
    BY <1>7
  <2>2. ender \in Seq(RunTask) /\ Len(ender) = 1 /\ ender[1] = w /\ 1 \in DOMAIN ender
    BY <2>1
  <2>3. /\ s \in Seq(RunTask) /\ Len(s) = Len(c) + Len(ender) /\ DOMAIN s = 1 .. Len(s)
        /\ \A i \in DOMAIN c : i \in DOMAIN s /\ s[i] = c[i]
        /\ \A i \in DOMAIN ender : i + Len(c) \in DOMAIN s /\ s[i + Len(c)] = ender[i]
    <3>1. s = c \o ender
      BY <1>2
    <3>2. s \in Seq(RunTask) /\ Joined(s, c, ender)
      BY <1>4, <2>2, <3>1, Joins
    <3> QED BY <3>2 DEF Joined
  <2>4. Len(s) = t.arg + 1 /\ 1 + t.arg \in DOMAIN s /\ s[1 + t.arg] = w
    BY <1>1, <1>4, <2>2, <2>3
  <2>5. 1 + t.arg = t.arg + 1 /\ Len(s) \in Nat
    BY <1>1, <2>4
  <2>6. s[t.arg + 1] = w
    BY <2>4, <2>5
  <2>7. \A i \in 1 .. t.arg :
          /\ i \in DOMAIN s /\ IsRead(s[i], Len(g.made) + 1, i)
          /\ s[i].depth = g.todo[1].depth + 1 /\ s[i].hot = (t.tag \notin {"new_ref", "magic"})
    BY <1>3, <1>4, <2>3
  <2> QED BY <1>1, <2>1, <2>3, <2>4, <2>5, <2>6, <2>7 DEF Opening
<1> QED BY <1>5, <1>6, <1>7

(* An entity is made.                                                      *)
LEMMA NewTook ==
  ASSUME NEW g \in RunState, g.todo # <<>>, g.todo[1].do = "read",
         g.todo[1].into \in {0} \cup DOMAIN g.made, NEW t \in NodeToken, t.tag \in EntityTags,
         NEW ender \in Enders(t.tag, g.n + 1, Len(g.made) + 1, g.refs),
         NEW h, h = NewFed(g, t, ender), NEW e, e = Len(g.made) + 1
  PROVE  /\ h \in RunState /\ Took(g, h, e, Contents(g, t) \o ender)
         /\ Opens(g, h, e, Contents(g, t) \o ender)
         /\ h.ids = IF t.tag = "array" THEN g.ids ELSE Append(g.ids, e)
         /\ h.refs = g.refs + (IF t.tag = "new_ref" THEN 1 ELSE 0)
         /\ h.made[e].from = t /\ h.made[e].kind = MadeKind(t.tag)
<1>1. /\ g.made \in Seq(RunEntity) /\ Len(g.made) \in Nat /\ DOMAIN g.made = 1 .. Len(g.made)
      /\ g.ids \in Seq(Nat) /\ g.refs \in Nat /\ e \in Nat /\ e \in Int /\ e > Len(g.made)
  BY RunFields, LenProperties
<1>2. Entity(t) \in RunEntity /\ Entity(t).kids = <<>> /\ Entity(t).from = t
      /\ Entity(t).kind = MadeKind(t.tag)
  BY DEF Entity, RunEntity, MadeKind
<1>3. PICK base : base = Append(g.made, Entity(t))
  OBVIOUS
<1>4. /\ base \in Seq(RunEntity) /\ Len(base) = e /\ \A x \in 1 .. Len(g.made) : base[x] = g.made[x]
      /\ base[e] = Entity(t)
  BY <1>1, <1>2, <1>3
<1>5. PICK m2 : m2 = Stored(base, g.todo[1].into, e)
  OBVIOUS
<1>6. /\ Grew(g.made, m2, g.todo[1].into, e) /\ Len(m2) = Len(base)
      /\ \A x \in DOMAIN m2 : m2[x].kind = base[x].kind /\ m2[x].from = base[x].from
  <2>1. /\ Len(g.made) <= Len(base) /\ Len(base) <= Len(g.made) + 1
        /\ \A x \in Len(g.made) + 1 .. Len(base) : base[x].kids = <<>>
    BY <1>1, <1>2, <1>4
  <2>2. BaseOf(g.made, base)
    BY <1>1, <1>4, <2>1 DEF BaseOf
  <2> QED BY <1>1, <1>5, <2>2, StoreGrew DEF GrewFrom
<1>7. PICK s : s = Contents(g, t) \o ender
  OBVIOUS
<1>8. /\ s \in Seq(RunTask) /\ t.arg \in Nat /\ DOMAIN s = 1 .. Len(s) /\ Len(s) \in Nat
      /\ \A i \in 1 .. t.arg : i \in DOMAIN s /\ IsRead(s[i], e, i)
      /\ \/ Len(s) = t.arg
         \/ /\ Len(s) = t.arg + 1 /\ s[t.arg + 1].do # "read"
            /\ s[t.arg + 1].do # "nothing" => s[t.arg + 1].entity = e
  <2>1. Opening(g, t, ender, s)
    BY <1>7, ContentsTyped
  <2> QED BY <2>1 DEF Opening
<1>9. PICK ids_ : ids_ = IF t.tag = "array" THEN g.ids ELSE Append(g.ids, e)
  OBVIOUS
<1>10. PICK refs : refs = g.refs + (IF t.tag = "new_ref" THEN 1 ELSE 0)
  OBVIOUS
<1>11. ids_ \in Seq(Nat) /\ refs \in Nat /\ h = Fed(g, base, e, s, ids_, refs)
  BY <1>1, <1>3, <1>7, <1>9, <1>10 DEF NewFed
<1>12. m2 \in Seq(RunEntity) /\ DOMAIN m2 = 1 .. Len(m2)
       /\ \A x \in DOMAIN m2 : x \in DOMAIN g.made \/ (x = Len(g.made) + 1 /\ m2[x].kids = <<>>)
  BY <1>6 DEF Grew
<1>13. /\ h \in RunState /\ h.n = g.n + 1 /\ h.made = m2 /\ h.ids = ids_ /\ h.refs = refs
       /\ h.ended = g.ended /\ h.result = (IF g.todo[1].into = 0 THEN e ELSE g.result)
       /\ Comes(h.todo, s, g.todo)
  BY <1>1, <1>5, <1>8, <1>11, <1>12, FedTyped DEF FedTo
<1>14. e \in DOMAIN m2 /\ e \notin DOMAIN g.made /\ m2[e].kids = <<>>
       /\ m2[e].from = t /\ m2[e].kind = MadeKind(t.tag)
  <2>1. e \in DOMAIN m2 /\ e \notin DOMAIN g.made
    BY <1>1, <1>4, <1>6, <1>12
  <2> QED BY <1>2, <1>4, <1>6, <1>12, <2>1
<1>15. Opens(g, h, e, s)
  <2>1. \A i \in DOMAIN s :
          \/ i \in 1 .. t.arg /\ IsRead(s[i], e, i)
          \/ /\ i = Len(s) /\ i = t.arg + 1 /\ s[i].do # "read"
             /\ s[i].do # "nothing" => s[i].entity = e
    BY <1>8
  <2> QED BY <1>8, <1>13, <1>14, <2>1 DEF Opens
<1> QED BY <1>6, <1>7, <1>9, <1>10, <1>13, <1>14, <1>15 DEF Took

----------------------------------------------------------------------------
(* The contents of the entities.                                           *)
Fits(nu, m, k, d) ==
  IF k.into = 0 THEN Copies(nu, m, 1, d) ELSE Right(nu, m, k.into, k.slot, d)
NewOK(m, e) ==
  /\ m[e].from.node \in Nodes(graph) /\ m[e].from.arg = Announced(m, e)
  /\ KindFits(m[e].kind, m[e].from.node)

Lasting(nu, m, nu2, m2) ==
  /\ \A e \in DOMAIN m : HasBuilt(m2, e) <=> HasBuilt(m, e)
  /\ \A e \in DOMAIN m : Announced(m2, e) = Announced(m, e)
  /\ \A x, d : Copies(nu, m, x, d) => Copies(nu2, m2, x, d)
  /\ \A e \in DOMAIN m : \A i, d : Right(nu, m, e, i, d) => Right(nu2, m2, e, i, d)

(* What an entity is does not change when others are made.                 *)
LEMMA GrewKeeps ==
  ASSUME NEW m, NEW m2, NEW p, NEW v, Grew(m, m2, p, v), NEW nu, NEW nu2, nu \subseteq nu2
  PROVE  Lasting(nu, m, nu2, m2)
<1>1. /\ DOMAIN m \subseteq DOMAIN m2
      /\ \A e \in DOMAIN m : m2[e].kind = m[e].kind /\ m2[e].from = m[e].from
  BY DEF Grew
<1>2. \A e \in DOMAIN m : HasBuilt(m2, e) <=> HasBuilt(m, e)
  BY <1>1 DEF HasBuilt
<1>3. \A e \in DOMAIN m : Announced(m2, e) = Announced(m, e)
  BY <1>1, <1>2 DEF Announced
<1>4. \A x, d : Copies(nu, m, x, d) => Copies(nu2, m2, x, d)
  BY <1>1 DEF Copies
<1>5. ASSUME NEW e \in DOMAIN m, NEW i, NEW d, Right(nu, m, e, i, d)
      PROVE  Right(nu2, m2, e, i, d)
  <2>1. CASE HasBuilt(m, e)
    BY <1>1, <1>2, <1>5, <2>1 DEF Right
  <2>2. CASE ~ HasBuilt(m, e)
    BY <1>1, <1>2, <1>4, <1>5, <2>2 DEF Right
  <2> QED BY <2>1, <2>2
<1> QED BY <1>2, <1>3, <1>4, <1>5 DEF Lasting

(* A value that fits is stored: every content is still a copy.             *)
LEMMA ContentsPut ==
  ASSUME NEW nu, NEW nu2, nu \subseteq nu2, NEW g \in RunState, NEW h, NEW d, NEW tasks,
         Took(g, h, d, tasks), ContentsOK(nu, g), Fits(nu2, h.made, g.todo[1], d),
         NEW p, p = g.todo[1].into,
         p # 0 => /\ g.todo[1].slot = Len(g.made[p].kids) + 1
                  /\ g.todo[1].slot <= g.made[p].from.arg,
         \A e \in DOMAIN h.made : e \notin DOMAIN g.made => NewOK(h.made, e),
         h.ids = g.ids \/ (h.ids = Append(g.ids, d) /\ d \in DOMAIN h.made)
  PROVE  ContentsOK(nu2, h)
<1> DEFINE m == g.made
           m2 == h.made
<1>1. Grew(m, m2, p, d)
  BY DEF Took
<1>2. /\ m \in Seq(RunEntity) /\ m2 \in Seq(RunEntity) /\ DOMAIN m \subseteq DOMAIN m2
      /\ p \in {0} \cup DOMAIN m /\ d \in Int /\ DOMAIN m = 1 .. Len(m)
      /\ \A e \in DOMAIN m :
           /\ m2[e].kind = m[e].kind /\ m2[e].from = m[e].from
           /\ m2[e].kids = IF e = p THEN Append(m[e].kids, d) ELSE m[e].kids
      /\ \A e \in DOMAIN m2 : e \in DOMAIN m \/ m2[e].kids = <<>>
  BY <1>1 DEF Grew
<1>3. \A e \in DOMAIN m : EntityOK(nu, m, e)
  BY DEF ContentsOK
<1>0. Lasting(nu, m, nu2, m2)
  BY <1>1, GrewKeeps
<1>20. p = g.todo[1].into /\ (p # 0 => g.todo[1].slot = Len(m[p].kids) + 1 /\ g.todo[1].slot <= m[p].from.arg)
       /\ Fits(nu2, m2, g.todo[1], d)
  OBVIOUS
<1> HIDE DEF m, m2
<1>4. ASSUME NEW e \in DOMAIN m PROVE EntityOK(nu2, m2, e)
  <2>1. /\ m[e].from.node \in Nodes(graph) /\ m[e].from.arg = Announced(m, e)
        /\ KindFits(m[e].kind, m[e].from.node) /\ Len(m[e].kids) <= Announced(m, e)
        /\ \A i \in DOMAIN m[e].kids : Right(nu, m, e, i, m[e].kids[i])
    BY <1>3, <1>4 DEF EntityOK
  <2>2. Announced(m2, e) = Announced(m, e)
        /\ \A i, x : Right(nu, m, e, i, x) => Right(nu2, m2, e, i, x)
    BY <1>0, <1>4 DEF Lasting
  <2>3. m[e].kids \in Seq(Int) /\ m[e].from.arg \in Nat
    BY <1>2, <1>4, EntityFields
  <2>4. PICK k : k = m[e].kids
    OBVIOUS
  <2>5. CASE e = p
    <3>0. p # 0
      BY <1>2, <1>4, <2>5
    <3>1. p # 0 /\ m2[e].kids = Append(k, d)
      <4>1. m2[e].kids = Append(m[e].kids, d)
        BY <1>2, <1>4, <2>5
      <4> QED BY <2>4, <3>0, <4>1
    <3>2. /\ Len(m2[e].kids) = Len(k) + 1 /\ DOMAIN m2[e].kids = 1 .. Len(k) + 1
          /\ m2[e].kids[Len(k) + 1] = d /\ \A i \in 1 .. Len(k) : m2[e].kids[i] = k[i]
          /\ Len(k) \in Nat /\ DOMAIN k = 1 .. Len(k)
      BY <1>2, <2>3, <2>4, <3>1
    <3>3. Right(nu2, m2, e, Len(k) + 1, d) /\ Len(k) + 1 <= Announced(m2, e)
      BY <1>20, <2>1, <2>2, <2>4, <2>5, <3>1 DEF Fits
    <3>4. \A i \in DOMAIN m2[e].kids : Right(nu2, m2, e, i, m2[e].kids[i])
      <4> SUFFICES ASSUME NEW i \in 1 .. Len(k) + 1 PROVE Right(nu2, m2, e, i, m2[e].kids[i])
        BY <3>2
      <4>1. i \in 1 .. Len(k) \/ i = Len(k) + 1
        BY <3>2
      <4> QED BY <2>1, <2>2, <2>4, <3>2, <3>3, <4>1
    <3> QED BY <1>2, <1>4, <2>1, <2>2, <3>2, <3>3, <3>4 DEF EntityOK
  <2>6. CASE e # p
    <3>1. m2[e].kids = k
      BY <1>2, <1>4, <2>4, <2>6
    <3> QED BY <1>2, <1>4, <2>1, <2>2, <2>4, <3>1 DEF EntityOK
  <2> QED BY <2>5, <2>6
<1>5. ASSUME NEW e \in DOMAIN m2, e \notin DOMAIN m PROVE EntityOK(nu2, m2, e)
  <2>1. m2[e].kids = <<>> /\ NewOK(m2, e) /\ m2[e].from.arg \in Nat
    BY <1>2, <1>5, EntityFields DEF m, m2
  <2> QED BY <2>1 DEF EntityOK, NewOK
<1>6. h.result = NoValue \/ Copies(nu2, m2, 1, h.result)
  <2>1. h.result = IF p = 0 THEN d ELSE g.result
    BY DEF Took
  <2>2. CASE p = 0
    BY <1>20, <2>1, <2>2 DEF Fits
  <2>3. CASE p # 0
    <3>1. g.result = NoValue \/ Copies(nu, m, 1, g.result)
      BY DEF ContentsOK, m
    <3> QED BY <1>0, <2>1, <2>3, <3>1 DEF Lasting
  <2> QED BY <2>2, <2>3
<1>21. h.ids = g.ids \/ (h.ids = Append(g.ids, d) /\ d \in DOMAIN m2)
  BY DEF m2
<1>7. ASSUME NEW i \in DOMAIN h.ids PROVE h.ids[i] \in DOMAIN m2
  <2>1. g.ids \in Seq(Nat) /\ \A j \in DOMAIN g.ids : g.ids[j] \in DOMAIN m
    BY RunFields DEF ContentsOK, m
  <2>2. CASE h.ids = g.ids
    BY <1>2, <1>7, <2>1, <2>2
  <2>3. CASE h.ids = Append(g.ids, d) /\ d \in DOMAIN m2
    <3>1. /\ DOMAIN h.ids = 1 .. Len(g.ids) + 1 /\ DOMAIN g.ids = 1 .. Len(g.ids) /\ Len(g.ids) \in Nat
          /\ h.ids[Len(g.ids) + 1] = d /\ \A j \in 1 .. Len(g.ids) : h.ids[j] = g.ids[j]
      <4>1. Len(g.ids) \in Nat /\ DOMAIN g.ids = 1 .. Len(g.ids)
        BY <2>1, LenProperties
      <4>2. d \in Nat
        BY <1>2, <2>3, LenProperties
      <4> QED BY <2>1, <2>3, <4>1, <4>2, AppendProperties
    <3>2. i \in 1 .. Len(g.ids) \/ i = Len(g.ids) + 1
      BY <1>7, <3>1
    <3> QED BY <1>2, <2>1, <2>3, <3>1, <3>2
  <2> QED BY <1>21, <2>2, <2>3
<1> QED BY <1>4, <1>5, <1>6, <1>7 DEF ContentsOK, m, m2

(* References hold no references, because PHP's do not.                    *)
LEMMA FlatHolds ==
  ASSUME NEW nu, NEW g \in RunState, ContentsOK(nu, g), WellFormed(graph)
  PROVE  Flat(g.made)
<1> DEFINE m == g.made
<1> SUFFICES ASSUME NEW e \in DOMAIN m, m[e].kind = "reference", NEW i \in DOMAIN m[e].kids,
                    IsReference(m, m[e].kids[i])
             PROVE  FALSE
  BY DEF Flat
<1>1. PICK d : d = m[e].kids[i]
  OBVIOUS
<1>2. PICK n : n = m[e].from.node
  OBVIOUS
<1>3. EntityOK(nu, m, e)
  BY DEF ContentsOK
<1>4. /\ n \in Nodes(graph) /\ KindFits("reference", n) /\ Right(nu, m, e, i, d)
      /\ Len(m[e].kids) <= Announced(m, e) /\ ~ HasBuilt(m, e)
  BY <1>1, <1>2, <1>3 DEF EntityOK, HasBuilt
<1>5. Kind(n) = "reference" /\ KidsFitKind(graph, n)
  BY <1>4 DEF KindFits, WellFormed
<1>6. Len(Kids(n)) = 1 /\ (IsNode(Kids(n)[1]) => Kind(Kids(n)[1]) # "reference")
  BY <1>5 DEF KidsFitKind, Kind, Kids
<1>7. i = 1
  <2>1. m[e].kids \in Seq(Int)
    BY RunFields, EntityFields, ElementOfSeq, LenProperties
  <2>2. Len(m[e].kids) <= 1
    BY <1>2, <1>4, <1>6 DEF Announced
  <2> QED BY <2>1, <2>2
<1>8. PICK v : MayStandFor(Kids(n)[1], v) /\ Copies(nu, m, v, d)
  BY <1>2, <1>4, <1>7 DEF Right
<1>9. v = Kids(n)[1]
  BY <1>6, <1>8 DEF MayStandFor, IsLoneReference
<1>10. d \in DOMAIN m /\ m[d].kind = "reference" /\ d > 0
  <2>1. m \in Seq(RunEntity)
    BY RunFields
  <2> QED BY <1>1, <2>1, LenProperties DEF IsReference
<1>11. IsNode(v) /\ m[d].from.node = v
  BY <1>8, <1>10 DEF Copies, DScalar, DNull
<1>12. Kind(v) = "reference"
  BY <1>10, <1>11 DEF ContentsOK, EntityOK, KindFits
<1> QED BY <1>6, <1>9, <1>11, <1>12

----------------------------------------------------------------------------
(* What is still to be read.                                               *)

(* The head's slot is the next one.                                        *)
LEMMA HeadSlot ==
  ASSUME NEW g \in RunState, SlotsOK(g), g.todo # <<>>, g.todo[1].do = "read",
         NEW p, p = g.todo[1].into
  PROVE  /\ p \in {0} \cup DOMAIN g.made
         /\ p # 0 => /\ g.todo[1].slot = Len(g.made[p].kids) + 1
                     /\ g.todo[1].slot <= g.made[p].from.arg
<1>1. 1 \in DOMAIN g.todo /\ g.todo[1] \in RunTask /\ DOMAIN g.todo = 1 .. Len(g.todo)
  <2>1. g.todo \in Seq(RunTask)
    BY RunFields
  <2> QED BY <2>1, EmptySeq, LenProperties
<1>2. InRange(g.made, g.todo[1])
  BY <1>1 DEF SlotsOK
<1>3. CASE p # 0
  <2>1. p \in DOMAIN g.made
    BY <1>2, <1>3 DEF InRange
  <2>2. Len(g.made[p].kids) \in Nat /\ g.made[p].from.arg \in Nat
    <3>1. g.made[p] \in RunEntity
      BY <2>1, RunFields, ElementOfSeq, LenProperties
    <3> QED BY <3>1, EntityFields, LenProperties
  <2>3. PICK l : l = Len(g.made[p].kids)
    OBVIOUS
  <2>4. g.todo[1].slot \in l + 1 .. g.made[p].from.arg
    BY <1>2, <1>3, <2>3 DEF InRange
  <2>5. l + 1 \in l + 1 .. g.made[p].from.arg
    <3>1. PICK a : a = g.made[p].from.arg
      OBVIOUS
    <3>2. PICK s : s = g.todo[1].slot
      OBVIOUS
    <3>3. a \in Nat /\ l \in Nat /\ s \in l + 1 .. a
      BY <2>2, <2>3, <2>4, <3>1, <3>2
    <3>4. l + 1 \in l + 1 .. a
      BY <3>3
    <3> QED BY <3>1, <3>4
  <2>6. PICK j \in DOMAIN g.todo : IsRead(g.todo[j], p, l + 1)
    BY <2>1, <2>3, <2>5 DEF SlotsOK
  <2>7. CASE j = 1
    BY <1>3, <2>1, <2>2, <2>3, <2>4, <2>6, <2>7 DEF IsRead
  <2>8. CASE j # 1
    <3>1. 1 < j
      BY <1>1, <2>8
    <3>2. Before(g.todo[1], g.todo[j])
      BY <1>1, <3>1 DEF SlotsOK
    <3>3. g.todo[1].slot < l + 1
      BY <2>6, <3>2 DEF Before, IsRead
    <3> QED BY <2>2, <2>3, <2>4, <3>3
  <2> QED BY <2>7, <2>8
<1> QED BY <1>3

(* A value is stored: the other slots are still to be read, in order.      *)
LEMMA SlotsPut ==
  ASSUME NEW g \in RunState, NEW h, NEW d, NEW tasks, Took(g, h, d, tasks), SlotsOK(g)
  PROVE  SlotsOK(h)
<1>1. PICK m : m = g.made
  OBVIOUS
<1>2. PICK m2 : m2 = h.made
  OBVIOUS
<1>3. PICK p : p = g.todo[1].into
  OBVIOUS
<1>4. /\ Grew(m, m2, p, d) /\ Comes(h.todo, tasks, g.todo) /\ g.todo[1].do = "read"
      /\ (tasks = <<>> /\ DOMAIN m2 = DOMAIN m) \/ Opens(g, h, d, tasks)
  BY <1>1, <1>2, <1>3 DEF Took
<1>5. /\ m \in Seq(RunEntity) /\ Len(m) \in Nat /\ DOMAIN m = 1 .. Len(m) /\ DOMAIN m \subseteq DOMAIN m2
      /\ \A e \in DOMAIN m :
           /\ m2[e].kind = m[e].kind /\ m2[e].from = m[e].from
           /\ m2[e].kids = IF e = p THEN Append(m[e].kids, d) ELSE m[e].kids
      /\ \A e \in DOMAIN m2 : e \in DOMAIN m \/ e = Len(m) + 1
      /\ d \in Int
  BY <1>4 DEF Grew
<1>6. /\ Len(tasks) \in Nat /\ DOMAIN tasks = 1 .. Len(tasks) /\ DOMAIN g.todo = 1 .. Len(g.todo)
      /\ DOMAIN h.todo = 1 .. Len(h.todo) /\ Len(g.todo) \in Nat /\ Len(h.todo) \in Nat
      /\ 1 \in DOMAIN g.todo
      /\ \A i \in DOMAIN h.todo :
           \/ i \in DOMAIN tasks /\ h.todo[i] = tasks[i]
           \/ /\ i > Len(tasks) /\ i - Len(tasks) + 1 \in DOMAIN g.todo /\ i - Len(tasks) + 1 > 1
              /\ h.todo[i] = g.todo[i - Len(tasks) + 1]
      /\ \A i \in DOMAIN tasks : i \in DOMAIN h.todo /\ h.todo[i] = tasks[i]
      /\ \A i \in DOMAIN g.todo : i > 1 =>
           i - 1 + Len(tasks) \in DOMAIN h.todo /\ h.todo[i - 1 + Len(tasks)] = g.todo[i]
  BY <1>4 DEF Comes
<1>7. g.todo # <<>>
  BY <1>6
<1>8. p # 0 => p \in DOMAIN m /\ g.todo[1].slot = Len(m[p].kids) + 1
  BY <1>1, <1>3, <1>4, <1>7, HeadSlot
<1>9. \A e \in DOMAIN m : /\ m[e].kids \in Seq(Int) /\ Len(m[e].kids) \in Nat /\ m[e].from.arg \in Nat
                          /\ Len(m2[e].kids) = Len(m[e].kids) + (IF e = p THEN 1 ELSE 0)
  <2> SUFFICES ASSUME NEW e \in DOMAIN m
               PROVE  /\ m[e].kids \in Seq(Int) /\ Len(m[e].kids) \in Nat /\ m[e].from.arg \in Nat
                      /\ Len(m2[e].kids) = Len(m[e].kids) + (IF e = p THEN 1 ELSE 0)
    OBVIOUS
  <2>1. m[e] \in RunEntity
    BY <1>5
  <2>2. PICK k : k = m[e].kids
    OBVIOUS
  <2>3. k \in Seq(Int) /\ m[e].from.arg \in Nat /\ Len(k) \in Nat /\ Len(Append(k, d)) = Len(k) + 1
    BY <1>5, <2>1, <2>2, EntityFields
  <2>4. m2[e].kids = IF e = p THEN Append(k, d) ELSE k
    BY <1>5, <2>2
  <2>5. CASE e = p
    BY <2>2, <2>3, <2>4, <2>5
  <2>6. CASE e # p
    BY <2>2, <2>3, <2>4, <2>6
  <2> QED BY <2>5, <2>6
(* Tasks left from before.                                                 *)
<1>10. ASSUME NEW i \in DOMAIN g.todo, i > 1
       PROVE  /\ InRange(m2, g.todo[i]) /\ InRange(m, g.todo[i])
              /\ g.todo[i].do = "read" /\ g.todo[i].into = p /\ p # 0 =>
                   g.todo[i].slot > Len(m[p].kids) + 1
  <2>1. InRange(m, g.todo[i]) /\ Before(g.todo[1], g.todo[i])
    BY <1>1, <1>6, <1>10 DEF SlotsOK
  <2>2. PICK k : k = g.todo[i]
    OBVIOUS
  <2>3. k.do = "read" /\ k.into = p /\ p # 0 => k.slot > Len(m[p].kids) + 1 /\ k.slot \in Int
    <3> SUFFICES ASSUME k.do = "read", k.into = p, p # 0
                 PROVE  k.slot > Len(m[p].kids) + 1 /\ k.slot \in Int
      OBVIOUS
    <3>1. g.todo[1].slot < k.slot
      BY <1>3, <1>4, <2>1, <2>2 DEF Before
    <3>2. k.slot \in Len(m[p].kids) + 1 .. m[p].from.arg
      BY <2>1, <2>2 DEF InRange
    <3> QED BY <1>8, <1>9, <3>1, <3>2
  <2>4. CASE k.do = "read" /\ k.into # 0
    <3>1. k.into \in DOMAIN m /\ k.slot \in Len(m[k.into].kids) + 1 .. m[k.into].from.arg
      BY <2>1, <2>2, <2>4 DEF InRange
    <3>2. PICK e : e = k.into
      OBVIOUS
    <3>3. e \in DOMAIN m2 /\ m2[e].from = m[e].from
          /\ k.slot \in Len(m2[e].kids) + 1 .. m[e].from.arg
      <4>1. PICK s : s = k.slot
        OBVIOUS
      <4>2. PICK l : l = Len(m[e].kids)
        OBVIOUS
      <4>3. PICK a : a = m[e].from.arg
        OBVIOUS
      <4>4. PICK l2 : l2 = Len(m2[e].kids)
        OBVIOUS
      <4>5. l \in Nat /\ a \in Nat /\ s \in l + 1 .. a /\ l2 = l + (IF e = p THEN 1 ELSE 0)
        BY <1>9, <3>1, <3>2, <4>1, <4>2, <4>3, <4>4
      <4>6. e = p => s > l + 1
        BY <2>3, <2>4, <3>1, <3>2, <4>1, <4>2, <1>5
      <4>7. s \in l2 + 1 .. a
        BY <4>5, <4>6
      <4> QED BY <1>5, <3>1, <3>2, <4>1, <4>3, <4>4, <4>7
    <3> QED BY <2>1, <2>2, <2>3, <2>4, <3>2, <3>3 DEF InRange
  <2>5. CASE ~ (k.do = "read" /\ k.into # 0)
    BY <1>5, <2>1, <2>2, <2>3, <2>5 DEF InRange
  <2> QED BY <2>4, <2>5
(* Tasks of an entity that is made.                                        *)
<1>11. ASSUME NEW i \in DOMAIN tasks
       PROVE  /\ Opens(g, h, d, tasks) /\ d \notin DOMAIN m /\ d # 0 /\ InRange(m2, tasks[i])
              /\ tasks[i].do = "read" => tasks[i].into = d /\ tasks[i].slot = i
              /\ tasks[i].do = "magic" => tasks[i].entity = d
              /\ tasks[i].do # "read" => i = Len(tasks)
  <2>1. Opens(g, h, d, tasks)
    BY <1>4, <1>6, <1>11
  <2>2. /\ d \in DOMAIN m2 /\ d \notin DOMAIN m /\ d = Len(m) + 1
        /\ m2[d].kids = <<>> /\ m2[d].from.arg \in Nat
        /\ \/ i \in 1 .. m2[d].from.arg /\ IsRead(tasks[i], d, i)
           \/ /\ i = Len(tasks) /\ tasks[i].do # "read"
              /\ tasks[i].do # "nothing" => tasks[i].entity = d
    BY <1>1, <1>2, <1>11, <2>1 DEF Opens
  <2>3. d # 0 /\ Len(m2[d].kids) = 0
    BY <1>5, <2>2
  <2>4. CASE i \in 1 .. m2[d].from.arg /\ IsRead(tasks[i], d, i)
    BY <2>1, <2>2, <2>3, <2>4 DEF InRange, IsRead
  <2>5. CASE /\ i = Len(tasks) /\ tasks[i].do # "read"
             /\ tasks[i].do # "nothing" => tasks[i].entity = d
    BY <2>1, <2>2, <2>3, <2>5 DEF InRange
  <2> QED BY <2>2, <2>4, <2>5
<1>12. \A j \in DOMAIN h.todo : InRange(m2, h.todo[j])
  BY <1>6, <1>10, <1>11
<1>13. ASSUME NEW i \in DOMAIN h.todo, NEW j \in DOMAIN h.todo, i < j
       PROVE  Before(h.todo[i], h.todo[j])
  <2>1. CASE j \in DOMAIN tasks /\ h.todo[j] = tasks[j]
    <3>1. i \in DOMAIN tasks /\ h.todo[i] = tasks[i] /\ i # Len(tasks)
      BY <1>6, <1>13, <2>1
    <3> QED BY <1>11, <1>13, <2>1, <3>1 DEF Before
  <2>2. CASE /\ j > Len(tasks) /\ j - Len(tasks) + 1 \in DOMAIN g.todo /\ j - Len(tasks) + 1 > 1
             /\ h.todo[j] = g.todo[j - Len(tasks) + 1]
    <3>1. PICK j2 \in DOMAIN g.todo : j2 = j - Len(tasks) + 1 /\ j2 > 1 /\ h.todo[j] = g.todo[j2]
      BY <2>2
    <3>2. CASE i \in DOMAIN tasks /\ h.todo[i] = tasks[i]
      <4>1. g.todo[j2].do = "read" => g.todo[j2].into = 0 \/ g.todo[j2].into \in DOMAIN m
        BY <1>10, <3>1 DEF InRange
      <4> QED BY <1>11, <3>1, <3>2, <4>1 DEF Before
    <3>3. CASE /\ i > Len(tasks) /\ i - Len(tasks) + 1 \in DOMAIN g.todo /\ i - Len(tasks) + 1 > 1
               /\ h.todo[i] = g.todo[i - Len(tasks) + 1]
      <4>1. i - Len(tasks) + 1 < j2
        BY <1>6, <1>13, <3>1
      <4> QED BY <3>1, <3>3, <4>1 DEF SlotsOK
    <3> QED BY <1>6, <3>2, <3>3
  <2> QED BY <1>6, <2>1, <2>2
<1>14. ASSUME NEW e \in DOMAIN m2, NEW s \in Len(m2[e].kids) + 1 .. m2[e].from.arg
       PROVE  \E j \in DOMAIN h.todo : IsRead(h.todo[j], e, s)
  <2>1. CASE e \in DOMAIN m
    <3>1. m2[e].from = m[e].from /\ s \in Len(m[e].kids) + 1 .. m[e].from.arg
      <4>1. PICK l : l = Len(m[e].kids)
        OBVIOUS
      <4>2. PICK a : a = m[e].from.arg
        OBVIOUS
      <4>3. PICK l2 : l2 = Len(m2[e].kids)
        OBVIOUS
      <4>4. l \in Nat /\ a \in Nat /\ (l2 = l \/ l2 = l + 1) /\ m2[e].from = m[e].from
        BY <1>5, <1>9, <2>1, <4>1, <4>2, <4>3
      <4>5. s \in l2 + 1 .. a
        BY <1>14, <4>2, <4>3, <4>4
      <4>6. s \in l + 1 .. a
        BY <4>4, <4>5
      <4> QED BY <4>1, <4>2, <4>4, <4>6
    <3>2. PICK j \in DOMAIN g.todo : IsRead(g.todo[j], e, s)
      BY <1>1, <2>1, <3>1 DEF SlotsOK
    <3>3. j # 1
      <4> SUFFICES ASSUME j = 1 PROVE FALSE
        OBVIOUS
      <4>1. e = p /\ s = g.todo[1].slot /\ p # 0
        BY <1>3, <1>5, <2>1, <3>2 DEF IsRead
      <4>2. PICK l : l = Len(m[e].kids)
        OBVIOUS
      <4>3. l \in Nat /\ s = l + 1 /\ Len(m2[e].kids) = l + 1 /\ m2[e].from.arg \in Nat
        BY <1>5, <1>8, <1>9, <2>1, <4>1, <4>2
      <4>4. s >= l + 1 + 1
        BY <1>14, <4>3
      <4> QED BY <4>3, <4>4
    <3>4. j > 1
      BY <1>6, <3>3
    <3> QED BY <1>6, <3>2, <3>4
  <2>2. CASE e \notin DOMAIN m
    <3>1. Opens(g, h, d, tasks) /\ e = d
      BY <1>1, <1>4, <1>5, <1>14, <2>2 DEF Opens
    <3>2. m2[e].kids = <<>> /\ m2[e].from.arg \in Nat
          /\ \A i \in 1 .. m2[e].from.arg : i \in DOMAIN tasks /\ IsRead(tasks[i], e, i)
      BY <1>2, <3>1 DEF Opens
    <3>3. s \in 1 .. m2[e].from.arg
      BY <1>14, <3>2
    <3> QED BY <1>6, <3>2, <3>3
  <2> QED BY <2>1, <2>2
<1> QED BY <1>2, <1>12, <1>13, <1>14 DEF SlotsOK

(* Ends fill nothing.                                                      *)
LEMMA SlotsClosed ==
  ASSUME NEW g \in RunState, g.todo # <<>>, g.todo[1].do # "read", SlotsOK(g),
         NEW h, h.made = g.made, Comes(h.todo, <<>>, g.todo)
  PROVE  SlotsOK(h)
<1>1. /\ \A i \in DOMAIN h.todo : i + 1 \in DOMAIN g.todo /\ h.todo[i] = g.todo[i + 1] /\ i \in Int
      /\ \A i \in DOMAIN g.todo : i > 1 => i - 1 \in DOMAIN h.todo /\ h.todo[i - 1] = g.todo[i]
      /\ \A i \in DOMAIN g.todo : i = 1 \/ i > 1
  <2>1. /\ Len(<<>>) = 0 /\ DOMAIN <<>> = {} /\ DOMAIN g.todo = 1 .. Len(g.todo)
        /\ DOMAIN h.todo = 1 .. Len(h.todo) /\ Len(g.todo) \in Nat /\ Len(h.todo) \in Nat
        /\ \A i \in DOMAIN h.todo :
             \/ i \in DOMAIN <<>> /\ h.todo[i] = <<>>[i]
             \/ /\ i > Len(<<>>) /\ i - Len(<<>>) + 1 \in DOMAIN g.todo /\ i - Len(<<>>) + 1 > 1
                /\ h.todo[i] = g.todo[i - Len(<<>>) + 1]
        /\ \A i \in DOMAIN g.todo : i > 1 =>
             i - 1 + Len(<<>>) \in DOMAIN h.todo /\ h.todo[i - 1 + Len(<<>>)] = g.todo[i]
    BY DEF Comes
  <2>2. \A i \in Int : i - 0 + 1 = i + 1 /\ i - 1 + 0 = i - 1
    OBVIOUS
  <2>3. ASSUME NEW i \in DOMAIN h.todo
        PROVE  i + 1 \in DOMAIN g.todo /\ h.todo[i] = g.todo[i + 1] /\ i \in Int
    <3>1. i \in Int /\ i - 0 + 1 \in DOMAIN g.todo /\ h.todo[i] = g.todo[i - 0 + 1]
      BY <2>1, <2>3
    <3> QED BY <2>2, <3>1
  <2>4. ASSUME NEW i \in DOMAIN g.todo, i > 1
        PROVE  i - 1 \in DOMAIN h.todo /\ h.todo[i - 1] = g.todo[i]
    <3>1. i \in Int /\ i - 1 + 0 \in DOMAIN h.todo /\ h.todo[i - 1 + 0] = g.todo[i]
      BY <2>1, <2>4
    <3> QED BY <2>2, <3>1
  <2>5. \A i \in DOMAIN g.todo : i = 1 \/ i > 1
    BY <2>1
  <2> QED BY <2>3, <2>4, <2>5
<1>2. \A j \in DOMAIN h.todo : InRange(h.made, h.todo[j])
  BY <1>1 DEF SlotsOK
<1>3. ASSUME NEW i \in DOMAIN h.todo, NEW j \in DOMAIN h.todo, i < j
      PROVE  Before(h.todo[i], h.todo[j])
  <2>1. i + 1 < j + 1 /\ i + 1 \in DOMAIN g.todo /\ j + 1 \in DOMAIN g.todo
    BY <1>1, <1>3
  <2> QED BY <1>1, <2>1 DEF SlotsOK
<1>4. ASSUME NEW e \in DOMAIN h.made, NEW s \in Len(h.made[e].kids) + 1 .. h.made[e].from.arg
      PROVE  \E j \in DOMAIN h.todo : IsRead(h.todo[j], e, s)
  <2>1. PICK j \in DOMAIN g.todo : IsRead(g.todo[j], e, s)
    BY <1>4 DEF SlotsOK
  <2>2. j # 1
    BY <2>1 DEF IsRead
  <2> QED BY <1>1, <2>1, <2>2
<1> QED BY <1>2, <1>3, <1>4 DEF SlotsOK

----------------------------------------------------------------------------
(* Tasks that are left keep track of one another.                          *)
Includes(m, m2) ==
  DOMAIN m \subseteq DOMAIN m2 /\ \A e \in DOMAIN m : m2[e].kind = m[e].kind /\ m2[e].from = m[e].from
Stays(shared, loc, ended, core2, shared2, loc2, ended2, c) ==
  /\ c \in 1 .. Len(core2) /\ (c \in shared2 <=> c \in shared)
  /\ c \in shared /\ c \notin ended => loc2[c] = loc[c] /\ c \notin ended2

(* A pair of tasks, after more tokens were read.                           *)
LEMMA TrackStays ==
  ASSUME NEW core, NEW shared, NEW loc, NEW g, NEW t, NEW k, Tracks(core, shared, loc, g, t, k),
         NEW core2, NEW shared2, NEW loc2, NEW h, Includes(g.made, h.made), InRange(g.made, k),
         t.do = "arrayDone" => Stays(shared, loc, g.ended, core2, shared2, loc2, h.ended, k.at)
  PROVE  Tracks(core2, shared2, loc2, h, t, k)
<1>1. /\ k.do = "read" /\ k.into # 0 => k.into \in DOMAIN g.made
      /\ k.do \notin {"read", "nothing"} => k.entity \in DOMAIN g.made
  BY DEF InRange
<1>2. /\ DOMAIN g.made \subseteq DOMAIN h.made
      /\ \A e \in DOMAIN g.made : h.made[e].kind = g.made[e].kind /\ h.made[e].from = g.made[e].from
  BY DEF Includes
<1>3. \A e \in DOMAIN g.made : HasBuilt(h.made, e) <=> HasBuilt(g.made, e)
  BY <1>2 DEF HasBuilt
<1>4. k.do = "read" => /\ \A v : Expects(g.made, k, v) => Expects(h.made, k, v)
                       /\ \A n : ExpectsBuilt(g.made, k, n) => ExpectsBuilt(h.made, k, n)
  BY <1>1, <1>2, <1>3 DEF Expects, ExpectsBuilt
<1>5. CASE t.do \in {"value", "hook", "built"}
  BY <1>4, <1>5 DEF Tracks
<1>6. CASE t.do = "arrayDone"
  BY <1>2, <1>6 DEF Tracks, Stays
<1>7. CASE t.do = "release"
  BY <1>2, <1>7 DEF Tracks
<1>8. CASE t.do \notin {"value", "hook", "built", "arrayDone", "release"}
  BY <1>8 DEF Tracks
<1> QED BY <1>5, <1>6, <1>7, <1>8

(* The first pair is replaced by others.                                   *)
LEMMA TracksPut ==
  ASSUME NEW core, NEW shared, NEW loc, NEW g, NEW ag, AllTrack(core, shared, loc, g, ag),
         NEW core2, NEW shared2, NEW loc2, NEW h, NEW ag2, NEW s, NEW tasks,
         Comes(ag2, s, ag), Comes(h.todo, tasks, g.todo), Len(s) = Len(tasks),
         \A i \in DOMAIN s : Tracks(core2, shared2, loc2, h, s[i], tasks[i]),
         \A j \in DOMAIN ag : j > 1 => Tracks(core2, shared2, loc2, h, ag[j], g.todo[j])
  PROVE  AllTrack(core2, shared2, loc2, h, ag2)
<1>1. Len(ag) = Len(g.todo)
  BY DEF AllTrack
<1>2. /\ Len(s) \in Nat /\ Len(ag2) = Len(s) + Len(ag) - 1 /\ Len(h.todo) = Len(tasks) + Len(g.todo) - 1
      /\ DOMAIN s = 1 .. Len(s) /\ DOMAIN tasks = 1 .. Len(tasks) /\ DOMAIN ag2 = 1 .. Len(ag2)
      /\ DOMAIN ag = 1 .. Len(ag) /\ DOMAIN g.todo = 1 .. Len(g.todo)
      /\ \A i \in DOMAIN ag2 :
           \/ i \in DOMAIN s /\ ag2[i] = s[i]
           \/ /\ i > Len(s) /\ i - Len(s) + 1 \in DOMAIN ag /\ i - Len(s) + 1 > 1
              /\ ag2[i] = ag[i - Len(s) + 1]
      /\ \A i \in DOMAIN tasks : h.todo[i] = tasks[i]
      /\ \A i \in DOMAIN g.todo : i > 1 => h.todo[i - 1 + Len(tasks)] = g.todo[i]
  BY DEF Comes
<1>3. ASSUME NEW i \in DOMAIN ag2 PROVE Tracks(core2, shared2, loc2, h, ag2[i], h.todo[i])
  <2>1. CASE i \in DOMAIN s /\ ag2[i] = s[i]
    <3>1. h.todo[i] = tasks[i]
      BY <1>2, <2>1
    <3> QED BY <2>1, <3>1
  <2>2. CASE ~ (i \in DOMAIN s /\ ag2[i] = s[i])
    <3>1. PICK j : j = i - Len(s) + 1
      OBVIOUS
    <3>2. j \in DOMAIN ag /\ j > 1 /\ ag2[i] = ag[j]
      BY <1>2, <2>2, <3>1
    <3>3. j \in DOMAIN g.todo /\ j - 1 + Len(tasks) = i
      BY <1>1, <1>2, <3>1, <3>2
    <3>4. h.todo[i] = g.todo[j]
      BY <1>2, <3>2, <3>3
    <3> QED BY <3>2, <3>4
  <2> QED BY <2>1, <2>2
<1>4. Len(ag2) = Len(h.todo)
  BY <1>1, <1>2
<1> QED BY <1>3, <1>4 DEF AllTrack

----------------------------------------------------------------------------
(* Where the tokens are.                                                   *)
More(core, shared, loc, core2, shared2, loc2, t, marked) ==
  /\ Len(core) \in Nat /\ Len(core2) = Len(core) + 1 /\ core2[Len(core) + 1] = t
  /\ \A c \in 1 .. Len(core) : c \in 1 .. Len(core2) /\ core2[c] = core[c] /\ loc2[c] = loc[c]
                               /\ (c \in shared2 <=> c \in shared)
  /\ Len(core) + 1 \in shared2 <=> marked

(* The prefix, and how many tokens it is.                                  *)
PrefixOf(prefix, t) ==
  Len(prefix) = 0 \/ (Len(prefix) = 1 /\ prefix[1].tag = "shared" /\ t.tag = "array")
Continues(b2, b, prefix, t) == b2 = b \o (prefix \o <<t>>)

(* A token is written, or the prefix of a shared array and a token.        *)
LEMMA LayoutMore ==
  ASSUME NEW b \in Seq(NodeToken), NEW core, NEW shared, NEW loc, Layout(b, core, shared, loc),
         NEW t \in NodeToken, t.tag # "shared", NEW b2, NEW prefix \in Seq(NodeToken),
         Continues(b2, b, prefix, t), PrefixOf(prefix, t)
  PROVE  \E core2, shared2, loc2 :
           /\ Layout(b2, core2, shared2, loc2) /\ loc2[Len(core) + 1] = Len(b) + Len(prefix) + 1
           /\ More(core, shared, loc, core2, shared2, loc2, t, prefix # <<>>)
<1>0. Len(prefix) = 0 \/ (Len(prefix) = 1 /\ prefix[1].tag = "shared" /\ t.tag = "array")
  BY DEF PrefixOf
<1>1. /\ core \in Seq(NodeToken) /\ shared \subseteq 1 .. Len(core)
      /\ loc \in [0 .. Len(core) -> 0 .. Len(b)]
      /\ loc[0] = 0 /\ loc[Len(core)] = Len(b)
      /\ \A c \in 1 .. Len(core) :
           /\ core[c].tag # "shared" /\ b[loc[c]] = core[c]
           /\ IF c \in shared
                THEN core[c].tag = "array" /\ loc[c] = loc[c - 1] + 2 /\ b[loc[c] - 1].tag = "shared"
                ELSE loc[c] = loc[c - 1] + 1
           /\ \A d \in 0 .. Len(core) : d < c => loc[d] < loc[c]
  BY DEF Layout
<1>2. PICK l : l = Len(core)
  OBVIOUS
<1>3. PICK q : q = Len(prefix)
  OBVIOUS
<1>4. PICK y : y = Len(b)
  OBVIOUS
<1>5. l \in Nat /\ y \in Nat /\ q \in {0, 1} /\ DOMAIN core = 1 .. l
  BY <1>0, <1>1, <1>2, <1>3, <1>4, LenProperties
<1>6. /\ Len(b2) = y + q + 1 /\ b2[y + q + 1] = t
      /\ \A i \in 1 .. y : b2[i] = b[i]
      /\ q = 1 => b2[y + 1].tag = "shared"
  <2>1. PICK u : u = prefix \o <<t>>
    OBVIOUS
  <2>2. PICK w : w = <<t>>
    OBVIOUS
  <2>3. w \in Seq(NodeToken) /\ Len(w) = 1 /\ w[1] = t /\ 1 \in DOMAIN w
    BY <2>2
  <2>4. u = prefix \o w
    BY <2>1, <2>2
  <2>5. u \in Seq(NodeToken) /\ Joined(u, prefix, w)
    BY <2>3, <2>4, Joins
  <2>6. b2 = b \o u
    BY <2>1 DEF Continues
  <2>7. Joined(b2, b, u)
    BY <2>5, <2>6, Joins
  <2>8. Len(u) = q + 1 /\ u[1 + q] = t /\ 1 + q \in DOMAIN u
        /\ (q = 1 => 1 \in DOMAIN u /\ u[1].tag = "shared")
    BY <1>0, <1>3, <1>5, <2>3, <2>5 DEF Joined
  <2>9. /\ Len(b2) = y + Len(u) /\ \A i \in 1 .. y : b2[i] = b[i]
        /\ \A i \in DOMAIN u : b2[i + y] = u[i]
    BY <1>4, <2>7 DEF Joined
  <2>10. 1 + q + y = y + q + 1 /\ y + (q + 1) = y + q + 1 /\ 1 + y = y + 1
    BY <1>5
  <2> QED BY <2>8, <2>9, <2>10
<1>7. PICK core2 : core2 = Append(core, t)
  OBVIOUS
<1>8. /\ core2 \in Seq(NodeToken) /\ Len(core2) = l + 1 /\ core2[l + 1] = t
      /\ \A c \in 1 .. l : core2[c] = core[c]
  BY <1>1, <1>2, <1>5, <1>7
<1>9. PICK shared2 : shared2 = IF q = 1 THEN shared \cup {l + 1} ELSE shared
  OBVIOUS
<1>10. PICK loc2 : loc2 = [c \in 0 .. l + 1 |-> IF c = l + 1 THEN y + q + 1 ELSE loc[c]]
  OBVIOUS
<1>11. /\ \A c \in 0 .. l : loc2[c] = loc[c] /\ loc[c] \in 0 .. y
       /\ loc2[l + 1] = y + q + 1
  <2>1. \A c \in 0 .. l : c \in 0 .. l + 1 /\ c # l + 1
    BY <1>5
  <2>2. \A c \in 0 .. l : loc[c] \in 0 .. y
    BY <1>1, <1>2, <1>4
  <2>3. l + 1 \in 0 .. l + 1
    BY <1>5
  <2> QED BY <1>10, <2>1, <2>2, <2>3
<1>12. loc2 \in [0 .. l + 1 -> 0 .. y + q + 1]
  <2>1. \A c \in 0 .. l + 1 : c = l + 1 \/ c \in 0 .. l
    BY <1>5
  <2>2. \A i \in 0 .. y : i \in 0 .. y + q + 1
    BY <1>5
  <2>3. y + q + 1 \in 0 .. y + q + 1
    BY <1>5
  <2>4. \A c \in 0 .. l + 1 : (IF c = l + 1 THEN y + q + 1 ELSE loc[c]) \in 0 .. y + q + 1
    BY <1>11, <2>1, <2>2, <2>3
  <2> QED BY <1>10, <2>4
<1>13. /\ \A c \in 1 .. l : c \in shared2 <=> c \in shared
       /\ l + 1 \in shared2 <=> q = 1
       /\ shared2 \subseteq 1 .. l + 1
  <2>1. shared \subseteq 1 .. l /\ l + 1 \notin 1 .. l /\ l + 1 \in 1 .. l + 1
        /\ 1 .. l \subseteq 1 .. l + 1
    BY <1>1, <1>2, <1>5
  <2> QED BY <1>9, <2>1
<1>14. ASSUME NEW c \in 1 .. l + 1
       PROVE  /\ core2[c].tag # "shared" /\ b2[loc2[c]] = core2[c]
              /\ IF c \in shared2
                   THEN core2[c].tag = "array" /\ loc2[c] = loc2[c - 1] + 2 /\ b2[loc2[c] - 1].tag = "shared"
                   ELSE loc2[c] = loc2[c - 1] + 1
              /\ \A d \in 0 .. l + 1 : d < c => loc2[d] < loc2[c]
  <2>1. CASE c \in 1 .. l
    <3>1. c \in 0 .. l /\ c - 1 \in 0 .. l /\ 0 \in 0 .. l /\ \A d \in 0 .. l + 1 : d < c => d \in 0 .. l
      BY <1>5, <2>1
    <3>2. loc2[c] = loc[c] /\ loc2[c - 1] = loc[c - 1] /\ loc[c] \in 0 .. y /\ loc[c - 1] \in 0 .. y
          /\ core2[c] = core[c] /\ loc[c - 1] < loc[c]
      BY <1>1, <1>2, <1>8, <1>11, <2>1, <3>1
    <3>3. PICK a : a = loc[c]
      OBVIOUS
    <3>4. PICK z : z = loc[c - 1]
      OBVIOUS
    <3>5. a \in 1 .. y /\ (a = z + 2 => a - 1 \in 1 .. y)
      BY <1>5, <3>2, <3>3, <3>4
    <3>6. b2[a] = b[a] /\ (a = z + 2 => b2[a - 1] = b[a - 1])
      BY <1>6, <3>5
    <3>7. \A d \in 0 .. l + 1 : d < c => loc2[d] < loc2[c]
      BY <1>1, <1>2, <1>11, <2>1, <3>1
    <3>8. /\ core[c].tag # "shared" /\ b[a] = core[c]
          /\ IF c \in shared THEN core[c].tag = "array" /\ a = z + 2 /\ b[a - 1].tag = "shared"
                             ELSE a = z + 1
      BY <1>1, <1>2, <2>1, <3>3, <3>4
    <3>9. loc2[c] = a /\ loc2[c - 1] = z /\ (c \in shared2 <=> c \in shared)
      BY <1>13, <2>1, <3>2, <3>3, <3>4
    <3> QED BY <3>2, <3>6, <3>7, <3>8, <3>9
  <2>2. CASE c = l + 1
    <3>1. c - 1 = l /\ l \in 0 .. l /\ loc2[c - 1] = y /\ loc2[c] = y + q + 1
      BY <1>1, <1>2, <1>4, <1>5, <1>11, <2>2
    <3>2. \A d \in 0 .. l + 1 : d < c => loc2[d] < loc2[c]
      <4> SUFFICES ASSUME NEW d \in 0 .. l + 1, d < c PROVE loc2[d] < loc2[c]
        OBVIOUS
      <4>1. d \in 0 .. l
        BY <1>5, <2>2
      <4>2. loc2[d] \in 0 .. y
        BY <1>11, <4>1
      <4> QED BY <1>5, <3>1, <4>2
    <3>3. core2[c] = t /\ b2[loc2[c]] = t
      BY <1>6, <1>8, <2>2, <3>1
    <3>4. CASE q = 1
      <4>1. loc2[c] = loc2[c - 1] + 2 /\ loc2[c] - 1 = y + 1
        BY <1>5, <3>1, <3>4
      <4>5. b2[y + 1].tag = "shared"
        BY <1>6, <3>4
      <4>6. Len(prefix) # 0
        BY <1>3, <3>4
      <4>2. b2[y + 1].tag = "shared" /\ t.tag = "array"
        BY <1>0, <4>5, <4>6
      <4>3. c \in shared2
        BY <1>13, <2>2, <3>4
      <4>4. t.tag # "shared"
        OBVIOUS
      <4> QED BY <3>2, <3>3, <4>1, <4>2, <4>3, <4>4
    <3>5. CASE q = 0
      <4>1. loc2[c] = loc2[c - 1] + 1 /\ q # 1
        BY <1>5, <3>1, <3>5
      <4>2. c \notin shared2
        BY <1>13, <2>2, <4>1
      <4>3. t.tag # "shared"
        OBVIOUS
      <4> QED BY <3>2, <3>3, <4>1, <4>2, <4>3
    <3>6. q = 0 \/ q = 1
      BY <1>5
    <3> QED BY <3>4, <3>5, <3>6
  <2>3. c \in 1 .. l \/ c = l + 1
    BY <1>5
  <2> QED BY <2>1, <2>2, <2>3
<1>15. Layout(b2, core2, shared2, loc2)
  <2>1. loc2[0] = 0 /\ 0 \in 0 .. l
    BY <1>1, <1>5, <1>11
  <2>2. PICK y2 : y2 = y + q + 1
    OBVIOUS
  <2>3. /\ core2 \in Seq(NodeToken) /\ Len(core2) = l + 1 /\ Len(b2) = y2 /\ loc2[l + 1] = y2
        /\ loc2 \in [0 .. l + 1 -> 0 .. y2]
    BY <1>6, <1>8, <1>11, <1>12, <2>2
  <2> QED BY <1>13, <1>14, <2>1, <2>3 DEF Layout
<1>16. prefix # <<>> <=> q = 1
  BY <1>0, <1>3, <1>5, EmptySeq
<1>17. More(core, shared, loc, core2, shared2, loc2, t, prefix # <<>>)
  <2>1. \A c \in 1 .. l : c \in 1 .. l + 1 /\ c \in 0 .. l
    BY <1>5
  <2> QED BY <1>2, <1>5, <1>8, <1>11, <1>13, <1>16, <2>1 DEF More
<1> QED BY <1>2, <1>3, <1>4, <1>11, <1>15, <1>17

Less(b2, core, shared, loc, c, loc2) ==
  /\ Layout(b2, core, shared \ {c}, loc2)
  /\ \A x \in 1 .. Len(core) : x < c => loc2[x] = loc[x]

(* The prefix of a shared array is taken away.                             *)
LEMMA LayoutLess ==
  ASSUME NEW X, NEW b \in Seq(X), NEW core, NEW shared, NEW loc, Layout(b, core, shared, loc),
         NEW c \in shared, NEW b2, b2 = Cut(b, loc[c] - 1)
  PROVE  \E loc2 : Less(b2, core, shared, loc, c, loc2)
<1>1. /\ core \in Seq(NodeToken) /\ shared \subseteq 1 .. Len(core)
      /\ loc \in [0 .. Len(core) -> 0 .. Len(b)]
      /\ loc[0] = 0 /\ loc[Len(core)] = Len(b)
      /\ \A x \in 1 .. Len(core) :
           /\ core[x].tag # "shared" /\ b[loc[x]] = core[x]
           /\ IF x \in shared
                THEN core[x].tag = "array" /\ loc[x] = loc[x - 1] + 2 /\ b[loc[x] - 1].tag = "shared"
                ELSE loc[x] = loc[x - 1] + 1
           /\ \A d \in 0 .. Len(core) : d < x => loc[d] < loc[x]
  BY DEF Layout
<1>2. PICK l : l = Len(core)
  OBVIOUS
<1>3. PICK y : y = Len(b)
  OBVIOUS
<1>4. PICK at : at = loc[c] - 1
  OBVIOUS
<1>5. /\ l \in Nat /\ y \in Nat /\ c \in 1 .. l /\ \A x \in 0 .. l : loc[x] \in 0 .. y
      /\ \A x \in 1 .. l : x - 1 \in 0 .. l /\ x \in 0 .. l
  <2>1. l \in Nat /\ y \in Nat /\ c \in 1 .. l
    BY <1>1, <1>2, <1>3, LenProperties
  <2>2. \A x \in 1 .. l : x - 1 \in 0 .. l /\ x \in 0 .. l
    BY <2>1
  <2>3. \A x \in 0 .. l : loc[x] \in 0 .. y
    BY <1>1, <1>2, <1>3
  <2> QED BY <2>1, <2>2, <2>3
<1>6. at \in Nat /\ at >= 1 /\ at <= y /\ loc[c] = at + 1 /\ loc[c - 1] = at - 1
  <2>1. loc[c] = loc[c - 1] + 2 /\ loc[c] \in 0 .. y /\ loc[c - 1] \in 0 .. y
    BY <1>1, <1>2, <1>5
  <2> QED BY <1>4, <1>5, <2>1
<1>7. HasTheOthers(b2, b, at)
  <2>1. at \in 1 .. Len(b) /\ b2 = Cut(b, at)
    BY <1>3, <1>4, <1>5, <1>6
  <2> QED BY <2>1, Removed
<1>8. /\ Len(b2) = y - 1 /\ DOMAIN b2 = 1 .. y - 1
      /\ \A i \in 1 .. y - 1 : b2[i] = IF i < at THEN b[i] ELSE b[i + 1]
  BY <1>3, <1>7 DEF HasTheOthers
<1>9. PICK loc2 : loc2 = [x \in 0 .. l |-> IF x < c THEN loc[x] ELSE loc[x] - 1]
  OBVIOUS
<1>10. \A x \in 0 .. l : loc2[x] = IF x < c THEN loc[x] ELSE loc[x] - 1
  BY <1>9
<1>11. ASSUME NEW x \in 0 .. l
       PROVE  IF x < c THEN loc[x] <= at - 1 ELSE loc[x] >= at + 1
  <2>1. CASE x < c
    <3>1. x = c - 1 \/ x < c - 1
      BY <1>5, <2>1
    <3>2. x < c - 1 => c - 1 \in 1 .. l /\ loc[x] < loc[c - 1]
      <4>1. x < c - 1 => c - 1 \in 1 .. l
        BY <1>5
      <4> QED BY <1>1, <1>2, <4>1
    <3>3. loc[x] \in 0 .. y
      BY <1>5
    <3> QED BY <1>6, <2>1, <3>1, <3>2, <3>3
  <2>2. CASE ~ (x < c)
    <3>1. x = c \/ (c < x /\ x \in 1 .. l)
      BY <1>5, <2>2
    <3>2. loc[x] \in 0 .. y
      BY <1>5
    <3>3. c < x /\ x \in 1 .. l => loc[c] < loc[x]
      BY <1>1, <1>2, <1>5
    <3> QED BY <1>6, <2>2, <3>1, <3>2, <3>3
  <2> QED BY <2>1, <2>2
<1>12. \A x \in 0 .. l : loc2[x] \in 0 .. y - 1
  <2> SUFFICES ASSUME NEW x \in 0 .. l PROVE loc2[x] \in 0 .. y - 1
    OBVIOUS
  <2>1. loc[x] \in 0 .. y /\ loc2[x] = IF x < c THEN loc[x] ELSE loc[x] - 1
    BY <1>5, <1>10
  <2> QED BY <1>5, <1>6, <1>11, <2>1
<1>13. loc2 \in [0 .. l -> 0 .. y - 1]
  BY <1>9, <1>10, <1>12
<1>14. ASSUME NEW x \in 1 .. l
       PROVE  /\ b2[loc2[x]] = core[x]
              /\ IF x \in shared \ {c}
                   THEN loc2[x] = loc2[x - 1] + 2 /\ b2[loc2[x] - 1].tag = "shared"
                   ELSE loc2[x] = loc2[x - 1] + 1
              /\ \A d \in 0 .. l : d < x => loc2[d] < loc2[x]
  <2>1. x \in 0 .. l /\ x - 1 \in 0 .. l /\ loc[x] \in 0 .. y /\ loc[x - 1] \in 0 .. y /\ x \in Int /\ c \in Int
    BY <1>5
  <2>2. /\ b[loc[x]] = core[x] /\ loc[x - 1] < loc[x]
        /\ x \in shared => loc[x] = loc[x - 1] + 2 /\ b[loc[x] - 1].tag = "shared"
        /\ x \notin shared => loc[x] = loc[x - 1] + 1
        /\ \A d \in 0 .. l : d < x => loc[d] < loc[x]
    <3>1. x - 1 < x
      BY <2>1
    <3> QED BY <1>1, <1>2, <2>1, <3>1
  <2>3. \A d \in 0 .. l : d < x => loc2[d] < loc2[x]
    <3> SUFFICES ASSUME NEW d \in 0 .. l, d < x PROVE loc2[d] < loc2[x]
      OBVIOUS
    <3>1. loc[d] < loc[x] /\ loc[d] \in 0 .. y
      BY <1>5, <2>2
    <3> QED BY <1>6, <1>10, <1>11, <2>1, <3>1
  <2>10. PICK a : a = loc[x]
    OBVIOUS
  <2>11. PICK z : z = loc[x - 1]
    OBVIOUS
  <2>12. PICK a2 : a2 = loc2[x]
    OBVIOUS
  <2>13. PICK z2 : z2 = loc2[x - 1]
    OBVIOUS
  <2>14. /\ a \in Int /\ z \in Int /\ 0 <= z /\ a <= y
         /\ b[a] = core[x] /\ (x \in shared => a = z + 2 /\ b[a - 1].tag = "shared")
         /\ (x \notin shared => a = z + 1)
    BY <1>5, <2>1, <2>2, <2>10, <2>11
  <2>4. CASE x < c
    <3>1. a2 = a /\ z2 = z /\ a <= at - 1
      BY <1>10, <1>11, <2>1, <2>4, <2>10, <2>11, <2>12, <2>13
    <3>2. a \in 1 .. y - 1 /\ a < at
      BY <1>5, <1>6, <2>14, <3>1
    <3>3. b2[a] = b[a]
      BY <1>8, <3>2
    <3>4. x \in shared => a - 1 \in 1 .. y - 1 /\ a - 1 < at
      BY <1>5, <1>6, <2>14, <3>2
    <3>5. x \in shared => b2[a - 1] = b[a - 1]
      BY <1>8, <3>4
    <3>6. x # c
      BY <1>5, <2>4
    <3> QED BY <2>3, <2>12, <2>13, <2>14, <3>1, <3>3, <3>5, <3>6
  <2>5. CASE x = c
    <3>1. a2 = at /\ z2 = at - 1 /\ at \in 1 .. y - 1
      BY <1>5, <1>6, <1>10, <2>1, <2>5, <2>10, <2>11, <2>12, <2>13, <2>14
    <3>2. b2[at] = b[at + 1] /\ a = at + 1
      BY <1>6, <1>8, <2>5, <2>10, <3>1
    <3> QED BY <1>6, <2>3, <2>5, <2>12, <2>13, <2>14, <3>1, <3>2
  <2>6. CASE x > c
    <3>1. a2 = a - 1 /\ z2 = z - 1 /\ z >= at + 1
      BY <1>10, <1>11, <2>1, <2>6, <2>10, <2>11, <2>12, <2>13
    <3>2. a2 \in 1 .. y - 1 /\ ~ (a2 < at) /\ a2 + 1 = a
      BY <1>5, <1>6, <2>14, <3>1
    <3>3. b2[a2] = b[a]
      BY <1>8, <3>2
    <3>4. x \in shared => a2 - 1 \in 1 .. y - 1 /\ ~ (a2 - 1 < at) /\ a2 - 1 + 1 = a - 1
      BY <1>5, <1>6, <2>14, <3>1
    <3>5. x \in shared => b2[a2 - 1] = b[a - 1]
      BY <1>8, <3>4
    <3>6. IF x \in shared THEN a2 = z2 + 2 ELSE a2 = z2 + 1
      BY <2>14, <3>1
    <3>7. x # c
      BY <2>1, <2>6
    <3> QED BY <2>3, <2>12, <2>13, <2>14, <3>3, <3>5, <3>6, <3>7
  <2> QED BY <2>1, <2>4, <2>5, <2>6
<1>15. loc2[0] = 0 /\ loc2[l] = y - 1
  BY <1>1, <1>2, <1>3, <1>5, <1>10
<1>16. ASSUME NEW x \in 1 .. l PROVE x \in shared \ {c} => core[x].tag = "array"
  BY <1>1, <1>2
<1>17. Layout(b2, core, shared \ {c}, loc2)
  BY <1>1, <1>2, <1>8, <1>13, <1>14, <1>15, <1>16 DEF Layout
<1>18. \A x \in 1 .. l : x < c => loc2[x] = loc[x]
  BY <1>5, <1>10
<1> QED BY <1>2, <1>17, <1>18 DEF Less

----------------------------------------------------------------------------
(* The id tables.                                                          *)
Claims(g, h, e, cl, cl2) ==
  \A x \in Nodes(graph) : cl2[x] >= 0 =>
    \/ cl2[x] = cl[x] /\ Registered(g, cl, x)
    \/ /\ h.ids = Append(g.ids, e) /\ cl2[x] = Len(g.ids)
       /\ h.made[e].from.node = x /\ HasKind(h.made[e].kind, x)

(* What has an id keeps it; one entity may get one.                        *)
LEMMA IdsAfter ==
  ASSUME NEW g \in RunState, NEW nu, ContentsOK(nu, g), NEW h \in RunState, Includes(g.made, h.made),
         NEW e, h.ids = g.ids \/ (h.ids = Append(g.ids, e) /\ e \in Nat),
         NEW cl, NEW cl2, Claims(g, h, e, cl, cl2), NEW ag2, ~ Hooked(ag2), NEW nx2, nx2 = Len(h.ids)
  PROVE  IdsOK(h, ag2, cl2, nx2)
<1>1. /\ g.ids \in Seq(Nat) /\ Len(g.ids) \in Nat /\ DOMAIN g.ids = 1 .. Len(g.ids)
      /\ \A i \in DOMAIN g.ids : g.ids[i] \in DOMAIN g.made
  BY RunFields, LenProperties DEF ContentsOK
<1>2. /\ \A i \in DOMAIN g.ids : i \in DOMAIN h.ids /\ h.ids[i] = g.ids[i]
      /\ h.ids = Append(g.ids, e) => Len(g.ids) + 1 \in DOMAIN h.ids /\ h.ids[Len(g.ids) + 1] = e
  <2>1. CASE h.ids = g.ids
    <3>1. h.ids # Append(g.ids, e) \/ e \in Nat
      <4>1. CASE e \in Nat
        BY <4>1
      <4>2. CASE h.ids = Append(g.ids, e)
        <5>1. Len(Append(g.ids, e)) = Len(g.ids) + 1
          BY <1>1
        <5> QED BY <1>1, <2>1, <4>2, <5>1
      <4> QED BY <4>1, <4>2
    <3>2. e \in Nat => h.ids # Append(g.ids, e)
      <4>1. e \in Nat => Len(Append(g.ids, e)) = Len(g.ids) + 1
        BY <1>1
      <4> QED BY <1>1, <2>1, <4>1
    <3> QED BY <2>1, <3>1, <3>2
  <2>2. CASE h.ids = Append(g.ids, e) /\ e \in Nat
    <3>1. /\ DOMAIN Append(g.ids, e) = 1 .. Len(g.ids) + 1 /\ Append(g.ids, e)[Len(g.ids) + 1] = e
          /\ \A i \in 1 .. Len(g.ids) : Append(g.ids, e)[i] = g.ids[i]
      BY <1>1, <2>2
    <3>2. Len(g.ids) + 1 \in 1 .. Len(g.ids) + 1 /\ 1 .. Len(g.ids) \subseteq 1 .. Len(g.ids) + 1
      BY <1>1
    <3> QED BY <1>1, <2>2, <3>1, <3>2
  <2> QED BY <2>1, <2>2
<1>3. ASSUME NEW x \in Nodes(graph), cl2[x] >= 0 PROVE Registered(h, cl2, x)
  <2>1. CASE cl2[x] = cl[x] /\ Registered(g, cl, x)
    <3>1. PICK i : i = cl[x] + 1
      OBVIOUS
    <3>2. /\ i \in DOMAIN g.ids /\ g.ids[i] \in DOMAIN g.made
          /\ g.made[g.ids[i]].from.node = x /\ HasKind(g.made[g.ids[i]].kind, x)
      BY <1>1, <2>1, <3>1 DEF Registered
    <3>3. i \in DOMAIN h.ids /\ h.ids[i] = g.ids[i] /\ cl2[x] + 1 = i
      BY <1>2, <2>1, <3>1, <3>2
    <3>4. h.made[h.ids[i]].from.node = x /\ HasKind(h.made[h.ids[i]].kind, x)
      BY <3>2, <3>3 DEF Includes
    <3> QED BY <3>3, <3>4 DEF Registered
  <2>2. CASE ~ (cl2[x] = cl[x] /\ Registered(g, cl, x))
    <3>1. /\ h.ids = Append(g.ids, e) /\ cl2[x] = Len(g.ids)
          /\ h.made[e].from.node = x /\ HasKind(h.made[e].kind, x)
      BY <1>3, <2>2 DEF Claims
    <3>2. cl2[x] + 1 = Len(g.ids) + 1 /\ h.ids[Len(g.ids) + 1] = e /\ Len(g.ids) + 1 \in DOMAIN h.ids
      BY <1>2, <3>1
    <3> QED BY <3>1, <3>2 DEF Registered
  <2> QED BY <2>1, <2>2
<1>4. Len(h.ids) \in Nat
  BY RunFields, LenProperties
<1> QED BY <1>3, <1>4 DEF IdsOK

----------------------------------------------------------------------------
(* Runs get longer.                                                        *)
Agrees(core, shared, core2, shared2, ended) ==
  /\ core \in Seq(NodeToken) /\ Len(core) <= Len(core2) /\ Len(core2) \in Nat
  /\ \A c \in 1 .. Len(core) : core2[c] = core[c] /\ (c \in shared2 => c \in shared)
  /\ \A c \in ended : c \in shared2 <=> c \in shared

(* A step of the run is a step when more was written.                      *)
LEMMA StepStays ==
  ASSUME NEW core, NEW shared, NEW core2, NEW shared2, NEW ended,
         Agrees(core, shared, core2, shared2, ended),
         NEW g \in RunState, NEW h \in RunState, RunStep(core, shared, g, h), h.ended \subseteq ended
  PROVE  RunStep(core2, shared2, g, h)
<1>1. Len(core) \in Nat /\ g.n \in Nat /\ Len(core2) \in Nat /\ Len(core) <= Len(core2)
  BY RunFields, LenProperties DEF Agrees
<1>2. Readable(core, g) =>
        /\ Readable(core2, g) /\ core2[g.n + 1] = core[g.n + 1]
        /\ g.n + 1 \in shared2 => g.n + 1 \in shared
  <2> SUFFICES ASSUME Readable(core, g)
               PROVE  /\ Readable(core2, g) /\ core2[g.n + 1] = core[g.n + 1]
                      /\ g.n + 1 \in shared2 => g.n + 1 \in shared
    OBVIOUS
  <2>1. g.n < Len(core)
    BY DEF Readable
  <2>2. g.n + 1 \in 1 .. Len(core) /\ g.n < Len(core2)
    BY <1>1, <2>1
  <2>3. core2[g.n + 1] = core[g.n + 1] /\ (g.n + 1 \in shared2 => g.n + 1 \in shared)
    BY <2>2 DEF Agrees
  <2> QED BY <2>2, <2>3 DEF Readable
<1>3. CASE KnownStep(core, g, h)
  <2>1. KnownStep(core2, g, h)
    BY <1>2, <1>3 DEF KnownStep
  <2> QED BY <2>1 DEF RunStep
<1>4. CASE NewStep(core, shared, g, h)
  <2>1. NewStep(core2, shared2, g, h)
    BY <1>2, <1>4 DEF NewStep
  <2> QED BY <2>1 DEF RunStep
<1>5. CASE CloseStep(shared, g, h)
  <2>1. g.todo[1].do = "end" => g.todo[1].at \in h.ended
    BY <1>5 DEF CloseStep, Closed
  <2>2. g.todo[1].do = "end" => (g.todo[1].at \in shared2 <=> g.todo[1].at \in shared)
    BY <2>1 DEF Agrees
  <2>3. CloseStep(shared2, g, h)
    BY <1>5, <2>2 DEF CloseStep
  <2> QED BY <2>3 DEF RunStep
<1> QED BY <1>3, <1>4, <1>5 DEF RunStep

(* The last state of a run.                                                *)
LEMMA RunEnds ==
  ASSUME NEW core, NEW shared, NEW R, Run(core, shared, R)
  PROVE  /\ Final(R) \in RunState /\ Final(R).n = Len(core) /\ Len(R) \in Nat /\ Len(R) >= 1
         /\ DOMAIN R = 1 .. Len(R) /\ \A i \in 1 .. Len(R) : R[i] \in RunState
<1>1. R \in Seq(RunState) /\ R # <<>> /\ Final(R).n = Len(core)
  BY DEF Run
<1>2. Len(R) \in Nat /\ Len(R) >= 1 /\ DOMAIN R = 1 .. Len(R) /\ \A i \in 1 .. Len(R) : R[i] \in RunState
  BY <1>1, EmptySeq, LenProperties
<1> QED BY <1>1, <1>2 DEF Final

(* One more step.                                                          *)
LEMMA RunMore ==
  ASSUME NEW core, NEW shared, NEW R, Run(core, shared, R), NEW g, g = Final(R),
         NEW core2, NEW shared2, Agrees(core, shared, core2, shared2, g.ended),
         NEW h \in RunState, RunStep(core2, shared2, g, h), h.n = Len(core2), Flat(h.made),
         g.ended \subseteq h.ended
  PROVE  \E R2 : Run(core2, shared2, R2) /\ Final(R2) = h
<1>1. /\ g \in RunState /\ g.n = Len(core) /\ Len(R) \in Nat /\ Len(R) >= 1
      /\ DOMAIN R = 1 .. Len(R) /\ \A i \in 1 .. Len(R) : R[i] \in RunState
  BY RunEnds
<1>2. /\ R \in Seq(RunState) /\ R[1] = RunStart
      /\ \A i \in 1 .. Len(R) - 1 : RunStep(core, shared, R[i], R[i + 1])
      /\ \A i \in 1 .. Len(R) :
           R[i].n \in 0 .. Len(core) /\ R[i].ended \subseteq g.ended /\ Flat(R[i].made)
  BY DEF Run
<1>3. PICK R2 : R2 = Append(R, h)
  OBVIOUS
<1>4. PICK l : l = Len(R)
  OBVIOUS
<1>5. /\ R2 \in Seq(RunState) /\ Len(R2) = l + 1 /\ R2[l + 1] = h /\ l \in Nat /\ l >= 1
      /\ \A i \in 1 .. l : R2[i] = R[i]
  BY <1>1, <1>2, <1>3, <1>4
<1>6. R2 # <<>> /\ R2[1] = RunStart /\ Final(R2) = h
  <2>1. 1 \in 1 .. l
    BY <1>5
  <2>2. R2 # <<>>
    BY <1>5, EmptySeq
  <2> QED BY <1>2, <1>5, <2>1, <2>2 DEF Final
<1>7. ASSUME NEW i \in 1 .. l PROVE RunStep(core2, shared2, R2[i], R2[i + 1])
  <2>1. CASE i = l
    BY <1>4, <1>5, <1>7, <2>1 DEF Final
  <2>2. CASE i # l
    <3>1. i \in 1 .. l - 1 /\ i + 1 \in 1 .. l
      BY <1>5, <1>7, <2>2
    <3>2. RunStep(core, shared, R[i], R[i + 1]) /\ R[i] \in RunState /\ R[i + 1] \in RunState
          /\ R[i + 1].ended \subseteq g.ended
      BY <1>1, <1>2, <1>4, <3>1
    <3>3. RunStep(core2, shared2, R[i], R[i + 1])
      BY <3>2, StepStays
    <3> QED BY <1>5, <3>1, <3>3
  <2> QED BY <2>1, <2>2
<1>8. Len(core) \in Nat /\ Len(core2) \in Nat /\ Len(core) <= Len(core2)
  BY LenProperties DEF Agrees
<1>9. ASSUME NEW i \in 1 .. l + 1
      PROVE  R2[i].n \in 0 .. Len(core2) /\ R2[i].ended \subseteq h.ended /\ Flat(R2[i].made)
  <2>1. CASE i = l + 1
    BY <1>5, <1>8, <2>1
  <2>2. CASE i # l + 1
    <3>1. i \in 1 .. l
      BY <1>5, <1>9, <2>2
    <3>2. R2[i] = R[i] /\ R[i].n \in 0 .. Len(core) /\ R[i].ended \subseteq g.ended /\ Flat(R[i].made)
      BY <1>2, <1>4, <1>5, <3>1
    <3>3. R[i].n \in 0 .. Len(core2)
      BY <1>8, <3>2
    <3> QED BY <3>2, <3>3
  <2> QED BY <2>1, <2>2
<1>10. Len(R2) - 1 = l /\ Len(R2) = l + 1
  BY <1>5
<1>11. Run(core2, shared2, R2)
  BY <1>5, <1>6, <1>7, <1>9, <1>10 DEF Run
<1> QED BY <1>6, <1>11

----------------------------------------------------------------------------
(* A token is written.                                                     *)
Traced(b, ag, cl, nx, rs, nu) ==
  \E core, shared, loc, R :
    /\ Layout(b, core, shared, loc) /\ Run(core, shared, R)
    /\ Matched(core, shared, loc, Final(R), ag, cl, nx, rs, nu)
Lies(core, shared, loc, c, t, marked, at) ==
  Len(core) = c /\ core[c] = t /\ (c \in shared <=> marked) /\ loc[c] = at

(* The run goes on.                                                        *)
LEMMA Extended ==
  ASSUME NEW b \in Seq(NodeToken), NEW core, NEW shared, NEW loc, NEW R,
         Layout(b, core, shared, loc), Run(core, shared, R), NEW g, g = Final(R),
         g.ended \subseteq 1 .. Len(core),
         NEW t \in NodeToken, t.tag # "shared", NEW prefix \in Seq(NodeToken), PrefixOf(prefix, t),
         NEW b2, Continues(b2, b, prefix, t),
         NEW h \in RunState, h.n = g.n + 1, h.ended = g.ended, Flat(h.made),
         \A core2, shared2, loc2 :
           Lies(core2, shared2, loc2, g.n + 1, t, prefix # <<>>, Len(b) + Len(prefix) + 1)
             => RunStep(core2, shared2, g, h)
  PROVE  \E core2, shared2, loc2, R2 :
           /\ Layout(b2, core2, shared2, loc2) /\ Run(core2, shared2, R2) /\ Final(R2) = h
           /\ Lies(core2, shared2, loc2, g.n + 1, t, prefix # <<>>, Len(b) + Len(prefix) + 1)
           /\ More(core, shared, loc, core2, shared2, loc2, t, prefix # <<>>)
<1>1. PICK core2, shared2, loc2 :
        /\ Layout(b2, core2, shared2, loc2) /\ loc2[Len(core) + 1] = Len(b) + Len(prefix) + 1
        /\ More(core, shared, loc, core2, shared2, loc2, t, prefix # <<>>)
  BY LayoutMore
<1>2. g.n = Len(core) /\ g \in RunState
  BY RunEnds
<1>3. /\ Len(core) \in Nat /\ Len(core2) = Len(core) + 1 /\ core2[Len(core) + 1] = t
      /\ \A c \in 1 .. Len(core) : c \in 1 .. Len(core2) /\ core2[c] = core[c] /\ loc2[c] = loc[c]
                                   /\ (c \in shared2 <=> c \in shared)
      /\ Len(core) + 1 \in shared2 <=> prefix # <<>>
  BY <1>1 DEF More
<1>4. Lies(core2, shared2, loc2, g.n + 1, t, prefix # <<>>, Len(b) + Len(prefix) + 1)
  BY <1>1, <1>2, <1>3 DEF Lies
<1>5. RunStep(core2, shared2, g, h)
  BY <1>4
<1>6. core \in Seq(NodeToken)
  BY DEF Layout
<1>7. Agrees(core, shared, core2, shared2, g.ended)
  <2>1. Len(core) <= Len(core2) /\ Len(core2) \in Nat
    BY <1>3
  <2>2. \A c \in 1 .. Len(core) : core2[c] = core[c] /\ (c \in shared2 => c \in shared)
    BY <1>3
  <2>3. \A c \in g.ended : c \in shared2 <=> c \in shared
    BY <1>3
  <2> QED BY <1>6, <2>1, <2>2, <2>3 DEF Agrees
<1>8. h.n = Len(core2) /\ g.ended \subseteq h.ended
  BY <1>2, <1>3
<1>9. PICK R2 : Run(core2, shared2, R2) /\ Final(R2) = h
  BY <1>5, <1>7, <1>8, RunMore
<1> QED BY <1>1, <1>4, <1>9

(* Tasks that are left, after a token.                                     *)
LEMMA TracksMore ==
  ASSUME NEW core, NEW shared, NEW loc, NEW g \in RunState, NEW ag, AllTrack(core, shared, loc, g, ag),
         SlotsOK(g), NEW core2, NEW shared2, NEW loc2, NEW t, NEW marked,
         More(core, shared, loc, core2, shared2, loc2, t, marked),
         NEW h, NEW d, NEW tasks, Took(g, h, d, tasks), NEW ag2, NEW s, Comes(ag2, s, ag),
         Len(s) = Len(tasks), \A i \in DOMAIN s : Tracks(core2, shared2, loc2, h, s[i], tasks[i])
  PROVE  AllTrack(core2, shared2, loc2, h, ag2) /\ Includes(g.made, h.made)
<1>1. Includes(g.made, h.made) /\ Comes(h.todo, tasks, g.todo) /\ h.ended = g.ended
  BY DEF Took, Grew, Includes
<1>2. ASSUME NEW j \in DOMAIN ag, j > 1 PROVE Tracks(core2, shared2, loc2, h, ag[j], g.todo[j])
  <2>1. Tracks(core, shared, loc, g, ag[j], g.todo[j])
    BY DEF AllTrack
  <2>2. j \in DOMAIN g.todo
    <3>1. Len(ag) = Len(g.todo)
      BY DEF AllTrack
    <3>2. DOMAIN ag = 1 .. Len(ag) /\ DOMAIN g.todo = 1 .. Len(g.todo)
      BY <1>1 DEF Comes
    <3> QED BY <1>2, <3>1, <3>2
  <2>3. InRange(g.made, g.todo[j])
    BY <2>2 DEF SlotsOK
  <2>4. ASSUME ag[j].do = "arrayDone"
        PROVE  Stays(shared, loc, g.ended, core2, shared2, loc2, h.ended, g.todo[j].at)
    <3>1. PICK c : c = g.todo[j].at
      OBVIOUS
    <3>2. c \in 1 .. Len(core)
      BY <2>1, <2>4, <3>1 DEF Tracks
    <3>3. c \in 1 .. Len(core2) /\ loc2[c] = loc[c] /\ (c \in shared2 <=> c \in shared)
      BY <3>2 DEF More
    <3> QED BY <1>1, <3>1, <3>3 DEF Stays
  <2> QED BY <1>1, <2>1, <2>3, <2>4, TrackStays
<1>3. AllTrack(core2, shared2, loc2, h, ag2)
  BY <1>1, <1>2, TracksPut
<1> QED BY <1>1, <1>3

(* What has to be known of a token and what it does to match.              *)
Advances(g, h, b, prefix, t) ==
  \A core2, shared2, loc2 :
    Lies(core2, shared2, loc2, g.n + 1, t, prefix # <<>>, Len(b) + Len(prefix) + 1)
      => RunStep(core2, shared2, g, h)
Pairs(g, h, s, tasks, b, prefix, t) ==
  /\ Len(s) = Len(tasks)
  /\ \A core2, shared2, loc2 :
       Lies(core2, shared2, loc2, g.n + 1, t, prefix # <<>>, Len(b) + Len(prefix) + 1)
         => \A i \in DOMAIN s : Tracks(core2, shared2, loc2, h, s[i], tasks[i])

(* A token is matched by a step of the run.                                *)
LEMMA Advanced ==
  ASSUME NEW b \in Seq(NodeToken), NEW core, NEW shared, NEW loc, NEW R,
         Layout(b, core, shared, loc), Run(core, shared, R), NEW g, g = Final(R),
         NEW ag, NEW cl, NEW nx, NEW rs, NEW nu,
         Matched(core, shared, loc, g, ag, cl, nx, rs, nu), WellFormed(graph),
         NEW t \in NodeToken, t.tag # "shared", NEW prefix \in Seq(NodeToken), PrefixOf(prefix, t),
         NEW b2, Continues(b2, b, prefix, t),
         NEW h \in RunState, NEW d, NEW tasks, Took(g, h, d, tasks),
         Advances(g, h, b, prefix, t),
         NEW nu2, nu \subseteq nu2, NulledOK(nu2), Fits(nu2, h.made, g.todo[1], d),
         \A e \in DOMAIN h.made : e \notin DOMAIN g.made => NewOK(h.made, e),
         h.ids = g.ids \/ (h.ids = Append(g.ids, d) /\ d \in DOMAIN h.made /\ d \in Nat),
         NEW ag2, NEW s, Comes(ag2, s, ag), ~ Hooked(ag2), Pairs(g, h, s, tasks, b, prefix, t),
         NEW cl2, Claims(g, h, d, cl, cl2), NEW nx2, nx2 = Len(h.ids), NEW rs2, rs2 = h.refs
  PROVE  Traced(b2, ag2, cl2, nx2, rs2, nu2)
<1>1. /\ ContentsOK(nu, g) /\ SlotsOK(g) /\ AllTrack(core, shared, loc, g, ag)
      /\ IdsOK(g, ag, cl, nx) /\ g.refs = rs /\ NulledOK(nu) /\ g.ended \subseteq 1 .. Len(core)
  BY DEF Matched
<1>2. g \in RunState /\ g.n = Len(core)
  BY RunEnds
<1>3. /\ Comes(h.todo, tasks, g.todo) /\ g.todo[1].do = "read" /\ h.ended = g.ended /\ h.n = g.n + 1
  BY DEF Took
<1>4. PICK p : p = g.todo[1].into
  OBVIOUS
<1>5. g.todo # <<>>
  <2>1. 1 \in DOMAIN g.todo
    BY <1>3 DEF Comes
  <2> QED BY <2>1
<1>6. p # 0 => /\ g.todo[1].slot = Len(g.made[p].kids) + 1
               /\ g.todo[1].slot <= g.made[p].from.arg
  BY <1>1, <1>2, <1>3, <1>4, <1>5, HeadSlot
<1>7. ContentsOK(nu2, h)
  BY <1>1, <1>2, <1>4, <1>6, ContentsPut
<1>8. Flat(h.made)
  BY <1>7, FlatHolds
<1>9. \A core2, shared2, loc2 :
        Lies(core2, shared2, loc2, g.n + 1, t, prefix # <<>>, Len(b) + Len(prefix) + 1)
          => RunStep(core2, shared2, g, h)
  BY DEF Advances
<1>10. PICK core2, shared2, loc2, R2 :
         /\ Layout(b2, core2, shared2, loc2) /\ Run(core2, shared2, R2) /\ Final(R2) = h
         /\ Lies(core2, shared2, loc2, g.n + 1, t, prefix # <<>>, Len(b) + Len(prefix) + 1)
         /\ More(core, shared, loc, core2, shared2, loc2, t, prefix # <<>>)
  BY <1>1, <1>3, <1>8, <1>9, Extended
<1>11. SlotsOK(h)
  BY <1>1, <1>2, SlotsPut
<1>12. AllTrack(core2, shared2, loc2, h, ag2) /\ Includes(g.made, h.made)
  <2>1. Len(s) = Len(tasks) /\ \A i \in DOMAIN s : Tracks(core2, shared2, loc2, h, s[i], tasks[i])
    BY <1>10 DEF Pairs
  <2> QED BY <1>1, <1>2, <1>10, <2>1, TracksMore, Zenon
<1>13. IdsOK(h, ag2, cl2, nx2)
  BY <1>1, <1>2, <1>12, IdsAfter
<1>14. h.ended \subseteq 1 .. Len(core2)
  <2>1. Len(core) \in Nat /\ Len(core2) = Len(core) + 1
    BY <1>10 DEF More
  <2> QED BY <1>1, <1>3, <2>1
<1>15. Matched(core2, shared2, loc2, h, ag2, cl2, nx2, rs2, nu2)
  BY <1>7, <1>11, <1>12, <1>13, <1>14 DEF Matched
<1> QED BY <1>10, <1>15 DEF Traced

(* What is expected fits.                                                  *)
LEMMA ExpectedFits ==
  ASSUME NEW nu, NEW m, NEW m2, Includes(m, m2), NEW k, k.into \in {0} \cup DOMAIN m,
         NEW v \in Nodes(graph) \cup {Scalar}, Expects(m, k, v), NEW d, Copies(nu, m2, v, d)
  PROVE  Fits(nu, m2, k, d)
<1>1. CASE k.into = 0
  BY <1>1 DEF Expects, Fits
<1>2. CASE k.into # 0
  <2>1. ~ HasBuilt(m, k.into) /\ MayStandFor(Kids(m[k.into].from.node)[k.slot], v)
    BY <1>2 DEF Expects
  <2>2. m2[k.into].kind = m[k.into].kind /\ m2[k.into].from = m[k.into].from
    BY <1>2 DEF Includes
  <2>3. ~ HasBuilt(m2, k.into) /\ MayStandFor(Kids(m2[k.into].from.node)[k.slot], v)
    BY <2>1, <2>2 DEF HasBuilt
  <2>4. Right(nu, m2, k.into, k.slot, d)
    BY <2>3 DEF Right
  <2> QED BY <1>2, <2>4 DEF Fits
<1> QED BY <1>1, <1>2

(* An array that is built fits.                                            *)
LEMMA BuiltFits ==
  ASSUME NEW nu, NEW m, NEW m2, Includes(m, m2), NEW k, k.into \in {0} \cup DOMAIN m,
         NEW n, ExpectsBuilt(m, k, n), NEW d \in DOMAIN m2, m2[d].kind = "array", m2[d].from.node = n
  PROVE  Fits(nu, m2, k, d)
<1>1. k.into # 0 /\ HasBuilt(m, k.into) /\ m[k.into].from.node = n
  BY DEF ExpectsBuilt
<1>2. m2[k.into].kind = m[k.into].kind /\ m2[k.into].from = m[k.into].from
  BY <1>1 DEF Includes
<1>3. HasBuilt(m2, k.into) /\ m2[k.into].from.node = n
  BY <1>1, <1>2 DEF HasBuilt
<1> QED BY <1>1, <1>3 DEF Fits, Right

(* A token for a value that is known: what it may be, and whose it is.     *)
Head1(ag, v) ==
  /\ ag # <<>> /\ v \in Nodes(graph) \cup {Scalar}
  /\ (ag[1].do = "value" /\ ag[1].v = v) \/ (ag[1].do = "hook" /\ ag[1].n = v)
Knows(t, v, a, cl, nu2) ==
  \/ t.tag = "scalar" /\ v = Scalar
  \/ t.tag = "null" /\ v \in nu2
  \/ t.tag = "ref" /\ a.do = "value" /\ v \in Nodes(graph) /\ cl[v] \in Nat /\ t.arg = cl[v]
GivesBack(a, cl, nx, cl2, nx2) ==
  /\ nx2 = IF a.do = "hook" THEN nx - 1 ELSE nx
  /\ \A x \in Nodes(graph) : cl2[x] >= 0 =>
       cl2[x] = cl[x] /\ ~ (a.do = "hook" /\ a.n = x /\ a.tracked)
Allowed(a, t) ==
  \/ a.depth < maxDepth
  \/ a.do = "value" /\ a.element /\ t.tag \in ScalarTags

(* Nodes are positive.                                                     *)
LEMMA NodesPositive ==
  ASSUME WellFormed(graph), NEW n \in Nodes(graph)
  PROVE  n \in Nat /\ IsNode(n) /\ n # Scalar /\ Kind(n) \in Kinds
<1>1. graph.kind \in Seq(Kinds) /\ n \in DOMAIN graph.kind
  BY DEF WellFormed, Nodes
<1> QED BY <1>1 DEF IsNode, Scalar, Kind

(* What the token stands for, in the run.                                  *)
LEMMA KnownValueFound ==
  ASSUME NEW g \in RunState, NEW nu, NEW ag, NEW cl, NEW nx, NEW nu2, NEW m2,
         ContentsOK(nu, g), IdsOK(g, ag, cl, nx), WellFormed(graph), NulledOK(nu2),
         Includes(g.made, m2),
         NEW v, Head1(ag, v), NEW t, Knows(t, v, ag[1], cl, nu2)
  PROVE  \E d \in {DScalar, DNull} \cup DOMAIN g.made :
           /\ StandsFor(g, t, d) /\ Copies(nu2, m2, v, d)
           /\ IsReference(g.made, d) <=> t.tag = "ref" /\ Kind(v) = "reference"
<1>1. CASE t.tag = "scalar" /\ v = Scalar
  <2>1. StandsFor(g, t, DScalar) /\ Copies(nu2, m2, v, DScalar)
    BY <1>1 DEF StandsFor, ScalarTags, Copies
  <2>2. ~ IsReference(g.made, DScalar)
    BY RunFields DEF IsReference, DScalar
  <2> QED BY <1>1, <2>1, <2>2
<1>2. CASE t.tag = "null" /\ v \in nu2
  <2>1. v \in Nodes(graph)
    BY <1>2 DEF NulledOK
  <2>2. IsNode(v)
    BY <2>1, NodesPositive
  <2>3. StandsFor(g, t, DNull) /\ Copies(nu2, m2, v, DNull)
    BY <1>2, <2>2 DEF StandsFor, ScalarTags, Copies
  <2>4. ~ IsReference(g.made, DNull)
    BY RunFields DEF IsReference, DNull
  <2> QED BY <1>2, <2>3, <2>4
<1>3. CASE t.tag = "ref" /\ ag[1].do = "value" /\ v \in Nodes(graph) /\ cl[v] \in Nat /\ t.arg = cl[v]
  <2>1. ~ Hooked(ag)
    BY <1>3 DEF Hooked
  <2>2. Registered(g, cl, v)
    BY <1>3, <2>1 DEF IdsOK
  <2>3. PICK d : d = g.ids[cl[v] + 1]
    OBVIOUS
  <2>4. cl[v] + 1 \in DOMAIN g.ids /\ g.made[d].from.node = v /\ HasKind(g.made[d].kind, v)
    BY <2>2, <2>3 DEF Registered
  <2>5. d \in DOMAIN g.made
    BY <2>3, <2>4 DEF ContentsOK
  <2>6. t.arg < Len(g.ids) /\ d = g.ids[t.arg + 1]
    <3>1. g.ids \in Seq(Nat)
      BY RunFields
    <3>2. PICK c : c = cl[v]
      OBVIOUS
    <3>3. c + 1 \in 1 .. Len(g.ids) /\ t.arg = c
      BY <1>3, <2>4, <3>1, <3>2
    <3>4. Len(g.ids) \in Nat
      BY <3>1
    <3>5. c \in Nat
      BY <1>3, <3>2
    <3>6. c < Len(g.ids)
      BY <3>3, <3>4, <3>5
    <3> QED BY <2>3, <3>2, <3>3, <3>6
  <2>7. IsNode(v)
    BY <1>3, NodesPositive
  <2>8. StandsFor(g, t, d)
    BY <1>3, <2>6 DEF StandsFor
  <2>9. Copies(nu2, m2, v, d)
    BY <2>4, <2>5, <2>7 DEF Copies, Includes
  <2>10. IsReference(g.made, d) <=> Kind(v) = "reference"
    BY <2>4, <2>5 DEF IsReference, HasKind, ArrayKinds, ObjectKinds
  <2> QED BY <1>3, <2>5, <2>8, <2>9, <2>10
<1> QED BY <1>1, <1>2, <1>3 DEF Knows

(* The value is read where the encoder's task stands.                      *)
LEMMA HeadReads ==
  ASSUME NEW core, NEW shared, NEW loc, NEW g \in RunState, NEW ag, AllTrack(core, shared, loc, g, ag),
         SlotsOK(g), NEW u, NEW s, Comes(u, s, ag),
         ag[1].do \in {"value", "hook", "built"}
  PROVE  /\ g.todo # <<>> /\ g.todo[1].do = "read" /\ g.todo[1].depth = ag[1].depth
         /\ g.todo[1].into \in {0} \cup DOMAIN g.made
         /\ Tracks(core, shared, loc, g, ag[1], g.todo[1])
         /\ Len(ag) = Len(g.todo) /\ g.todo \in Seq(RunTask)
<1>1. Tracks(core, shared, loc, g, ag[1], g.todo[1]) /\ Len(ag) = Len(g.todo)
  BY DEF AllTrack, Comes
<1>2. g.todo \in Seq(RunTask)
  BY RunFields
<1>3. g.todo # <<>>
  <2>1. Len(ag) >= 1 /\ Len(ag) \in Nat
    BY DEF Comes
  <2> QED BY <1>1, <1>2, <2>1, EmptySeq
<1>4. g.todo[1].do = "read" /\ g.todo[1].depth = ag[1].depth
  BY <1>1 DEF Tracks
<1>5. g.todo[1].into \in {0} \cup DOMAIN g.made
  BY <1>3, <1>4, HeadSlot
<1> QED BY <1>1, <1>2, <1>3, <1>4, <1>5

(* A token for a value that is known is matched.                           *)
LEMMA KnownAdvance ==
  ASSUME NEW b \in Seq(NodeToken), NEW ag, NEW cl, NEW nx \in Nat, NEW rs, NEW nu,
         Traced(b, ag, cl, nx, rs, nu), WellFormed(graph), maxDepth \in Nat,
         NEW nu2, nu \subseteq nu2, NulledOK(nu2), NEW v, Head1(ag, v),
         NEW t \in NodeToken, Knows(t, v, ag[1], cl, nu2), Allowed(ag[1], t),
         NEW ag2, Comes(ag2, <<>>, ag), ~ Hooked(ag2), NEW cl2, NEW nx2, GivesBack(ag[1], cl, nx, cl2, nx2),
         NEW rs2, rs2 = rs + (IF t.tag = "ref" /\ Kind(v) = "reference" THEN 1 ELSE 0),
         NEW b2, Continues(b2, b, <<>>, t)
  PROVE  Traced(b2, ag2, cl2, nx2, rs2, nu2)
<1>1. PICK core, shared, loc, R :
        /\ Layout(b, core, shared, loc) /\ Run(core, shared, R)
        /\ Matched(core, shared, loc, Final(R), ag, cl, nx, rs, nu)
  BY DEF Traced
<1>2. PICK g : g = Final(R)
  OBVIOUS
<1>3. /\ ContentsOK(nu, g) /\ SlotsOK(g) /\ AllTrack(core, shared, loc, g, ag)
      /\ IdsOK(g, ag, cl, nx) /\ g.refs = rs
  BY <1>1, <1>2 DEF Matched
<1>4. g \in RunState
  BY <1>1, <1>2, RunEnds
<1>5. /\ ag # <<>> /\ ag[1].do \in {"value", "hook"} /\ v \in Nodes(graph) \cup {Scalar}
      /\ (ag[1].do = "value" /\ ag[1].v = v) \/ (ag[1].do = "hook" /\ ag[1].n = v)
  BY DEF Head1
<1>7. /\ g.todo # <<>> /\ g.todo[1].do = "read" /\ g.todo[1].depth = ag[1].depth
      /\ g.todo[1].into \in {0} \cup DOMAIN g.made
      /\ Tracks(core, shared, loc, g, ag[1], g.todo[1])
  BY <1>3, <1>4, <1>5, HeadReads
<1>8. Includes(g.made, g.made)
  BY DEF Includes
<1>9. PICK d \in {DScalar, DNull} \cup DOMAIN g.made :
        /\ StandsFor(g, t, d) /\ Copies(nu2, g.made, v, d)
        /\ IsReference(g.made, d) <=> t.tag = "ref" /\ Kind(v) = "reference"
  BY <1>3, <1>4, <1>8, KnownValueFound
<1>10. PICK h : h = KnownFed(g, d)
  OBVIOUS
<1>11. /\ h \in RunState /\ Took(g, h, d, <<>>) /\ h.ids = g.ids
       /\ h.refs = g.refs + (IF IsReference(g.made, d) THEN 1 ELSE 0)
  BY <1>4, <1>7, <1>10, KnownTook
<1>12. h.refs = rs2
  BY <1>3, <1>9, <1>11
<1>13. Grew(g.made, h.made, g.todo[1].into, d) /\ DOMAIN h.made = DOMAIN g.made
  <2>1. Grew(g.made, h.made, g.todo[1].into, d)
        /\ ((<<>> = <<>> /\ DOMAIN h.made = DOMAIN g.made) \/ Opens(g, h, d, <<>>))
    BY <1>11 DEF Took
  <2>2. PICK l : l = Len(g.made)
    OBVIOUS
  <2>3. l \in Nat
    BY <1>4, <2>2, RunFields
  <2>4. ~ Opens(g, h, d, <<>>)
    <3>1. ASSUME d = l + 1, d \notin DOMAIN g.made PROVE FALSE
      BY <2>3, <3>1 DEF DScalar, DNull
    <3> QED BY <2>2, <3>1 DEF Opens
  <2> QED BY <2>1, <2>4
<1>14. Includes(g.made, h.made)
  BY <1>13 DEF Grew, Includes
<1>15. Fits(nu2, h.made, g.todo[1], d)
  <2>1. Copies(nu2, h.made, v, d)
    BY <1>9, <1>14 DEF Copies, Includes
  <2>2. Expects(g.made, g.todo[1], v)
    BY <1>5, <1>7 DEF Tracks
  <2> QED BY <1>5, <1>7, <1>14, <2>1, <2>2, ExpectedFits
<1>16. Advances(g, h, b, <<>>, t)
  <2>1. ASSUME NEW core2, NEW shared2, NEW loc2,
               Lies(core2, shared2, loc2, g.n + 1, t, <<>> # <<>>, Len(b) + Len(<<>>) + 1)
        PROVE  RunStep(core2, shared2, g, h)
    <3>1. Len(core2) = g.n + 1 /\ core2[g.n + 1] = t
      BY <2>1 DEF Lies
    <3>2. g.n < Len(core2)
      BY <1>4, <3>1, RunFields
    <3>3. g.todo[1].depth < maxDepth \/ (g.todo[1].hot /\ t.tag \in ScalarTags)
      BY <1>7 DEF Allowed, Tracks
    <3>4. Readable(core2, g)
      BY <1>7, <3>1, <3>2, <3>3 DEF Readable
    <3>5. KnownStep(core2, g, h)
      BY <1>9, <1>10, <3>1, <3>4 DEF KnownStep
    <3> QED BY <3>5 DEF RunStep
  <2> QED BY <2>1 DEF Advances
<1>17. Pairs(g, h, <<>>, <<>>, b, <<>>, t)
  BY DEF Pairs
<1>18. Claims(g, h, d, cl, cl2)
  <2> SUFFICES ASSUME NEW x \in Nodes(graph), cl2[x] >= 0
               PROVE  cl2[x] = cl[x] /\ Registered(g, cl, x)
    BY DEF Claims
  <2>1. cl2[x] = cl[x] /\ ~ (ag[1].do = "hook" /\ ag[1].n = x /\ ag[1].tracked)
    BY DEF GivesBack
  <2>2. ~ (Hooked(ag) /\ ag[1].n = x /\ ag[1].tracked) /\ cl[x] >= 0
    BY <2>1 DEF Hooked
  <2> QED BY <1>3, <2>1, <2>2 DEF IdsOK
<1>19. nx2 = Len(h.ids)
  <2>1. PICK l : l = Len(g.ids)
    OBVIOUS
  <2>2. l \in Nat /\ g.ids \in Seq(Nat)
    BY <1>4, <2>1, RunFields
  <2>3. nx = l + (IF ag[1].do = "hook" THEN 1 ELSE 0)
    BY <1>3, <1>5, <2>1 DEF IdsOK, Hooked
  <2>4. nx2 = IF ag[1].do = "hook" THEN nx - 1 ELSE nx
    BY DEF GivesBack
  <2>5. Len(h.ids) = l
    BY <1>11, <2>1
  <2>6. CASE ag[1].do = "hook"
    BY <2>2, <2>3, <2>4, <2>5, <2>6
  <2>7. CASE ag[1].do # "hook"
    BY <2>2, <2>3, <2>4, <2>5, <2>7
  <2> QED BY <2>6, <2>7
<1>20. t.tag # "shared"
  BY DEF Knows
<1>21. PrefixOf(<<>>, t) /\ <<>> \in Seq(NodeToken)
  BY DEF PrefixOf
<1>22. Matched(core, shared, loc, g, ag, cl, nx, rs, nu) /\ Layout(b, core, shared, loc) /\ Run(core, shared, R)
  BY <1>1, <1>2
<1>23. \A e \in DOMAIN h.made : e \notin DOMAIN g.made => NewOK(h.made, e)
  BY <1>13
<1> QED BY <1>2, <1>11, <1>12, <1>15, <1>16, <1>17, <1>18, <1>19, <1>20, <1>21, <1>22, <1>23, Advanced

----------------------------------------------------------------------------
(* A token that makes an entity.                                           *)
IsBuilt(t) == Kind(t.node) = "factory" /\ MadeKind(t.tag) = "object"
TokenFits(t) ==
  /\ t \in NodeToken /\ t.tag \in EntityTags /\ t.node \in Nodes(graph)
  /\ KindFits(MadeKind(t.tag), t.node)
  /\ t.arg = IF IsBuilt(t) THEN 1 ELSE Len(Kids(t.node))
  /\ t.tag = "magic" => Kind(t.node) \in {"magic", "factory"}

(* The encoder's tasks for its contents, and for the end.                  *)
Filled(s, t, depth) ==
  \A i \in 1 .. t.arg :
    /\ s[i].depth = depth
    /\ IF IsBuilt(t)
         THEN s[i].do = "built" /\ s[i].n = t.node
         ELSE /\ s[i].do = "value" /\ MayStandFor(Kids(t.node)[i], s[i].v)
              /\ s[i].element => t.tag \notin {"new_ref", "magic"}
EndsWith(z, t, marked, at, rs) ==
  \/ /\ t.tag = "array" /\ z.do = "arrayDone" /\ z.n = t.node /\ z.refs = rs
     /\ (z.claimed <=> marked) /\ (marked => z.at = at)
  \/ t.tag \in ObjectTags /\ z.do = "release" /\ ~ marked
Ended(s, t, marked, at, rs) ==
  \/ Len(s) = t.arg /\ ~ marked /\ t.tag # "magic"
  \/ Len(s) = t.arg + 1 /\ EndsWith(s[t.arg + 1], t, marked, at, rs)

(* The decoder's task at the end.                                          *)
EnderFor(ender, g, t, s) ==
  /\ ender \in Enders(t.tag, g.n + 1, Len(g.made) + 1, g.refs)
  /\ Len(s) = t.arg => ender = <<>>
  /\ Len(s) = t.arg + 1 =>
       /\ t.tag = "array" => ender = <<EndTask(g.n + 1, Len(g.made) + 1, g.refs)>>
       /\ t.tag = "magic" => ender = <<MagicTask(Len(g.made) + 1)>>
       /\ t.tag \in ObjectTags \ {"magic"} => ender = <<NothingTask>>

(* There is one.                                                           *)
LEMMA EnderFound ==
  ASSUME NEW g, NEW t, TokenFits(t), NEW s, NEW marked, NEW at, NEW rs, Ended(s, t, marked, at, rs)
  PROVE  \E ender : EnderFor(ender, g, t, s) /\ (marked => ender # <<>>)
<1>1. t.tag \in EntityTags /\ t.arg \in Nat
  BY DEF TokenFits, NodeToken
<1>2. CASE Len(s) = t.arg /\ ~ marked /\ t.tag # "magic"
  <2>1. <<>> \in Enders(t.tag, g.n + 1, Len(g.made) + 1, g.refs)
    BY <1>1, <1>2 DEF Enders
  <2>2. ~ (Len(s) = t.arg + 1)
    BY <1>1, <1>2
  <2> QED BY <1>2, <2>1, <2>2 DEF EnderFor
<1>3. CASE Len(s) = t.arg + 1 /\ EndsWith(s[t.arg + 1], t, marked, at, rs)
  <2>1. ~ (Len(s) = t.arg)
    BY <1>1, <1>3
  <2>2. CASE t.tag = "array"
    <3>1. PICK w : w = EndTask(g.n + 1, Len(g.made) + 1, g.refs)
      OBVIOUS
    <3>2. <<w>> \in Enders(t.tag, g.n + 1, Len(g.made) + 1, g.refs)
      BY <2>2, <3>1 DEF Enders
    <3>3. <<w>> # <<>>
      OBVIOUS
    <3> QED BY <1>3, <2>1, <2>2, <3>1, <3>2, <3>3 DEF EnderFor, ObjectTags
  <2>3. CASE t.tag = "magic"
    <3>1. PICK w : w = MagicTask(Len(g.made) + 1)
      OBVIOUS
    <3>2. <<w>> \in Enders(t.tag, g.n + 1, Len(g.made) + 1, g.refs)
      BY <2>3, <3>1 DEF Enders
    <3>3. <<w>> # <<>>
      OBVIOUS
    <3> QED BY <1>3, <2>1, <2>3, <3>1, <3>2, <3>3 DEF EnderFor, ObjectTags
  <2>4. CASE t.tag \in {"object", "leaf"}
    <3>1. PICK w : w = NothingTask
      OBVIOUS
    <3>2. <<w>> \in Enders(t.tag, g.n + 1, Len(g.made) + 1, g.refs)
      BY <2>4, <3>1 DEF Enders
    <3>3. <<w>> # <<>>
      OBVIOUS
    <3> QED BY <1>3, <2>1, <2>4, <3>1, <3>2, <3>3 DEF EnderFor, ObjectTags
  <2>5. t.tag # "new_ref"
    BY <1>3 DEF EndsWith, ObjectTags
  <2> QED BY <1>1, <2>2, <2>3, <2>4, <2>5 DEF EntityTags, ObjectTags
<1> QED BY <1>2, <1>3 DEF Ended

(* The tasks of both sides are pairs.                                      *)
LEMMA NewPairs ==
  ASSUME NEW g \in RunState, g.todo # <<>>, g.todo[1].do = "read", NEW t, TokenFits(t),
         NEW prefix, NEW b \in Seq(NodeToken), NEW at, at = Len(b) + 1,
         PrefixOf(prefix, t), NEW marked, marked <=> prefix # <<>>, Len(prefix) \in Nat,
         marked => Len(prefix) = 1,
         NEW s, Ended(s, t, marked, at, g.refs), Filled(s, t, g.todo[1].depth + 1),
         NEW ender, EnderFor(ender, g, t, s), NEW tasks, Opening(g, t, ender, tasks),
         NEW e, e = Len(g.made) + 1,
         NEW h, e \in DOMAIN h.made, h.made[e].from = t, h.made[e].kind = MadeKind(t.tag),
         h.ended = g.ended, g.ended \subseteq 1 .. g.n, DOMAIN s = 1 .. Len(s)
  PROVE  Pairs(g, h, s, tasks, b, prefix, t)
<1>1. /\ t.tag \in EntityTags /\ t.arg \in Nat /\ t.node \in Nodes(graph)
      /\ t.tag = "magic" => Kind(t.node) \in {"magic", "factory"}
  BY DEF TokenFits, NodeToken
<1>2. PICK c : c = t.arg
  OBVIOUS
<1>3. /\ c \in Nat /\ Len(tasks) \in Nat
      /\ \A i \in 1 .. c :
           /\ IsRead(tasks[i], e, i)
           /\ tasks[i].depth = g.todo[1].depth + 1 /\ tasks[i].hot = (t.tag \notin {"new_ref", "magic"})
      /\ \/ ender = <<>> /\ Len(tasks) = c
         \/ /\ Len(tasks) = c + 1 /\ ender = <<tasks[c + 1]>> /\ tasks[c + 1].do # "read"
  BY <1>1, <1>2 DEF Opening
<1>4. /\ g.n + 1 \in Nat /\ g.n + 1 \notin g.ended /\ e # 0 /\ e \in Nat
  <2>1. PICK n : n = g.n
    OBVIOUS
  <2>2. n \in Nat /\ Len(g.made) \in Nat
    BY <2>1, RunFields
  <2>3. n + 1 \notin 1 .. n /\ n + 1 \in Nat
    BY <2>2
  <2> QED BY <2>1, <2>2, <2>3
<1>5. Len(s) = c \/ (Len(s) = c + 1 /\ EndsWith(s[c + 1], t, marked, at, g.refs))
  BY <1>2 DEF Ended
<1>6. Len(s) = Len(tasks)
  <2>1. CASE Len(s) = c
    <3>1. ender = <<>>
      BY <1>2, <2>1 DEF EnderFor
    <3>2. <<tasks[c + 1]>> # <<>>
      OBVIOUS
    <3> QED BY <1>3, <2>1, <3>1, <3>2
  <2>2. CASE Len(s) = c + 1
    <3>1. ender # <<>>
      <4>1. CASE t.tag = "new_ref"
        <5>1. ~ EndsWith(s[c + 1], t, marked, at, g.refs)
          BY <4>1 DEF EndsWith, ObjectTags
        <5> QED BY <1>3, <1>5, <2>2, <5>1
      <4>2. CASE t.tag # "new_ref"
        <5>1. \E w : ender = <<w>>
          BY <1>1, <1>2, <2>2, <4>2 DEF EnderFor, EntityTags, ObjectTags
        <5> QED BY <5>1
      <4> QED BY <4>1, <4>2
    <3> QED BY <1>3, <2>2, <3>1
  <2> QED BY <1>5, <2>1, <2>2
<1> SUFFICES ASSUME NEW core2, NEW shared2, NEW loc2,
                    Lies(core2, shared2, loc2, g.n + 1, t, prefix # <<>>, Len(b) + Len(prefix) + 1),
                    NEW i \in DOMAIN s
             PROVE  Tracks(core2, shared2, loc2, h, s[i], tasks[i])
  BY <1>6 DEF Pairs
<1>7. CASE i \in 1 .. c
  <2>1. /\ tasks[i].do = "read" /\ tasks[i].into = e /\ tasks[i].slot = i
        /\ tasks[i].depth = g.todo[1].depth + 1 /\ tasks[i].hot = (t.tag \notin {"new_ref", "magic"})
    BY <1>3, <1>7 DEF IsRead
  <2>2. /\ s[i].depth = g.todo[1].depth + 1
        /\ IF IsBuilt(t)
             THEN s[i].do = "built" /\ s[i].n = t.node
             ELSE /\ s[i].do = "value" /\ MayStandFor(Kids(t.node)[i], s[i].v)
                  /\ s[i].element => t.tag \notin {"new_ref", "magic"}
    BY <1>2, <1>7 DEF Filled
  <2>3. HasBuilt(h.made, e) <=> IsBuilt(t)
    BY DEF HasBuilt, IsBuilt
  <2>4. CASE IsBuilt(t)
    <3>1. ExpectsBuilt(h.made, tasks[i], s[i].n)
      BY <1>4, <2>1, <2>2, <2>3, <2>4 DEF ExpectsBuilt
    <3> QED BY <2>1, <2>2, <2>4, <3>1 DEF Tracks
  <2>5. CASE ~ IsBuilt(t)
    <3>1. Expects(h.made, tasks[i], s[i].v)
      BY <1>4, <2>1, <2>2, <2>3, <2>5 DEF Expects
    <3> QED BY <2>1, <2>2, <2>5, <3>1 DEF Tracks
  <2> QED BY <2>4, <2>5
<1>8. CASE i = c + 1
  <2>1. Len(s) = c + 1 /\ EndsWith(s[i], t, marked, at, g.refs)
    <3>1. PICK q : q = Len(s)
      OBVIOUS
    <3>2. i \in 1 .. q
      BY <3>1
    <3>3. q # c
      BY <1>3, <1>8, <3>2
    <3> QED BY <1>5, <1>8, <3>1, <3>3
  <2>2. Len(tasks) = c + 1 /\ ender = <<tasks[i]>>
    BY <1>3, <1>6, <1>8, <2>1
  <2>3. CASE t.tag = "array"
    <3>1. tasks[i] = EndTask(g.n + 1, e, g.refs)
      BY <1>2, <2>1, <2>2, <2>3 DEF EnderFor
    <3>2. /\ tasks[i].do = "end" /\ tasks[i].at = g.n + 1 /\ tasks[i].entity = e
          /\ tasks[i].refs = g.refs
      BY <3>1 DEF EndTask
    <3>3. /\ s[i].do = "arrayDone" /\ s[i].n = t.node /\ s[i].refs = g.refs
          /\ (s[i].claimed <=> marked) /\ (marked => s[i].at = at)
      BY <2>1, <2>3 DEF EndsWith, ObjectTags
    <3>4. /\ Len(core2) = g.n + 1 /\ (g.n + 1 \in shared2 <=> marked)
          /\ loc2[g.n + 1] = Len(b) + Len(prefix) + 1
      BY DEF Lies
    <3>5. g.n + 1 \in 1 .. Len(core2)
      BY <1>4, <3>4, RunFields
    <3>6. marked => at = loc2[g.n + 1] - 1
      BY <3>4
    <3>7. h.made[e].kind = "array" /\ h.made[e].from.node = s[i].n
      BY <2>3, <3>3 DEF MadeKind
    <3> QED BY <1>4, <3>2, <3>3, <3>4, <3>5, <3>6, <3>7 DEF Tracks
  <2>4. CASE t.tag # "array"
    <3>1. s[i].do = "release" /\ t.tag \in ObjectTags
      BY <2>1, <2>4 DEF EndsWith
    <3>2. CASE t.tag = "magic"
      <4>1. tasks[i] = MagicTask(e)
        BY <1>2, <2>1, <2>2, <3>2 DEF EnderFor
      <4>2. h.made[e].kind = "object" /\ Kind(h.made[e].from.node) \in {"magic", "factory"}
        BY <1>1, <3>2 DEF MadeKind
      <4> QED BY <3>1, <4>1, <4>2 DEF Tracks, MagicTask
    <3>3. CASE t.tag # "magic"
      <4>1. tasks[i] = NothingTask
        BY <1>2, <2>1, <2>2, <3>1, <3>3 DEF EnderFor
      <4> QED BY <3>1, <4>1 DEF Tracks, NothingTask
    <3> QED BY <3>2, <3>3
  <2> QED BY <2>3, <2>4
<1>9. i \in 1 .. c \/ i = c + 1
  <2>1. PICK q : q = Len(s)
    OBVIOUS
  <2>2. i \in 1 .. q /\ (q = c \/ q = c + 1)
    BY <1>5, <2>1
  <2> QED BY <1>3, <2>2
<1> QED BY <1>7, <1>8, <1>9

(* Ids are taken where the token makes an object or a reference.           *)
TakesId(a, t, cl, nx, cl2, nx2) ==
  \/ /\ t.tag = "array" /\ a.do # "hook" /\ nx2 = nx
     /\ \A x \in Nodes(graph) : cl2[x] >= 0 => cl2[x] = cl[x]
  \/ /\ t.tag # "array" /\ a.do = "value" /\ nx2 = nx + 1
     /\ \A x \in Nodes(graph) : cl2[x] >= 0 => cl2[x] = cl[x] \/ (x = t.node /\ cl2[x] = nx)
  \/ t.tag # "array" /\ a.do = "hook" /\ a.n = t.node /\ nx2 = nx /\ cl2 = cl
MadeFrom(g, h, e, t) ==
  /\ h.ids = IF t.tag = "array" THEN g.ids ELSE Append(g.ids, e)
  /\ h.made[e].from = t /\ h.made[e].kind = MadeKind(t.tag)

IdsFollow(g, h, e, cl, cl2, nx2) == Claims(g, h, e, cl, cl2) /\ nx2 = Len(h.ids)

(* The id table after it.                                                  *)
LEMMA NewClaims ==
  ASSUME NEW g \in RunState, NEW ag, NEW cl, NEW nx, IdsOK(g, ag, cl, nx), ag # <<>>,
         NEW t, TokenFits(t), NEW cl2, NEW nx2, TakesId(ag[1], t, cl, nx, cl2, nx2),
         NEW h, NEW e \in Nat, MadeFrom(g, h, e, t)
  PROVE  IdsFollow(g, h, e, cl, cl2, nx2)
<1>0. /\ h.ids = IF t.tag = "array" THEN g.ids ELSE Append(g.ids, e)
      /\ h.made[e].from = t /\ h.made[e].kind = MadeKind(t.tag)
  BY DEF MadeFrom
<1>1. PICK l : l = Len(g.ids)
  OBVIOUS
<1>2. g.ids \in Seq(Nat) /\ l \in Nat
  BY <1>1, RunFields
<1>3. Len(h.ids) = IF t.tag = "array" THEN l ELSE l + 1
  <2>1. Len(Append(g.ids, e)) = l + 1
    BY <1>1, <1>2
  <2> QED BY <1>0, <1>1, <2>1
<1>4. /\ nx = l + (IF Hooked(ag) THEN 1 ELSE 0)
      /\ \A x \in Nodes(graph) : cl[x] >= 0 =>
           IF Hooked(ag) /\ ag[1].n = x /\ ag[1].tracked THEN cl[x] = l ELSE Registered(g, cl, x)
  BY <1>1 DEF IdsOK
<1>5. Hooked(ag) <=> ag[1].do = "hook"
  BY DEF Hooked
<1>6. t.tag # "array" => HasKind(h.made[e].kind, t.node)
  BY <1>0 DEF TokenFits, KindFits, HasKind, MadeKind
<1>7. CASE t.tag = "array"
  <2>1. /\ ag[1].do # "hook" /\ nx2 = nx
        /\ \A x \in Nodes(graph) : cl2[x] >= 0 => cl2[x] = cl[x]
    BY <1>7 DEF TakesId
  <2>2. nx2 = Len(h.ids)
    BY <1>2, <1>3, <1>4, <1>5, <1>7, <2>1
  <2>3. Claims(g, h, e, cl, cl2)
    BY <1>4, <1>5, <2>1 DEF Claims
  <2> QED BY <2>2, <2>3 DEF IdsFollow
<1>8. CASE t.tag # "array" /\ ag[1].do = "value"
  <2>1. /\ nx2 = nx + 1
        /\ \A x \in Nodes(graph) : cl2[x] >= 0 => cl2[x] = cl[x] \/ (x = t.node /\ cl2[x] = nx)
    BY <1>8 DEF TakesId
  <2>2. nx = l
    BY <1>2, <1>4, <1>5, <1>8
  <2>3. nx2 = Len(h.ids)
    BY <1>3, <1>8, <2>1, <2>2
  <2>4. Claims(g, h, e, cl, cl2)
    <3> SUFFICES ASSUME NEW x \in Nodes(graph), cl2[x] >= 0
                 PROVE  \/ cl2[x] = cl[x] /\ Registered(g, cl, x)
                        \/ /\ h.ids = Append(g.ids, e) /\ cl2[x] = Len(g.ids)
                           /\ h.made[e].from.node = x /\ HasKind(h.made[e].kind, x)
      BY DEF Claims
    <3>1. CASE cl2[x] = cl[x]
      BY <1>4, <1>5, <1>8, <3>1
    <3>2. CASE x = t.node /\ cl2[x] = nx
      BY <1>0, <1>1, <1>6, <1>8, <2>2, <3>2
    <3> QED BY <2>1, <3>1, <3>2
  <2> QED BY <2>3, <2>4 DEF IdsFollow
<1>9. CASE t.tag # "array" /\ ag[1].do = "hook"
  <2>1. ag[1].n = t.node /\ nx2 = nx /\ cl2 = cl
    BY <1>9 DEF TakesId
  <2>2. nx2 = Len(h.ids)
    BY <1>2, <1>3, <1>4, <1>5, <1>9, <2>1
  <2>3. Claims(g, h, e, cl, cl2)
    <3> SUFFICES ASSUME NEW x \in Nodes(graph), cl2[x] >= 0
                 PROVE  \/ cl2[x] = cl[x] /\ Registered(g, cl, x)
                        \/ /\ h.ids = Append(g.ids, e) /\ cl2[x] = Len(g.ids)
                           /\ h.made[e].from.node = x /\ HasKind(h.made[e].kind, x)
      BY DEF Claims
    <3>1. CASE ag[1].n = x /\ ag[1].tracked
      BY <1>0, <1>1, <1>4, <1>5, <1>6, <1>9, <2>1, <3>1
    <3>2. CASE ~ (ag[1].n = x /\ ag[1].tracked)
      BY <1>4, <2>1, <3>2
    <3> QED BY <3>1, <3>2
  <2> QED BY <2>2, <2>3 DEF IdsFollow
<1> QED BY <1>7, <1>8, <1>9 DEF TakesId

Begins(ag, t) ==
  /\ ag # <<>> /\ ag[1].depth < maxDepth
  /\ \/ ag[1].do = "value" /\ ag[1].v = t.node
     \/ ag[1].do = "hook" /\ ag[1].n = t.node
     \/ ag[1].do = "built" /\ ag[1].n = t.node /\ t.tag = "array"

(* A token that makes an entity is matched.                                *)
LEMMA NewAdvance ==
  ASSUME NEW b \in Seq(NodeToken), NEW ag, NEW cl, NEW nx, NEW rs, NEW nu,
         Traced(b, ag, cl, nx, rs, nu), WellFormed(graph), maxDepth \in Nat,
         NEW t, TokenFits(t), Begins(ag, t), NEW prefix \in Seq(NodeToken), PrefixOf(prefix, t),
         NEW marked, marked <=> prefix # <<>>, NEW at, at = Len(b) + 1,
         NEW s, Ended(s, t, marked, at, rs), Filled(s, t, ag[1].depth + 1),
         NEW ag2, Comes(ag2, s, ag), ~ Hooked(ag2),
         NEW cl2, NEW nx2, TakesId(ag[1], t, cl, nx, cl2, nx2),
         NEW rs2, rs2 = rs + (IF t.tag = "new_ref" THEN 1 ELSE 0),
         NEW b2, Continues(b2, b, prefix, t)
  PROVE  Traced(b2, ag2, cl2, nx2, rs2, nu)
<1>1. PICK core, shared, loc, R :
        /\ Layout(b, core, shared, loc) /\ Run(core, shared, R)
        /\ Matched(core, shared, loc, Final(R), ag, cl, nx, rs, nu)
  BY DEF Traced
<1>2. PICK g : g = Final(R)
  OBVIOUS
<1>3. /\ ContentsOK(nu, g) /\ SlotsOK(g) /\ AllTrack(core, shared, loc, g, ag)
      /\ IdsOK(g, ag, cl, nx) /\ g.refs = rs /\ NulledOK(nu) /\ g.ended \subseteq 1 .. Len(core)
  BY <1>1, <1>2 DEF Matched
<1>4. g \in RunState /\ g.n = Len(core)
  BY <1>1, <1>2, RunEnds
<1>5. /\ t \in NodeToken /\ t.tag \in EntityTags /\ t.node \in Nodes(graph) /\ t.arg \in Nat
      /\ KindFits(MadeKind(t.tag), t.node)
      /\ t.arg = IF IsBuilt(t) THEN 1 ELSE Len(Kids(t.node))
  BY DEF TokenFits, NodeToken
<1>6. /\ ag # <<>> /\ ag[1].depth < maxDepth /\ ag[1].do \in {"value", "hook", "built"}
      /\ \/ ag[1].do = "value" /\ ag[1].v = t.node
         \/ ag[1].do = "hook" /\ ag[1].n = t.node
         \/ ag[1].do = "built" /\ ag[1].n = t.node /\ t.tag = "array"
  BY DEF Begins
<1>7. /\ g.todo # <<>> /\ g.todo[1].do = "read" /\ g.todo[1].depth = ag[1].depth
      /\ g.todo[1].into \in {0} \cup DOMAIN g.made
      /\ Tracks(core, shared, loc, g, ag[1], g.todo[1])
  BY <1>3, <1>4, <1>6, HeadReads
<1>8. PICK ender : EnderFor(ender, g, t, s) /\ (marked => ender # <<>>)
  BY EnderFound
<1>9. ender \in Enders(t.tag, g.n + 1, Len(g.made) + 1, g.refs)
  BY <1>8 DEF EnderFor
<1>10. PICK h : h = NewFed(g, t, ender)
  OBVIOUS
<1>11. PICK e : e = Len(g.made) + 1
  OBVIOUS
<1>12. PICK tasks : tasks = Contents(g, t) \o ender
  OBVIOUS
<1>13. /\ h \in RunState /\ Took(g, h, e, tasks) /\ Opens(g, h, e, tasks)
       /\ h.ids = IF t.tag = "array" THEN g.ids ELSE Append(g.ids, e)
       /\ h.refs = g.refs + (IF t.tag = "new_ref" THEN 1 ELSE 0)
       /\ h.made[e].from = t /\ h.made[e].kind = MadeKind(t.tag)
  BY <1>4, <1>5, <1>7, <1>9, <1>10, <1>11, <1>12, NewTook
<1>14. Opening(g, t, ender, tasks)
  BY <1>4, <1>5, <1>7, <1>9, <1>12, ContentsTyped
<1>15. /\ Grew(g.made, h.made, g.todo[1].into, e) /\ h.ended = g.ended
       /\ e \in DOMAIN h.made /\ e \notin DOMAIN g.made
  BY <1>13 DEF Took, Opens
<1>16. /\ Includes(g.made, h.made) /\ e \in Nat
       /\ \A x \in DOMAIN h.made : x \notin DOMAIN g.made => x = e
  BY <1>11, <1>15 DEF Grew, Includes
<1>17. h.refs = rs2
  BY <1>3, <1>13
<1>18. NewOK(h.made, e)
  <2>1. HasBuilt(h.made, e) <=> IsBuilt(t)
    BY <1>13 DEF HasBuilt, IsBuilt
  <2>2. Announced(h.made, e) = t.arg
    BY <1>5, <1>13, <2>1 DEF Announced
  <2> QED BY <1>5, <1>13, <2>2 DEF NewOK
<1>19. Fits(nu, h.made, g.todo[1], e)
  <2>1. CASE ag[1].do \in {"value", "hook"}
    <3>1. Expects(g.made, g.todo[1], t.node)
      BY <1>6, <1>7, <2>1 DEF Tracks
    <3>2. IsNode(t.node)
      BY <1>5, NodesPositive
    <3>3. Copies(nu, h.made, t.node, e)
      BY <1>13, <1>15, <3>2 DEF Copies
    <3>4. t.node \in Nodes(graph) \cup {Scalar}
      BY <1>5
    <3> QED BY <1>7, <1>16, <3>1, <3>3, <3>4, ExpectedFits
  <2>2. CASE ag[1].do = "built"
    <3>1. ExpectsBuilt(g.made, g.todo[1], t.node)
      BY <1>6, <1>7, <2>2 DEF Tracks
    <3>2. h.made[e].kind = "array" /\ h.made[e].from.node = t.node
      BY <1>6, <1>13, <2>2 DEF MadeKind
    <3> QED BY <1>7, <1>15, <1>16, <3>1, <3>2, BuiltFits
  <2> QED BY <1>6, <2>1, <2>2
<1>20. Advances(g, h, b, prefix, t)
  <2>1. ASSUME NEW core2, NEW shared2, NEW loc2,
               Lies(core2, shared2, loc2, g.n + 1, t, prefix # <<>>, Len(b) + Len(prefix) + 1)
        PROVE  RunStep(core2, shared2, g, h)
    <3>1. Len(core2) = g.n + 1 /\ core2[g.n + 1] = t /\ (g.n + 1 \in shared2 <=> marked)
      BY <2>1 DEF Lies
    <3>2. g.n < Len(core2)
      BY <1>4, <3>1, RunFields
    <3>3. Readable(core2, g)
      BY <1>6, <1>7, <3>1, <3>2 DEF Readable
    <3>4. g.n + 1 \in shared2 => ender # <<>>
      BY <1>8, <3>1
    <3>5. NewStep(core2, shared2, g, h)
      BY <1>5, <1>9, <1>10, <3>1, <3>3, <3>4, Zenon DEF NewStep
    <3> QED BY <3>5 DEF RunStep
  <2> QED BY <2>1 DEF Advances
<1>21. Len(prefix) \in Nat /\ (marked => Len(prefix) = 1)
  <2>1. Len(prefix) = 0 => prefix = <<>>
    BY EmptySeq
  <2>2. Len(prefix) = 0 \/ Len(prefix) = 1
    BY DEF PrefixOf
  <2> QED BY <2>1, <2>2
<1>22. Pairs(g, h, s, tasks, b, prefix, t)
  <2>1. DOMAIN s = 1 .. Len(s)
    BY DEF Comes
  <2>2. Ended(s, t, marked, at, g.refs) /\ Filled(s, t, g.todo[1].depth + 1)
    BY <1>3, <1>7
  <2>3. g.ended \subseteq 1 .. g.n
    BY <1>3, <1>4
  <2> QED BY <1>4, <1>7, <1>8, <1>11, <1>13, <1>14, <1>15, <1>21, <2>1, <2>2, <2>3, NewPairs
<1>23. Claims(g, h, e, cl, cl2) /\ nx2 = Len(h.ids)
  <2>1. MadeFrom(g, h, e, t)
    BY <1>13 DEF MadeFrom
  <2>2. IdsOK(g, ag, cl, nx) /\ ag # <<>> /\ e \in Nat
    BY <1>3, <1>6, <1>16
  <2>3. IdsFollow(g, h, e, cl, cl2, nx2)
    BY <1>4, <2>1, <2>2, NewClaims
  <2> QED BY <2>3 DEF IdsFollow
<1>24. t.tag # "shared"
  BY <1>5 DEF EntityTags, ObjectTags
<1>25. Matched(core, shared, loc, g, ag, cl, nx, rs, nu) /\ Layout(b, core, shared, loc) /\ Run(core, shared, R)
  BY <1>1, <1>2
<1>26. \A x \in DOMAIN h.made : x \notin DOMAIN g.made => NewOK(h.made, x)
  BY <1>16, <1>18
<1>27. h.ids = g.ids \/ (h.ids = Append(g.ids, e) /\ e \in DOMAIN h.made /\ e \in Nat)
  BY <1>13, <1>15, <1>16
<1>28. nu \subseteq nu
  OBVIOUS
<1> QED BY <1>2, <1>3, <1>5, <1>13, <1>17, <1>19, <1>20, <1>22, <1>23, <1>24, <1>25, <1>26, <1>27, <1>28, Advanced

----------------------------------------------------------------------------
(* The end of a walk.                                                      *)
ClosedTo(g, h, ids_, ended) ==
  /\ h \in RunState /\ h.n = g.n /\ h.made = g.made /\ h.ids = ids_ /\ h.refs = g.refs
  /\ h.result = g.result /\ h.ended = ended /\ Comes(h.todo, <<>>, g.todo)

(* The state after an end.                                                 *)
LEMMA ClosedTyped ==
  ASSUME NEW g \in RunState, g.todo # <<>>, NEW ids_ \in Seq(Nat), NEW ended \in SUBSET Nat
  PROVE  ClosedTo(g, Closed(g, ids_, ended), ids_, ended)
<1> PICK h : h = Closed(g, ids_, ended)
  OBVIOUS
<1>1. /\ g.n \in Nat /\ g.todo \in Seq(RunTask) /\ g.made \in Seq(RunEntity)
      /\ g.refs \in Nat /\ g.result \in Int
  BY RunFields
<1>2. PICK u : u = Tail(g.todo)
  OBVIOUS
<1>3. u \in Seq(RunTask) /\ Comes(u, <<>>, g.todo)
  BY <1>1, <1>2, Dropped
<1>4. h = [n |-> g.n, todo |-> u, made |-> g.made, ids |-> ids_, refs |-> g.refs,
           result |-> g.result, ended |-> ended]
  BY <1>2 DEF Closed
<1>5. h \in RunState
  BY <1>1, <1>3, <1>4 DEF RunState
<1> QED BY <1>3, <1>4, <1>5 DEF ClosedTo

(* The other ends are where they were.                                     *)
Remain(core, shared, loc, g, ag, shared2, loc2, h) ==
  \A j \in DOMAIN ag : j > 1 /\ ag[j].do = "arrayDone" =>
    Stays(shared, loc, g.ended, core, shared2, loc2, h.ended, g.todo[j].at)

(* An end is matched.                                                      *)
LEMMA ClosedOff ==
  ASSUME NEW b, NEW core, NEW shared, NEW loc, NEW R, Run(core, shared, R), NEW g, g = Final(R),
         NEW ag, NEW cl, NEW nx, NEW rs, NEW nu, g.todo # <<>>, g.todo[1].do # "read",
         Matched(core, shared, loc, g, ag, cl, nx, rs, nu), WellFormed(graph),
         NEW shared2, NEW loc2, Layout(b, core, shared2, loc2),
         Agrees(core, shared, core, shared2, g.ended),
         NEW ids_ \in Seq(Nat), NEW ended \in SUBSET (1 .. Len(core)), g.ended \subseteq ended,
         NEW h, ClosedTo(g, h, ids_, ended), CloseStep(shared2, g, h),
         NEW ag2, Comes(ag2, <<>>, ag), ~ Hooked(ag2),
         Remain(core, shared, loc, g, ag, shared2, loc2, h),
         NEW e, ids_ = g.ids \/ (ids_ = Append(g.ids, e) /\ e \in Nat /\ e \in DOMAIN g.made),
         NEW cl2, NEW nx2, IdsFollow(g, h, e, cl, cl2, nx2)
  PROVE  Traced(b, ag2, cl2, nx2, rs, nu)
<1>1. /\ ContentsOK(nu, g) /\ SlotsOK(g) /\ AllTrack(core, shared, loc, g, ag)
      /\ IdsOK(g, ag, cl, nx) /\ g.refs = rs /\ NulledOK(nu) /\ g.ended \subseteq 1 .. Len(core)
  BY DEF Matched
<1>2. g \in RunState /\ g.n = Len(core)
  BY RunEnds
<1>3. /\ h \in RunState /\ h.n = g.n /\ h.made = g.made /\ h.ids = ids_ /\ h.refs = g.refs
      /\ h.result = g.result /\ h.ended = ended /\ Comes(h.todo, <<>>, g.todo)
  BY DEF ClosedTo
<1>4. ContentsOK(nu, h)
  <2>1. \A i \in DOMAIN ids_ : ids_[i] \in DOMAIN g.made
    <3>1. \A i \in DOMAIN g.ids : g.ids[i] \in DOMAIN g.made
      BY <1>1 DEF ContentsOK
    <3>2. g.ids \in Seq(Nat)
      BY <1>2, RunFields
    <3>3. CASE ids_ = Append(g.ids, e) /\ e \in Nat /\ e \in DOMAIN g.made
      BY <3>1, <3>2, <3>3
    <3> QED BY <3>1, <3>3
  <2> QED BY <1>1, <1>3, <2>1 DEF ContentsOK
<1>5. SlotsOK(h)
  BY <1>1, <1>2, <1>3, SlotsClosed
<1>6. Flat(h.made)
  BY <1>3, <1>4, FlatHolds
<1>7. Includes(g.made, h.made)
  BY <1>3 DEF Includes
<1>8. AllTrack(core, shared2, loc2, h, ag2)
  <2>1. ASSUME NEW j \in DOMAIN ag, j > 1 PROVE Tracks(core, shared2, loc2, h, ag[j], g.todo[j])
    <3>1. Tracks(core, shared, loc, g, ag[j], g.todo[j])
      BY <1>1 DEF AllTrack
    <3>2. j \in DOMAIN g.todo
      <4>1. Len(ag) = Len(g.todo)
        BY <1>1 DEF AllTrack
      <4>2. DOMAIN ag = 1 .. Len(ag) /\ DOMAIN g.todo = 1 .. Len(g.todo)
        BY <1>3 DEF Comes
      <4> QED BY <2>1, <4>1, <4>2
    <3>3. InRange(g.made, g.todo[j])
      BY <1>1, <3>2 DEF SlotsOK
    <3>4. ag[j].do = "arrayDone" =>
            Stays(shared, loc, g.ended, core, shared2, loc2, h.ended, g.todo[j].at)
      BY <2>1 DEF Remain
    <3> QED BY <1>7, <3>1, <3>3, <3>4, TrackStays
  <2>2. \A i \in DOMAIN <<>> : Tracks(core, shared2, loc2, h, <<>>[i], <<>>[i])
    OBVIOUS
  <2> QED BY <1>1, <1>3, <2>1, <2>2, TracksPut
<1>9. Claims(g, h, e, cl, cl2) /\ nx2 = Len(h.ids)
  BY DEF IdsFollow
<1>10. IdsOK(h, ag2, cl2, nx2)
  BY <1>1, <1>2, <1>3, <1>7, <1>9, IdsAfter
<1>11. Matched(core, shared2, loc2, h, ag2, cl2, nx2, rs, nu)
  BY <1>1, <1>3, <1>4, <1>5, <1>8, <1>10 DEF Matched
<1>12. RunStep(core, shared2, g, h)
  BY DEF RunStep
<1>13. PICK R2 : Run(core, shared2, R2) /\ Final(R2) = h
  BY <1>2, <1>3, <1>6, <1>12, RunMore
<1> QED BY <1>11, <1>13 DEF Traced

(* A value that was asked of __serialize() is an array.                    *)
LEMMA MagicHolds ==
  ASSUME NEW g \in RunState, NEW nu, ContentsOK(nu, g), SlotsOK(g), NulledOK(nu), WellFormed(graph),
         g.todo # <<>>, NEW e \in DOMAIN g.made, g.todo[1].do = "magic", g.todo[1].entity = e,
         g.made[e].kind = "object", Kind(g.made[e].from.node) \in {"magic", "factory"}
  PROVE  HoldsArray(g.made, e)
<1> PICK m : m = g.made
  OBVIOUS
<1> PICK n : n = m[e].from.node
  OBVIOUS
<1>1. EntityOK(nu, m, e) /\ m \in Seq(RunEntity) /\ e \in DOMAIN m
  BY RunFields DEF ContentsOK
<1>2. /\ n \in Nodes(graph) /\ m[e].from.arg = Announced(m, e)
      /\ \A i \in DOMAIN m[e].kids : Right(nu, m, e, i, m[e].kids[i])
  BY <1>1 DEF EntityOK
<1>3. Kind(n) = "magic" => /\ Len(Kids(n)) = 1
                           /\ IsNode(Kids(n)[1]) /\ Kind(Kids(n)[1]) \in ArrayKinds
  <2>1. KidsFitKind(graph, n)
    BY <1>2 DEF WellFormed
  <2> QED BY <2>1 DEF KidsFitKind, Kind, Kids
<1>4. HasBuilt(m, e) <=> Kind(n) = "factory"
  BY DEF HasBuilt
<1>5. m[e].from.arg = 1
  BY <1>2, <1>3, <1>4 DEF Announced
<1>6. m[e].kids \in Seq(Int) /\ Len(m[e].kids) \in Nat
  BY <1>1, EntityFields
<1>7. Len(m[e].kids) >= 1
  <2> SUFFICES ASSUME Len(m[e].kids) = 0 PROVE FALSE
    BY <1>6
  <2>1. 1 \in Len(m[e].kids) + 1 .. m[e].from.arg
    BY <1>5
  <2>2. PICK j \in DOMAIN g.todo : IsRead(g.todo[j], e, 1)
    BY <2>1 DEF SlotsOK
  <2>3. g.todo[j].do = "read" /\ g.todo[j].into = e
    BY <2>2 DEF IsRead
  <2>4. 1 \in DOMAIN g.todo /\ j >= 1 /\ j \in Nat
    BY RunFields
  <2>5. j # 1
    BY <2>3
  <2>6. Before(g.todo[1], g.todo[j])
    <3>1. 1 < j
      BY <2>4, <2>5
    <3> QED BY <2>4, <3>1 DEF SlotsOK
  <2> QED BY <2>3, <2>6 DEF Before
<1>8. PICK d : d = m[e].kids[1]
  OBVIOUS
<1>9. 1 \in DOMAIN m[e].kids /\ m[e].kids # <<>>
  BY <1>6, <1>7
<1>10. Right(nu, m, e, 1, d)
  BY <1>2, <1>8, <1>9
<1>11. d \in DOMAIN m /\ m[d].kind = "array"
  <2>1. CASE Kind(n) = "factory"
    BY <1>4, <1>10, <2>1 DEF Right
  <2>2. CASE Kind(n) = "magic"
    <3>1. PICK v \in Nodes(graph) \cup {Scalar} : MayStandFor(Kids(n)[1], v) /\ Copies(nu, m, v, d)
      BY <1>4, <1>10, <2>2 DEF Right
    <3>2. v = Kids(n)[1]
      BY <1>3, <2>2, <3>1 DEF MayStandFor, IsLoneReference, ArrayKinds
    <3>3. IsNode(v) /\ Kind(v) \in ArrayKinds
      BY <1>3, <2>2, <3>2
    <3>4. v \notin nu
      BY <3>3 DEF NulledOK, ArrayKinds
    <3>5. v # Scalar
      BY <3>3 DEF IsNode, Scalar
    <3>6. d \in DOMAIN m /\ m[d].from.node = v
      BY <3>1, <3>4, <3>5 DEF Copies
    <3>7. EntityOK(nu, m, d)
      BY <3>6 DEF ContentsOK
    <3>8. KindFits(m[d].kind, v)
      BY <3>6, <3>7 DEF EntityOK
    <3> QED BY <3>3, <3>6, <3>8 DEF KindFits, ArrayKinds, ObjectKinds
  <2> QED BY <2>1, <2>2
<1> QED BY <1>8, <1>9, <1>11 DEF HoldsArray

(* An end does one of these.                                               *)
Finishes(a, rs, cl, nx, b, cl2, nx2, b2) ==
  \/ (a.do = "release" \/ (a.do = "arrayDone" /\ ~ a.claimed)) /\ b2 = b /\ nx2 = nx /\ cl2 = cl
  \/ /\ a.do = "arrayDone" /\ a.claimed /\ rs = a.refs /\ b2 = b /\ nx2 = nx + 1
     /\ Kind(a.n) \in ArrayKinds
     /\ \A x \in Nodes(graph) : cl2[x] >= 0 => cl2[x] = cl[x] \/ (x = a.n /\ cl2[x] = nx)
  \/ /\ a.do = "arrayDone" /\ a.claimed /\ rs # a.refs /\ b2 = Cut(b, a.at) /\ nx2 = nx
     /\ \A x \in Nodes(graph) : cl2[x] >= 0 => cl2[x] = cl[x]

(* Walks that began earlier.                                               *)
InnerFirst(ag) ==
  \A j \in DOMAIN ag :
    j > 1 /\ ag[1].do = "arrayDone" /\ ag[j].do = "arrayDone" => ag[j].at < ag[1].at

(* They are where they were.                                               *)
LEMMA OthersRemain ==
  ASSUME NEW b, NEW core, NEW shared, NEW loc, Layout(b, core, shared, loc), NEW g, NEW ag,
         AllTrack(core, shared, loc, g, ag), InnerFirst(ag),
         NEW u, NEW s, Comes(u, s, ag), NEW shared2, NEW loc2, NEW h,
         NEW c, c = g.todo[1].at, h.ended = g.ended \cup (IF ag[1].do = "arrayDone" THEN {c} ELSE {}),
         \/ shared2 = shared /\ loc2 = loc
         \/ /\ shared2 = shared \ {c} /\ ag[1].do = "arrayDone" /\ ag[1].claimed
            /\ \A x \in 1 .. Len(core) : x < c => loc2[x] = loc[x]
  PROVE  Remain(core, shared, loc, g, ag, shared2, loc2, h)
<1>1. Tracks(core, shared, loc, g, ag[1], g.todo[1])
  BY DEF AllTrack, Comes
<1>2. ag[1].do = "arrayDone" =>
        /\ c \in 1 .. Len(core) /\ (ag[1].claimed <=> c \in shared)
        /\ c \in shared => ag[1].at = loc[c] - 1
  BY <1>1 DEF Tracks
<1> SUFFICES ASSUME NEW j \in DOMAIN ag, j > 1, ag[j].do = "arrayDone"
             PROVE  Stays(shared, loc, g.ended, core, shared2, loc2, h.ended, g.todo[j].at)
  BY DEF Remain
<1>3. PICK d : d = g.todo[j].at
  OBVIOUS
<1>4. Tracks(core, shared, loc, g, ag[j], g.todo[j])
  BY DEF AllTrack
<1>5. /\ d \in 1 .. Len(core) /\ (ag[j].claimed <=> d \in shared)
      /\ d \in shared => ag[j].at = loc[d] - 1 /\ d \notin g.ended
  BY <1>3, <1>4 DEF Tracks
<1>6. CASE d \notin shared
  <2>1. d \notin shared2
    BY <1>6
  <2> QED BY <1>3, <1>5, <1>6, <2>1 DEF Stays
<1>7. CASE d \in shared
  <2>1. CASE ag[1].do # "arrayDone"
    BY <1>3, <1>5, <2>1 DEF Stays
  <2>2. CASE ag[1].do = "arrayDone" /\ ~ ag[1].claimed
    <3>1. d # c
      BY <1>2, <1>7, <2>2
    <3> QED BY <1>3, <1>5, <1>7, <2>2, <3>1 DEF Stays
  <2>3. CASE ag[1].do = "arrayDone" /\ ag[1].claimed
    <3>1. ag[j].at < ag[1].at
      BY <2>3 DEF InnerFirst
    <3>2. PICK y : y = loc[d]
      OBVIOUS
    <3>3. PICK z : z = loc[c]
      OBVIOUS
    <3>4. /\ Len(core) \in Nat /\ y \in Int /\ z \in Int
          /\ c < d => z < y
      <4>1. core \in Seq(NodeToken) /\ loc \in [0 .. Len(core) -> 0 .. Len(b)]
        BY DEF Layout
      <4>2. Len(core) \in Nat
        BY <4>1
      <4>3. c \in 0 .. Len(core) /\ d \in 0 .. Len(core)
        BY <1>2, <1>5, <2>3, <4>2
      <4>4. c < d => loc[c] < loc[d]
        BY <1>5, <4>3 DEF Layout
      <4> QED BY <3>2, <3>3, <4>1, <4>2, <4>3, <4>4
    <3>5. y - 1 < z - 1
      BY <1>2, <1>5, <1>7, <2>3, <3>1, <3>2, <3>3
    <3>6. d < c
      <4>1. c # d
        BY <3>2, <3>3, <3>4, <3>5
      <4>2. ~ (c < d)
        BY <3>4, <3>5
      <4> QED BY <1>2, <1>5, <2>3, <3>4, <4>1, <4>2
    <3>7. loc2[d] = loc[d] /\ d # c
      <4>1. d # c
        BY <1>2, <2>3, <3>4, <3>6
      <4> QED BY <1>5, <3>6, <4>1
    <3>8. d \in shared2 /\ d \notin h.ended
      BY <1>5, <1>7, <3>7
    <3> QED BY <1>3, <1>5, <1>7, <3>7, <3>8 DEF Stays
  <2> QED BY <2>1, <2>2, <2>3
<1> QED BY <1>6, <1>7

(* The ids after an end.                                                   *)
LEMMA EndClaims ==
  ASSUME NEW g \in RunState, NEW ag, NEW cl, NEW nx, IdsOK(g, ag, cl, nx), ~ Hooked(ag),
         NEW cl2, NEW nx2, NEW h, NEW e,
         \/ h.ids = g.ids /\ nx2 = nx /\ \A x \in Nodes(graph) : cl2[x] >= 0 => cl2[x] = cl[x]
         \/ /\ h.ids = Append(g.ids, e) /\ nx2 = nx + 1 /\ e \in Nat
            /\ \A x \in Nodes(graph) : cl2[x] >= 0 =>
                 \/ cl2[x] = cl[x]
                 \/ cl2[x] = nx /\ h.made[e].from.node = x /\ HasKind(h.made[e].kind, x)
  PROVE  IdsFollow(g, h, e, cl, cl2, nx2)
<1>1. PICK l : l = Len(g.ids)
  OBVIOUS
<1>2. g.ids \in Seq(Nat) /\ l \in Nat
  BY <1>1, RunFields
<1>3. nx = l /\ \A x \in Nodes(graph) : cl[x] >= 0 => Registered(g, cl, x)
  BY <1>1, <1>2 DEF IdsOK
<1>4. nx2 = Len(h.ids)
  <2>1. e \in Nat => Len(Append(g.ids, e)) = l + 1
    BY <1>1, <1>2
  <2>2. CASE h.ids = g.ids /\ nx2 = nx
    BY <1>1, <1>3, <2>2
  <2>3. CASE h.ids = Append(g.ids, e) /\ nx2 = nx + 1 /\ e \in Nat
    BY <1>3, <2>1, <2>3
  <2> QED BY <2>2, <2>3
<1>5. Claims(g, h, e, cl, cl2)
  <2> SUFFICES ASSUME NEW x \in Nodes(graph), cl2[x] >= 0
               PROVE  \/ cl2[x] = cl[x] /\ Registered(g, cl, x)
                      \/ /\ h.ids = Append(g.ids, e) /\ cl2[x] = Len(g.ids)
                         /\ h.made[e].from.node = x /\ HasKind(h.made[e].kind, x)
    BY DEF Claims
  <2>1. CASE cl2[x] = cl[x]
    BY <1>3, <2>1
  <2>2. CASE cl2[x] # cl[x]
    BY <1>1, <1>3, <2>2
  <2> QED BY <2>1, <2>2
<1> QED BY <1>4, <1>5 DEF IdsFollow

(* A task at whose end nothing is read.                                    *)
LEMMA HeadEnds ==
  ASSUME NEW core, NEW shared, NEW loc, NEW g \in RunState, NEW ag, AllTrack(core, shared, loc, g, ag),
         NEW u, NEW s, Comes(u, s, ag), ag[1].do \in {"arrayDone", "release"}
  PROVE  /\ g.todo # <<>> /\ g.todo[1].do # "read" /\ Tracks(core, shared, loc, g, ag[1], g.todo[1])
         /\ ag[1].do = "arrayDone" => g.todo[1].do = "end"
<1>1. Tracks(core, shared, loc, g, ag[1], g.todo[1]) /\ Len(ag) = Len(g.todo)
  BY DEF AllTrack, Comes
<1>2. g.todo # <<>>
  <2>1. Len(ag) >= 1 /\ Len(ag) \in Nat
    BY DEF Comes
  <2> QED BY <1>1, <2>1, RunFields, EmptySeq
<1>3. g.todo[1].do # "read" /\ (ag[1].do = "arrayDone" => g.todo[1].do = "end")
  BY <1>1 DEF Tracks
<1> QED BY <1>1, <1>2, <1>3

(* The end of a walk is matched.                                           *)
LEMMA CloseAdvance ==
  ASSUME NEW b \in Seq(NodeToken), NEW ag, NEW cl, NEW nx, NEW rs, NEW nu,
         Traced(b, ag, cl, nx, rs, nu), WellFormed(graph),
         NEW ag2, Comes(ag2, <<>>, ag), ~ Hooked(ag2), ag[1].do \in {"arrayDone", "release"},
         InnerFirst(ag), NEW cl2, NEW nx2, NEW b2, Finishes(ag[1], rs, cl, nx, b, cl2, nx2, b2)
  PROVE  Traced(b2, ag2, cl2, nx2, rs, nu)
<1>1. PICK core, shared, loc, R :
        /\ Layout(b, core, shared, loc) /\ Run(core, shared, R)
        /\ Matched(core, shared, loc, Final(R), ag, cl, nx, rs, nu)
  BY DEF Traced
<1>2. PICK g : g = Final(R)
  OBVIOUS
<1>3. /\ ContentsOK(nu, g) /\ SlotsOK(g) /\ AllTrack(core, shared, loc, g, ag)
      /\ IdsOK(g, ag, cl, nx) /\ g.refs = rs /\ NulledOK(nu) /\ g.ended \subseteq 1 .. Len(core)
  BY <1>1, <1>2 DEF Matched
<1>4. /\ g \in RunState /\ g.n = Len(core) /\ g.ids \in Seq(Nat) /\ ~ Hooked(ag)
      /\ core \in Seq(NodeToken) /\ Len(core) \in Nat
  BY <1>1, <1>2, RunEnds, RunFields DEF Hooked, Layout
<1>5. /\ g.todo # <<>> /\ g.todo[1].do # "read" /\ Tracks(core, shared, loc, g, ag[1], g.todo[1])
      /\ ag[1].do = "arrayDone" => g.todo[1].do = "end"
  BY <1>3, <1>4, HeadEnds
<1>6. PICK c : c = g.todo[1].at
  OBVIOUS
<1>7. PICK e : e = g.todo[1].entity
  OBVIOUS
<1>8. ag[1].do = "arrayDone" =>
        /\ c \in 1 .. Len(core) /\ (ag[1].claimed <=> c \in shared)
        /\ ag[1].claimed => ag[1].at = loc[c] - 1 /\ c \notin g.ended
        /\ g.todo[1].refs = ag[1].refs
        /\ e \in DOMAIN g.made /\ g.made[e].kind = "array" /\ g.made[e].from.node = ag[1].n
  BY <1>5, <1>6, <1>7 DEF Tracks
<1>9. /\ Matched(core, shared, loc, g, ag, cl, nx, rs, nu) /\ Layout(b, core, shared, loc)
      /\ Run(core, shared, R)
  BY <1>1, <1>2
<1>10. Agrees(core, shared, core, shared, g.ended)
  BY <1>4 DEF Agrees
<1>11. g.ended \in SUBSET (1 .. Len(core)) /\ g.ended \in SUBSET Nat /\ g.ended \subseteq g.ended
  BY <1>3
<1>12. ASSUME ag[1].do = "release", b2 = b, nx2 = nx, cl2 = cl
       PROVE  Traced(b2, ag2, cl2, nx2, rs, nu)
  <2>1. PICK h : h = Closed(g, g.ids, g.ended)
    OBVIOUS
  <2>2. ClosedTo(g, h, g.ids, g.ended)
    BY <1>4, <1>5, <1>11, <2>1, ClosedTyped
  <2>3. CloseStep(shared, g, h)
    <3>1. CASE g.todo[1].do = "nothing"
      BY <1>5, <2>1, <3>1 DEF CloseStep
    <3>2. CASE g.todo[1].do # "nothing"
      <4>1. /\ g.todo[1].do = "magic" /\ e \in DOMAIN g.made /\ g.made[e].kind = "object"
            /\ Kind(g.made[e].from.node) \in {"magic", "factory"}
        BY <1>5, <1>7, <1>12, <3>2 DEF Tracks
      <4>2. HoldsArray(g.made, e)
        BY <1>3, <1>4, <1>5, <1>7, <4>1, MagicHolds
      <4> QED BY <1>5, <1>7, <2>1, <4>1, <4>2 DEF CloseStep
    <3> QED BY <3>1, <3>2
  <2>4. h.ids = g.ids /\ h.ended = g.ended
    BY <2>2 DEF ClosedTo
  <2>5. Remain(core, shared, loc, g, ag, shared, loc, h)
    BY <1>3, <1>6, <1>9, <1>12, <2>4, OthersRemain
  <2>6. IdsFollow(g, h, e, cl, cl2, nx2)
    BY <1>3, <1>4, <1>12, <2>4, EndClaims
  <2>7. Traced(b, ag2, cl2, nx2, rs, nu)
    BY <1>2, <1>4, <1>5, <1>9, <1>10, <1>11, <2>2, <2>3, <2>5, <2>6, ClosedOff
  <2> QED BY <1>12, <2>7
<1>13. ASSUME ag[1].do = "arrayDone"
       PROVE  /\ g.ended \cup {c} \in SUBSET (1 .. Len(core)) /\ g.ended \cup {c} \in SUBSET Nat
              /\ g.ended \subseteq g.ended \cup {c}
  BY <1>8, <1>11, <1>13
<1>14. ASSUME ag[1].do = "arrayDone", ~ ag[1].claimed, b2 = b, nx2 = nx, cl2 = cl
       PROVE  Traced(b2, ag2, cl2, nx2, rs, nu)
  <2>0. PICK ended : ended = g.ended \cup {c}
    OBVIOUS
  <2>1. PICK h : h = Closed(g, g.ids, ended)
    OBVIOUS
  <2>2. ClosedTo(g, h, g.ids, ended)
    BY <1>4, <1>5, <1>13, <1>14, <2>0, <2>1, ClosedTyped
  <2>3. CloseStep(shared, g, h)
    BY <1>5, <1>6, <1>8, <1>14, <2>0, <2>1 DEF CloseStep
  <2>4. h.ids = g.ids /\ h.ended = g.ended \cup {c}
    BY <2>0, <2>2 DEF ClosedTo
  <2>5. Remain(core, shared, loc, g, ag, shared, loc, h)
    BY <1>3, <1>6, <1>9, <1>14, <2>4, OthersRemain
  <2>6. IdsFollow(g, h, e, cl, cl2, nx2)
    BY <1>3, <1>4, <1>14, <2>4, EndClaims
  <2>7. Traced(b, ag2, cl2, nx2, rs, nu)
    BY <1>2, <1>4, <1>5, <1>9, <1>10, <1>13, <1>14, <2>0, <2>2, <2>3, <2>5, <2>6, ClosedOff
  <2> QED BY <1>14, <2>7
<1>15. ASSUME ag[1].do = "arrayDone", ag[1].claimed, rs = ag[1].refs, b2 = b, nx2 = nx + 1,
              Kind(ag[1].n) \in ArrayKinds,
              \A x \in Nodes(graph) : cl2[x] >= 0 => cl2[x] = cl[x] \/ (x = ag[1].n /\ cl2[x] = nx)
       PROVE  Traced(b2, ag2, cl2, nx2, rs, nu)
  <2>0. PICK ended : ended = g.ended \cup {c}
    OBVIOUS
  <2>1. PICK ids_ : ids_ = Append(g.ids, e)
    OBVIOUS
  <2>2. ids_ \in Seq(Nat) /\ e \in Nat
    <3>1. e \in Nat
      BY <1>4, <1>8, <1>15, RunFields
    <3> QED BY <1>4, <2>1, <3>1
  <2>3. PICK h : h = Closed(g, ids_, ended)
    OBVIOUS
  <2>4. ClosedTo(g, h, ids_, ended)
    BY <1>4, <1>5, <1>13, <1>15, <2>0, <2>2, <2>3, ClosedTyped
  <2>5. CloseStep(shared, g, h)
    BY <1>3, <1>5, <1>6, <1>7, <1>8, <1>15, <2>0, <2>1, <2>3 DEF CloseStep
  <2>6. h.ids = Append(g.ids, e) /\ h.ended = g.ended \cup {c} /\ h.made = g.made
    BY <2>0, <2>1, <2>4 DEF ClosedTo
  <2>7. Remain(core, shared, loc, g, ag, shared, loc, h)
    BY <1>3, <1>6, <1>9, <1>15, <2>6, OthersRemain
  <2>8. IdsFollow(g, h, e, cl, cl2, nx2)
    <3>1. HasKind(h.made[e].kind, ag[1].n) /\ h.made[e].from.node = ag[1].n
      BY <1>8, <1>15, <2>6 DEF HasKind
    <3>2. \A x \in Nodes(graph) : cl2[x] >= 0 =>
                 \/ cl2[x] = cl[x]
                 \/ cl2[x] = nx /\ h.made[e].from.node = x /\ HasKind(h.made[e].kind, x)
      BY <1>15, <3>1
    <3> QED BY <1>3, <1>4, <1>15, <2>2, <2>6, <3>2, EndClaims
  <2>9. Traced(b, ag2, cl2, nx2, rs, nu)
    BY <1>2, <1>4, <1>5, <1>8, <1>9, <1>10, <1>13, <1>15, <2>0, <2>1, <2>2, <2>4, <2>5, <2>7, <2>8,
       ClosedOff
  <2> QED BY <1>15, <2>9
<1>16. ASSUME ag[1].do = "arrayDone", ag[1].claimed, b2 = Cut(b, ag[1].at), nx2 = nx,
              \A x \in Nodes(graph) : cl2[x] >= 0 => cl2[x] = cl[x]
       PROVE  Traced(b2, ag2, cl2, nx2, rs, nu)
  <2>0. PICK ended : ended = g.ended \cup {c}
    OBVIOUS
  <2>1. PICK h : h = Closed(g, g.ids, ended)
    OBVIOUS
  <2>2. ClosedTo(g, h, g.ids, ended)
    BY <1>4, <1>5, <1>13, <1>16, <2>0, <2>1, ClosedTyped
  <2>3. PICK shared2 : shared2 = shared \ {c}
    OBVIOUS
  <2>4. CloseStep(shared2, g, h)
    BY <1>5, <1>6, <1>16, <2>0, <2>1, <2>3 DEF CloseStep
  <2>5. h.ids = g.ids /\ h.ended = g.ended \cup {c}
    BY <2>0, <2>2 DEF ClosedTo
  <2>6. PICK loc2 : /\ Layout(b2, core, shared2, loc2)
                    /\ \A x \in 1 .. Len(core) : x < c => loc2[x] = loc[x]
    <3>1. c \in shared /\ b2 = Cut(b, loc[c] - 1)
      BY <1>8, <1>16
    <3>2. PICK loc2 : Less(b2, core, shared, loc, c, loc2)
      BY <1>9, <3>1, LayoutLess
    <3> QED BY <2>3, <3>2 DEF Less
  <2>7. Remain(core, shared, loc, g, ag, shared2, loc2, h)
    BY <1>3, <1>6, <1>9, <1>16, <2>3, <2>5, <2>6, OthersRemain
  <2>8. IdsFollow(g, h, e, cl, cl2, nx2)
    BY <1>3, <1>4, <1>16, <2>5, EndClaims
  <2>9. Agrees(core, shared, core, shared2, g.ended)
    <3>1. c \notin g.ended
      BY <1>8, <1>16
    <3> QED BY <1>4, <2>3, <3>1 DEF Agrees
  <2> QED BY <1>2, <1>4, <1>5, <1>9, <1>13, <1>16, <2>0, <2>2, <2>4, <2>6, <2>7, <2>8, <2>9,
             ClosedOff
<1> QED BY <1>12, <1>14, <1>15, <1>16 DEF Finishes

(* A hook is called: its object has an id, and is not written yet.         *)
LEMMA HookAdvance ==
  ASSUME NEW b \in Seq(NodeToken), NEW ag, NEW cl, NEW nx \in Nat, NEW rs, NEW nu,
         Traced(b, ag, cl, nx, rs, nu), ag[1].do = "value", ag[1].depth < maxDepth,
         NEW z, z.do = "hook", z.n = ag[1].v, z.depth = ag[1].depth, NEW s, Len(s) = 1, s[1] = z,
         NEW ag2, Comes(ag2, s, ag), NEW nx2, nx2 = nx + 1,
         NEW cl2, \A x \in Nodes(graph) : cl2[x] >= 0 =>
                    IF x = z.n /\ z.tracked THEN cl2[x] = nx ELSE cl2[x] = cl[x]
  PROVE  Traced(b, ag2, cl2, nx2, rs, nu)
<1>1. PICK core, shared, loc, R :
        /\ Layout(b, core, shared, loc) /\ Run(core, shared, R)
        /\ Matched(core, shared, loc, Final(R), ag, cl, nx, rs, nu)
  BY DEF Traced
<1>2. PICK g : g = Final(R)
  OBVIOUS
<1>3. /\ AllTrack(core, shared, loc, g, ag) /\ IdsOK(g, ag, cl, nx) /\ SlotsOK(g)
  BY <1>1, <1>2 DEF Matched
<1>4. g \in RunState
  BY <1>1, <1>2, RunEnds
<1>5. PICK y : y = Len(ag)
  OBVIOUS
<1>6. /\ y \in Nat /\ y >= 1 /\ Len(ag2) = y /\ DOMAIN ag = 1 .. y /\ DOMAIN ag2 = 1 .. y
      /\ ag2[1] = z /\ \A j \in 2 .. y : ag2[j] = ag[j]
  <2>1. /\ Len(ag2) = y /\ y \in Nat /\ DOMAIN ag = 1 .. y /\ DOMAIN ag2 = 1 .. y /\ 1 \in DOMAIN ag
        /\ DOMAIN s = 1 .. 1
    BY <1>5 DEF Comes
  <2>2. y >= 1 /\ 1 \in DOMAIN s /\ 1 \in DOMAIN ag2
    BY <2>1
  <2>3. ag2[1] = z
    BY <2>2 DEF Comes
  <2>4. ASSUME NEW j \in 2 .. y PROVE ag2[j] = ag[j]
    <3>1. j \in DOMAIN ag /\ j > 1 /\ j - 1 + 1 = j
      BY <2>1, <2>4
    <3> QED BY <3>1 DEF Comes
  <2> QED BY <2>1, <2>2, <2>3, <2>4
<1>7. AllTrack(core, shared, loc, g, ag2)
  <2>1. Len(ag2) = Len(g.todo)
    BY <1>3, <1>5, <1>6 DEF AllTrack
  <2>2. Tracks(core, shared, loc, g, ag[1], g.todo[1])
    BY <1>3, <1>6 DEF AllTrack
  <2>3. Tracks(core, shared, loc, g, z, g.todo[1])
    BY <2>2 DEF Tracks
  <2>4. ASSUME NEW j \in DOMAIN ag2 PROVE Tracks(core, shared, loc, g, ag2[j], g.todo[j])
    <3>1. CASE j = 1
      BY <1>6, <2>3, <3>1
    <3>2. CASE j # 1
      <4>1. j \in 2 .. y /\ j \in DOMAIN ag
        BY <1>6, <2>4, <3>2
      <4> QED BY <1>3, <1>6, <4>1 DEF AllTrack
    <3> QED BY <3>1, <3>2
  <2> QED BY <2>1, <2>4 DEF AllTrack
<1>8. PICK l : l = Len(g.ids)
  OBVIOUS
<1>9. ~ Hooked(ag) /\ Hooked(ag2)
  <2>1. ag2 # <<>>
    BY <1>6
  <2> QED BY <1>6, <2>1 DEF Hooked
<1>10. l \in Nat /\ nx = l /\ \A x \in Nodes(graph) : cl[x] >= 0 => Registered(g, cl, x)
  BY <1>3, <1>4, <1>8, <1>9, RunFields DEF IdsOK
<1>11. IdsOK(g, ag2, cl2, nx2)
  <2>1. ASSUME NEW x \in Nodes(graph), cl2[x] >= 0
        PROVE  IF Hooked(ag2) /\ ag2[1].n = x /\ ag2[1].tracked THEN cl2[x] = Len(g.ids)
               ELSE Registered(g, cl2, x)
    <3>1. CASE x = z.n /\ z.tracked
      BY <1>6, <1>8, <1>9, <1>10, <2>1, <3>1
    <3>2. CASE ~ (x = z.n /\ z.tracked)
      <4>1. cl2[x] = cl[x]
        BY <2>1, <3>2
      <4>2. Registered(g, cl2, x)
        BY <1>10, <2>1, <4>1 DEF Registered
      <4> QED BY <1>6, <3>2, <4>2
    <3> QED BY <3>1, <3>2
  <2>2. nx2 = Len(g.ids) + 1
    BY <1>8, <1>10
  <2> QED BY <1>9, <2>1, <2>2 DEF IdsOK
<1>12. Matched(core, shared, loc, g, ag2, cl2, nx2, rs, nu)
  BY <1>1, <1>2, <1>7, <1>11 DEF Matched
<1> QED BY <1>1, <1>2, <1>12 DEF Traced

----------------------------------------------------------------------------
(* What depends on the graph and the depth limit alone stays.              *)
LEMMA ValuesStay ==
  ASSUME graph' = graph
  PROVE  /\ Nodes(graph)' = Nodes(graph)
         /\ \A n : Kind(n)' = Kind(n) /\ Kids(n)' = Kids(n)
         /\ \A k, v : MayStandFor(k, v)' <=> MayStandFor(k, v)
<1>1. \A n : Kind(n)' = Kind(n) /\ Kids(n)' = Kids(n)
  BY DEF Kind, Kids
<1>2. Nodes(graph)' = Nodes(graph)
  OBVIOUS
<1>3. \A k : IsLoneReference(k)' <=> IsLoneReference(k)
  BY <1>1 DEF IsLoneReference
<1>4. \A k, v : MayStandFor(k, v)' <=> MayStandFor(k, v)
  BY <1>1, <1>3 DEF MayStandFor
<1> QED BY <1>1, <1>2, <1>4

(* What entities are copies of.                                            *)
LEMMA ContentsStay ==
  ASSUME graph' = graph, NEW nu, NEW g, ContentsOK(nu, g)
  PROVE  ContentsOK(nu, g)'
<1>1. \A m, e : HasBuilt(m, e)' <=> HasBuilt(m, e)
  BY ValuesStay DEF HasBuilt
<1>2. \A m, e : Announced(m, e)' = Announced(m, e)
  BY <1>1, ValuesStay DEF Announced
<1>3. \A kind, n : KindFits(kind, n)' <=> KindFits(kind, n)
  BY ValuesStay DEF KindFits
<1>4. \A m, e, i, d : Right(nu, m, e, i, d)' <=> Right(nu, m, e, i, d)
  BY <1>1, ValuesStay DEF Right
<1>5. \A m, e : EntityOK(nu, m, e)' <=> EntityOK(nu, m, e)
  BY <1>2, <1>3, <1>4, ValuesStay DEF EntityOK
<1> QED BY <1>5 DEF ContentsOK

(* What the tasks are for.                                                 *)
LEMMA TracksStay ==
  ASSUME graph' = graph, maxDepth' = maxDepth, NEW core, NEW shared, NEW loc, NEW g, NEW ag,
         AllTrack(core, shared, loc, g, ag)
  PROVE  AllTrack(core, shared, loc, g, ag)'
<1>1. \A m, e : HasBuilt(m, e)' <=> HasBuilt(m, e)
  BY ValuesStay DEF HasBuilt
<1>2. \A m, k, v : Expects(m, k, v)' <=> Expects(m, k, v)
  BY <1>1, ValuesStay DEF Expects
<1>3. \A m, k, n : ExpectsBuilt(m, k, n)' <=> ExpectsBuilt(m, k, n)
  BY <1>1 DEF ExpectsBuilt
<1>4. \A t, k : Tracks(core, shared, loc, g, t, k)' <=> Tracks(core, shared, loc, g, t, k)
  BY <1>2, <1>3, ValuesStay DEF Tracks
<1> QED BY <1>4 DEF AllTrack

(* The ids.                                                                *)
LEMMA IdsStayOK ==
  ASSUME graph' = graph, NEW g, NEW ag, NEW cl, NEW nx, IdsOK(g, ag, cl, nx)
  PROVE  IdsOK(g, ag, cl, nx)'
<1>1. \A kind, n : HasKind(kind, n)' <=> HasKind(kind, n)
  BY ValuesStay DEF HasKind
<1>2. \A n : Registered(g, cl, n)' <=> Registered(g, cl, n)
  BY <1>1 DEF Registered
<1> QED BY <1>2, ValuesStay DEF IdsOK

(* The run.                                                                *)
LEMMA RunStays ==
  ASSUME maxDepth' = maxDepth, NEW core, NEW shared, NEW R, Run(core, shared, R)
  PROVE  Run(core, shared, R)'
<1>1. \A g : Readable(core, g)' <=> Readable(core, g)
  BY DEF Readable
<1>2. \A g, h : KnownStep(core, g, h)' <=> KnownStep(core, g, h)
  BY <1>1 DEF KnownStep
<1>3. \A g, h : NewStep(core, shared, g, h)' <=> NewStep(core, shared, g, h)
  BY <1>1 DEF NewStep
<1>4. \A g, h : RunStep(core, shared, g, h)' <=> RunStep(core, shared, g, h)
  BY <1>2, <1>3 DEF RunStep
<1> QED BY <1>4 DEF Run

(* What both sides have to do with one another.                            *)
LEMMA MatchStays ==
  ASSUME graph' = graph, maxDepth' = maxDepth, NEW core, NEW shared, NEW loc, NEW g,
         NEW ag, NEW cl, NEW nx, NEW rs, NEW nu, Matched(core, shared, loc, g, ag, cl, nx, rs, nu)
  PROVE  Matched(core, shared, loc, g, ag, cl, nx, rs, nu)'
<1>1. /\ ContentsOK(nu, g) /\ SlotsOK(g) /\ AllTrack(core, shared, loc, g, ag)
      /\ IdsOK(g, ag, cl, nx) /\ g.refs = rs /\ NulledOK(nu) /\ g.ended \subseteq 1 .. Len(core)
  BY DEF Matched
<1>2. ContentsOK(nu, g)' /\ AllTrack(core, shared, loc, g, ag)' /\ IdsOK(g, ag, cl, nx)'
  BY <1>1, ContentsStay, TracksStay, IdsStayOK
<1>3. NulledOK(nu)'
  BY <1>1, ValuesStay DEF NulledOK
<1> QED BY <1>1, <1>2, <1>3 DEF Matched

(* All of it, after a step that changes neither.                           *)
LEMMA TraceStays ==
  ASSUME graph' = graph, maxDepth' = maxDepth, NEW b, NEW ag, NEW cl, NEW nx, NEW rs, NEW nu,
         Traced(b, ag, cl, nx, rs, nu)
  PROVE  Traced(b, ag, cl, nx, rs, nu)'
<1>1. PICK core, shared, loc, R :
        /\ Layout(b, core, shared, loc) /\ Run(core, shared, R)
        /\ Matched(core, shared, loc, Final(R), ag, cl, nx, rs, nu)
  BY DEF Traced
<1>2. PICK g : g = Final(R)
  OBVIOUS
<1>3. Run(core, shared, R)' /\ Matched(core, shared, loc, g, ag, cl, nx, rs, nu)'
  BY <1>1, <1>2, RunStays, MatchStays
<1> QED BY <1>1, <1>2, <1>3 DEF Traced

----------------------------------------------------------------------------
(* The steps of the encoder, as long as nothing went wrong.                *)
TracedNow == Traced(body, agenda, claim, nextId, refsSeen, nulled)

(* What is known when a step is taken.                                     *)
Walking ==
  /\ EncInv /\ KnownAgain /\ agenda # <<>> /\ TracedNow
  /\ graph' = graph /\ maxDepth' = maxDepth

(* A walk that goes on has typed state, and its task is the first of the agenda. *)
LEMMA WalkingTyped ==
  ASSUME Walking
  PROVE  /\ body \in Seq(NodeToken) /\ agenda \in Seq(EncTask) /\ nextId \in Nat /\ refsSeen \in Nat
         /\ claim \in [Nodes(graph) -> {NoEntry, Pending, Unshared} \cup Nat]
         /\ WellFormed(graph) /\ maxDepth \in Nat /\ task = agenda[1] /\ NulledOK(nulled)
         /\ Traced(body, agenda, claim, nextId, refsSeen, nulled)
<1>1. /\ EncInv /\ KnownAgain /\ agenda # <<>>
      /\ Traced(body, agenda, claim, nextId, refsSeen, nulled)
  BY DEF Walking, TracedNow
<1>2. body \in Seq(NodeToken)
  BY <1>1 DEF KnownAgain, TokensNamed
<1>3. agenda \in Seq(EncTask) /\ task = agenda[1]
  BY <1>1, HeadOfAgenda
<1>4. /\ nextId \in Nat /\ refsSeen \in Nat
      /\ claim \in [Nodes(graph) -> {NoEntry, Pending, Unshared} \cup Nat]
  BY <1>1, RestTyped DEF EncRest
<1>5. WellFormed(graph) /\ maxDepth \in Nat
  BY <1>1 DEF EncInv, EncTyped
<1>6. NulledOK(nulled)
  BY <1>1 DEF Traced, Matched
<1> QED BY <1>1, <1>2, <1>3, <1>4, <1>5, <1>6

(* The agenda afterwards.                                                  *)
LEMMA AgendaComes ==
  ASSUME EncInv, agenda # <<>>, NEW s \in Seq(EncTask), s = <<>> \/ s[1].do # "hook",
         NEW ag2, ag2 = s \o Tail(agenda)
  PROVE  Comes(ag2, s, agenda) /\ ~ Hooked(ag2)
<1>1. agenda \in Seq(EncTask)
  BY HeadOfAgenda
<1>2. ag2 \in Seq(EncTask) /\ Comes(ag2, s, agenda)
  BY <1>1, Replaced
<1>3. ASSUME Hooked(ag2) PROVE FALSE
  <2>1. ag2 # <<>> /\ ag2[1].do = "hook"
    BY <1>3 DEF Hooked
  <2>2. 1 \in DOMAIN ag2
    BY <1>2, <2>1
  <2>3. CASE 1 \in DOMAIN s /\ ag2[1] = s[1]
    <3>1. s # <<>>
      BY <2>3
    <3> QED BY <2>1, <2>3, <3>1
  <2>4. CASE 1 - Len(s) + 1 \in DOMAIN agenda /\ 1 - Len(s) + 1 > 1 /\ ag2[1] = agenda[1 - Len(s) + 1]
    <3>1. PICK j : j = 1 - Len(s) + 1
      OBVIOUS
    <3>2. j \in DOMAIN agenda /\ j > 1 /\ agenda[j].do = "hook"
      BY <2>1, <2>4, <3>1
    <3>3. j = 1
      BY <3>2 DEF EncInv, HooksFirst
    <3> QED BY <3>2, <3>3
  <2> QED BY <1>2, <2>2, <2>3, <2>4 DEF Comes
<1> QED BY <1>2, <1>3

(* A step leads where the trace leads.                                     *)
LEMMA NowTraced ==
  ASSUME graph' = graph, maxDepth' = maxDepth, NEW b, NEW ag, NEW cl, NEW nx, NEW rs, NEW nu,
         Traced(b, ag, cl, nx, rs, nu), b = body', ag = agenda', cl = claim', nx = nextId',
         rs = refsSeen', nu = nulled'
  PROVE  TracedNow'
<1>1. Traced(b, ag, cl, nx, rs, nu)'
  BY TraceStays
<1> QED BY <1>1 DEF TracedNow

(* A token for a known value.                                              *)
LEMMA KnownTraces ==
  ASSUME Walking, NEW v, Head1(agenda, v), NEW t \in NodeToken, NEW nu2, nu2 = nulled',
         Knows(t, v, agenda[1], claim, nu2), nulled \subseteq nu2, NulledOK(nu2),
         Allowed(agenda[1], t), Emit(<<t>>), NothingMore,
         NEW cl2, cl2 = claim', NEW nx2, nx2 = nextId',
         GivesBack(agenda[1], claim, nextId, cl2, nx2),
         refsSeen' = refsSeen + (IF t.tag = "ref" /\ Kind(v) = "reference" THEN 1 ELSE 0)
  PROVE  TracedNow'
<1>1. PICK b2 : b2 = body'
  OBVIOUS
<1>2. PICK ag2 : ag2 = agenda'
  OBVIOUS
<1>3. PICK rs2 : rs2 = refsSeen'
  OBVIOUS
<1>4. /\ body \in Seq(NodeToken) /\ agenda \in Seq(EncTask) /\ nextId \in Nat
      /\ WellFormed(graph) /\ maxDepth \in Nat
      /\ Traced(body, agenda, claim, nextId, refsSeen, nulled)
  BY WalkingTyped
<1>5. Comes(ag2, <<>>, agenda) /\ ~ Hooked(ag2)
  <2>1. ag2 = <<>> \o Tail(agenda)
    BY <1>2 DEF NothingMore, Then
  <2>2. <<>> \in Seq(EncTask) /\ EncInv /\ agenda # <<>>
    BY DEF Walking
  <2> QED BY <2>1, <2>2, AgendaComes
<1>6. Continues(b2, body, <<>>, t)
  <2>1. PICK w : w = <<t>>
    OBVIOUS
  <2>2. w \in Seq(NodeToken)
    BY <2>1
  <2>3. <<>> \o w = w
    BY <2>2
  <2>4. b2 = body \o w
    BY <1>1, <2>1 DEF Emit
  <2> QED BY <2>1, <2>3, <2>4 DEF Continues
<1>7. Traced(b2, ag2, cl2, nx2, rs2, nu2)
  BY <1>3, <1>4, <1>5, <1>6, KnownAdvance
<1>8. graph' = graph /\ maxDepth' = maxDepth
  BY DEF Walking
<1> QED BY <1>1, <1>2, <1>3, <1>7, <1>8, NowTraced

(* A token that makes an entity.                                           *)
LEMMA NewTraces ==
  ASSUME Walking, NEW t, TokenFits(t), Begins(agenda, t),
         NEW prefix \in Seq(NodeToken), PrefixOf(prefix, t), NEW marked, marked <=> prefix # <<>>,
         NEW s \in Seq(EncTask), s = <<>> \/ s[1].do # "hook",
         Ended(s, t, marked, Len(body) + 1, refsSeen), Filled(s, t, agenda[1].depth + 1),
         body' = body \o (prefix \o <<t>>), Then(s), nulled' = nulled,
         NEW cl2, cl2 = claim', NEW nx2, nx2 = nextId',
         TakesId(agenda[1], t, claim, nextId, cl2, nx2),
         refsSeen' = refsSeen + (IF t.tag = "new_ref" THEN 1 ELSE 0)
  PROVE  TracedNow'
<1>1. PICK b2 : b2 = body'
  OBVIOUS
<1>2. PICK ag2 : ag2 = agenda'
  OBVIOUS
<1>3. PICK rs2 : rs2 = refsSeen'
  OBVIOUS
<1>4. /\ body \in Seq(NodeToken) /\ WellFormed(graph) /\ maxDepth \in Nat
      /\ Traced(body, agenda, claim, nextId, refsSeen, nulled)
  BY WalkingTyped
<1>5. Comes(ag2, s, agenda) /\ ~ Hooked(ag2)
  <2>1. ag2 = s \o Tail(agenda)
    BY <1>2 DEF Then
  <2>2. EncInv /\ agenda # <<>>
    BY DEF Walking
  <2> QED BY <2>1, <2>2, AgendaComes
<1>6. Continues(b2, body, prefix, t)
  BY <1>1 DEF Continues
<1>7. PICK at : at = Len(body) + 1
  OBVIOUS
<1>8. Traced(b2, ag2, cl2, nx2, rs2, nulled)
  BY <1>3, <1>4, <1>5, <1>6, <1>7, NewAdvance
<1>9. graph' = graph /\ maxDepth' = maxDepth
  BY DEF Walking
<1>10. nulled = nulled'
  OBVIOUS
<1>11. PICK nu : nu = nulled
  OBVIOUS
<1> QED BY <1>1, <1>2, <1>3, <1>8, <1>9, <1>10, <1>11, NowTraced

(* A hook was called within the depth limit.                               *)
LEMMA HookWithin ==
  ASSUME Walking, task.do = "hook"
  PROVE  agenda[1].do = "hook" /\ agenda[1].depth < maxDepth
<1>1. agenda \in Seq(EncTask) /\ task = agenda[1] /\ agenda # <<>>
      /\ Traced(body, agenda, claim, nextId, refsSeen, nulled)
  BY WalkingTyped DEF Walking
<1>2. PICK core, shared, loc, R :
        Matched(core, shared, loc, Final(R), agenda, claim, nextId, refsSeen, nulled)
  BY <1>1 DEF Traced
<1>3. 1 \in DOMAIN agenda
  BY <1>1
<1>4. Tracks(core, shared, loc, Final(R), agenda[1], Final(R).todo[1])
  BY <1>2, <1>3 DEF Matched, AllTrack
<1> QED BY <1>1, <1>4 DEF Tracks

(* Where no token makes an entity.                                         *)
LEMMA KnownStepsTrace ==
  ASSUME Walking,
         EncodeScalar \/ \E n \in Nodes(graph) :
           ArrayRepeat(n) \/ ReferenceRepeat(n) \/ ObjectRepeat(n) \/ HookYieldsNull(n)
  PROVE  TracedNow'
<1>1. /\ agenda \in Seq(EncTask) /\ task = agenda[1] /\ agenda # <<>> /\ NulledOK(nulled)
      /\ claim \in [Nodes(graph) -> {NoEntry, Pending, Unshared} \cup Nat]
      /\ nextId \in Nat /\ refsSeen \in Nat /\ EncInv
      /\ WellFormed(graph)
  BY WalkingTyped DEF Walking
<1>2. PICK nu2 : nu2 = nulled'
  OBVIOUS
<1>3. PICK cl2 : cl2 = claim'
  OBVIOUS
<1>4. PICK nx2 : nx2 = nextId'
  OBVIOUS
<1>5. \A n \in Nodes(graph) : n \in Nat /\ IsNode(n) /\ n # Scalar /\ Kind(n) \in Kinds
  BY <1>1, NodesPositive
<1>6. refsSeen + 0 = refsSeen
  BY <1>1
<1>7. CASE EncodeScalar
  <2>1. PICK t : t = Token("scalar", 0, Scalar)
    OBVIOUS
  <2>2. t \in NodeToken /\ t.tag = "scalar"
    BY <2>1 DEF Token, NodeToken, WireTags, ScalarTags, Scalar
  <2>3. Head1(agenda, Scalar)
    BY <1>1, <1>7 DEF EncodeScalar, IsValue, Head1
  <2>4. Knows(t, Scalar, agenda[1], claim, nu2)
    BY <2>2 DEF Knows
  <2>5. Allowed(agenda[1], t)
    BY <1>1, <1>7, <2>2 DEF EncodeScalar, IsValue, Allowed, ScalarTags
  <2>6. GivesBack(agenda[1], claim, nextId, cl2, nx2)
    BY <1>1, <1>3, <1>4, <1>7 DEF EncodeScalar, IsValue, GivesBack, table
  <2>7. nulled \subseteq nu2 /\ NulledOK(nu2)
    BY <1>1, <1>2, <1>7 DEF EncodeScalar
  <2>8. Emit(<<t>>) /\ NothingMore
    BY <1>7, <2>1 DEF EncodeScalar
  <2>9. refsSeen' = refsSeen + (IF t.tag = "ref" /\ Kind(Scalar) = "reference" THEN 1 ELSE 0)
    BY <1>6, <1>7, <2>2 DEF EncodeScalar
  <2> QED BY <1>2, <1>3, <1>4, <2>2, <2>3, <2>4, <2>5, <2>6, <2>7, <2>8, <2>9, KnownTraces
<1>8. ASSUME NEW n \in Nodes(graph), ArrayRepeat(n) \/ ReferenceRepeat(n) \/ ObjectRepeat(n)
      PROVE  TracedNow'
  <2>1. PICK t : t = RefTo(n)
    OBVIOUS
  <2>2. HasId(n) /\ Visiting(n) /\ UNCHANGED <<table, nulled>> /\ Emit(<<t>>) /\ NothingMore
    BY <1>8, <2>1 DEF ArrayRepeat, ReferenceRepeat, ObjectRepeat, table
  <2>3. t \in NodeToken
    BY <1>1, <2>1, <2>2, TokensAreNamed
  <2>4. t.tag = "ref" /\ t.arg = claim[n]
    BY <2>1 DEF RefTo, Token
  <2>5. Head1(agenda, n) /\ agenda[1].do = "value" /\ agenda[1].depth < maxDepth
    BY <1>1, <2>2 DEF Visiting, IsValue, Head1
  <2>6. claim[n] \in Nat
    BY <1>1, <2>2 DEF HasId, NoEntry, Pending, Unshared
  <2>7. Knows(t, n, agenda[1], claim, nu2)
    BY <2>4, <2>5, <2>6 DEF Knows
  <2>8. Allowed(agenda[1], t)
    BY <2>5 DEF Allowed
  <2>9. GivesBack(agenda[1], claim, nextId, cl2, nx2)
    BY <1>3, <1>4, <2>2, <2>5 DEF GivesBack, table
  <2>10. nulled \subseteq nu2 /\ NulledOK(nu2)
    BY <1>1, <1>2, <2>2
  <2>11. refsSeen' = refsSeen + (IF t.tag = "ref" /\ Kind(n) = "reference" THEN 1 ELSE 0)
    <3>1. CASE ReferenceRepeat(n)
      BY <2>4, <3>1 DEF ReferenceRepeat
    <3>2. CASE ArrayRepeat(n) \/ ObjectRepeat(n)
      <4>1. Kind(n) # "reference" /\ refsSeen' = refsSeen
        BY <3>2 DEF ArrayRepeat, ObjectRepeat, ArrayKinds, ObjectKinds
      <4> QED BY <1>6, <4>1
    <3> QED BY <1>8, <3>1, <3>2
  <2> QED BY <1>2, <1>3, <1>4, <2>2, <2>3, <2>5, <2>7, <2>8, <2>9, <2>10, <2>11, KnownTraces
<1>9. ASSUME NEW n \in Nodes(graph), HookYieldsNull(n)
      PROVE  TracedNow'
  <2>1. PICK t : t = NullFor(n)
    OBVIOUS
  <2>2. t \in NodeToken
    BY <1>5, <2>1, TokensAreNamed
  <2>3. t.tag = "null"
    BY <2>1 DEF NullFor, Token
  <2>4. task.do = "hook" /\ n = task.n /\ Kind(n) \in {"sleep", "legacy"}
    BY <1>9 DEF HookYieldsNull, HookReturned
  <2>5. agenda[1].do = "hook" /\ agenda[1].depth < maxDepth
    BY <2>4, HookWithin
  <2>6. Head1(agenda, n)
    BY <1>1, <2>4 DEF Head1
  <2>7. Allowed(agenda[1], t)
    BY <2>5 DEF Allowed
  <2>8. nu2 = nulled \cup {n}
    BY <1>2, <1>9 DEF HookYieldsNull
  <2>9. nulled \subseteq nu2 /\ NulledOK(nu2) /\ Knows(t, n, agenda[1], claim, nu2)
    BY <1>1, <2>3, <2>4, <2>8 DEF NulledOK, Knows
  <2>10. Emit(<<t>>) /\ NothingMore
    BY <1>9, <2>1 DEF HookYieldsNull
  <2>11. GivesBack(agenda[1], claim, nextId, cl2, nx2)
    <3>1. nx2 = nextId - 1 /\ cl2 = IF agenda[1].tracked THEN [claim EXCEPT ![n] = NoEntry] ELSE claim
      BY <1>1, <1>3, <1>4, <1>9 DEF HookYieldsNull, Unvisit
    <3>2. ASSUME NEW x \in Nodes(graph), cl2[x] >= 0
          PROVE  cl2[x] = claim[x] /\ ~ (agenda[1].n = x /\ agenda[1].tracked)
      BY <1>1, <2>4, <3>1, <3>2 DEF NoEntry
    <3> QED BY <2>5, <3>1, <3>2 DEF GivesBack
  <2>12. refsSeen' = refsSeen + (IF t.tag = "ref" /\ Kind(n) = "reference" THEN 1 ELSE 0)
    BY <1>6, <1>9, <2>3 DEF HookYieldsNull
  <2> QED BY <1>2, <1>3, <1>4, <2>2, <2>6, <2>7, <2>9, <2>10, <2>11, <2>12, KnownTraces
<1> QED BY <1>7, <1>8, <1>9

(* A list of tasks for the contents, and perhaps the end of the walk.      *)
LEMMA ListFills ==
  ASSUME NEW t, TokenFits(t), ~ IsBuilt(t), NEW values, NEW list, NEW depth, NEW rcn, NEW element,
         ListFor(list, values, depth, rcn, element), Len(values) = Len(Kids(t.node)),
         DOMAIN values = 1 .. Len(values),
         \A i \in DOMAIN values : MayStandFor(Kids(t.node)[i], values[i]),
         element => t.tag \notin {"new_ref", "magic"},
         NEW s, NEW marked, NEW at, NEW rs,
         \/ s = list /\ ~ marked /\ t.tag # "magic"
         \/ \E z \in EncTask : s = list \o <<z>> /\ EndsWith(z, t, marked, at, rs)
  PROVE  /\ s \in Seq(EncTask) /\ (s = <<>> \/ s[1].do # "hook")
         /\ Filled(s, t, depth) /\ Ended(s, t, marked, at, rs)
<1>1. PICK m : m = Len(values)
  OBVIOUS
<1>2. t.arg = m /\ m \in Nat /\ t.arg \in Nat /\ DOMAIN values = 1 .. m /\ Len(list) = m
  BY <1>1 DEF TokenFits, ListFor, NodeToken
<1>3. \A i \in 1 .. m : /\ list[i].do = "value" /\ list[i].v = values[i] /\ list[i].depth = depth
                        /\ list[i].element = element
  BY <1>2 DEF ListFor
<1>4. ASSUME NEW u, \A i \in 1 .. m : u[i] = list[i]
      PROVE  Filled(u, t, depth)
  BY <1>2, <1>3, <1>4 DEF Filled
<1>5. CASE s = list /\ ~ marked /\ t.tag # "magic"
  <2>1. s \in Seq(EncTask) /\ Len(s) = m
    BY <1>2, <1>5 DEF ListFor
  <2>2. s = <<>> \/ 1 \in 1 .. m
    BY <1>2, <2>1
  <2>3. s = <<>> \/ s[1].do # "hook"
    BY <1>3, <1>5, <2>2
  <2>4. Filled(s, t, depth)
    BY <1>4, <1>5
  <2> QED BY <1>2, <1>5, <2>1, <2>3, <2>4 DEF Ended
<1>6. ASSUME NEW z \in EncTask, s = list \o <<z>>, EndsWith(z, t, marked, at, rs)
      PROVE  /\ s \in Seq(EncTask) /\ (s = <<>> \/ s[1].do # "hook")
             /\ Filled(s, t, depth) /\ Ended(s, t, marked, at, rs)
  <2>1. /\ s \in Seq(EncTask) /\ Len(s) = m + 1 /\ s[m + 1] = z
        /\ \A i \in 1 .. m : s[i] = list[i]
    BY <1>1, <1>2, <1>6, ListedAnd
  <2>2. z.do # "hook"
    BY <1>6 DEF EndsWith
  <2>3. s[1].do # "hook"
    <3>1. CASE m = 0
      BY <2>1, <2>2, <3>1
    <3>2. CASE m # 0
      <4>1. 1 \in 1 .. m
        BY <1>2, <3>2
      <4> QED BY <1>3, <2>1, <4>1
    <3> QED BY <3>1, <3>2
  <2>4. Filled(s, t, depth)
    BY <1>4, <2>1
  <2> QED BY <1>2, <1>6, <2>1, <2>3, <2>4 DEF Ended
<1> QED BY <1>5, <1>6

(* One token alone.                                                        *)
LEMMA AloneWritten ==
  ASSUME body \in Seq(NodeToken), NEW t \in NodeToken, Emit(<<t>>)
  PROVE  /\ body' = body \o (<<>> \o <<t>>)
         /\ <<>> \in Seq(NodeToken) /\ PrefixOf(<<>>, t)
<1>1. PICK w : w = <<t>>
  OBVIOUS
<1>2. w \in Seq(NodeToken)
  BY <1>1
<1>3. <<>> \o w = w
  BY <1>2
<1>4. body' = body \o w
  BY <1>1 DEF Emit
<1>5. PrefixOf(<<>>, t)
  BY DEF PrefixOf
<1> QED BY <1>1, <1>3, <1>4, <1>5

(* An object or a reference is written, with its contents to follow.       *)
LEMMA EntityTraces ==
  ASSUME Walking, NEW t, TokenFits(t), t.tag # "array", ~ IsBuilt(t), Emit(<<t>>),
         \/ /\ task.do = "value" /\ task.v = t.node /\ task.depth < maxDepth /\ nextId' = nextId + 1
            /\ \A x \in Nodes(graph) : claim'[x] >= 0 =>
                 claim'[x] = claim[x] \/ (x = t.node /\ claim'[x] = nextId)
         \/ task.do = "hook" /\ task.n = t.node /\ UNCHANGED table,
         NEW list, NEW rcn, ListFor(list, Kids(t.node), task.depth + 1, rcn, FALSE),
         NEW s, Then(s),
         \/ s = list /\ t.tag # "magic"
         \/ \E z \in EncTask : s = list \o <<z>> /\ z.do = "release" /\ t.tag \in ObjectTags,
         nulled' = nulled, refsSeen' = refsSeen + (IF t.tag = "new_ref" THEN 1 ELSE 0)
  PROVE  TracedNow'
<1>1. /\ agenda \in Seq(EncTask) /\ task = agenda[1] /\ agenda # <<>> /\ body \in Seq(NodeToken)
      /\ EncInv /\ t \in NodeToken /\ t.node \in Nodes(graph)
  BY WalkingTyped DEF Walking, TokenFits
<1>2. PICK cl2 : cl2 = claim'
  OBVIOUS
<1>3. PICK nx2 : nx2 = nextId'
  OBVIOUS
<1>4. Kids(t.node) \in Seq(Values)
  BY <1>1, GraphTyped
<1>5. PICK values : values = Kids(t.node)
  OBVIOUS
<1>6. /\ DOMAIN values = 1 .. Len(values) /\ Len(values) = Len(Kids(t.node))
      /\ \A i \in DOMAIN values : MayStandFor(Kids(t.node)[i], values[i])
  BY <1>4, <1>5 DEF MayStandFor
<1>7. PICK depth : depth = agenda[1].depth + 1
  OBVIOUS
<1>8. ListFor(list, values, depth, rcn, FALSE)
  BY <1>1, <1>5, <1>7
<1>9. PICK at : at = Len(body) + 1
  OBVIOUS
<1>10. \/ s = list /\ t.tag # "magic"
       \/ \E z \in EncTask : s = list \o <<z>> /\ EndsWith(z, t, FALSE, at, refsSeen)
  BY DEF EndsWith
<1>11. /\ s \in Seq(EncTask) /\ (s = <<>> \/ s[1].do # "hook")
       /\ Filled(s, t, depth) /\ Ended(s, t, FALSE, at, refsSeen)
  BY <1>6, <1>8, <1>10, ListFills
<1>12. Begins(agenda, t) /\ TakesId(agenda[1], t, claim, nextId, cl2, nx2)
  <2>1. CASE task.do = "hook" /\ task.n = t.node /\ UNCHANGED table
    <3>1. agenda[1].depth < maxDepth
      BY <2>1, HookWithin
    <3>2. cl2 = claim /\ nx2 = nextId
      BY <1>2, <1>3, <2>1 DEF table
    <3> QED BY <1>1, <2>1, <3>1, <3>2 DEF Begins, TakesId
  <2>2. ASSUME task.do = "value", task.v = t.node, task.depth < maxDepth, nextId' = nextId + 1,
               \A x \in Nodes(graph) : claim'[x] >= 0 =>
                 claim'[x] = claim[x] \/ (x = t.node /\ claim'[x] = nextId)
        PROVE  Begins(agenda, t) /\ TakesId(agenda[1], t, claim, nextId, cl2, nx2)
    BY <1>1, <1>2, <1>3, <2>2 DEF Begins, TakesId
  <2> QED BY <2>1, <2>2
<1>13. /\ body' = body \o (<<>> \o <<t>>)
       /\ <<>> \in Seq(NodeToken) /\ PrefixOf(<<>>, t)
  BY <1>1, AloneWritten
<1>14. FALSE <=> <<>> # <<>>
  OBVIOUS
<1>15. Ended(s, t, FALSE, Len(body) + 1, refsSeen) /\ Filled(s, t, agenda[1].depth + 1)
  BY <1>7, <1>9, <1>11
<1> QED BY <1>2, <1>3, <1>11, <1>12, <1>13, <1>14, <1>15, NewTraces

(* What a token for the contents of a node is.                             *)
LEMMA WholeToken ==
  ASSUME Walking, NEW n \in Nodes(graph), NEW tag, NEW arg, NEW t, t = Token(tag, arg, n),
         \/ tag = "new_ref" /\ Kind(n) = "reference" /\ arg = 1
         \/ tag = "object" /\ Kind(n) \in ObjectKinds \ {"factory"} /\ arg = Len(Kids(n))
         \/ tag = "leaf" /\ Kind(n) \in {"legacy", "enum"} /\ arg = 0
         \/ tag = "magic" /\ Kind(n) = "magic" /\ arg = 1
  PROVE  /\ TokenFits(t) /\ t.tag = tag /\ t.node = n /\ ~ IsBuilt(t) /\ Len(Kids(n)) = arg
         /\ Kids(n) \in Seq(Nat) /\ \A i \in DOMAIN Kids(n) : Kids(n)[i] \in Nat
<1>1. agenda # <<>> /\ EncInv /\ WellFormed(graph) /\ n \in Nat /\ n \in Nodes(graph)
  BY WalkingTyped, NodesPositive DEF Walking
<1>2. Kids(n) \in Seq(Values) /\ Values \subseteq Nat
  BY <1>1, GraphTyped
<1>3. Kids(n) \in Seq(Nat) /\ Len(Kids(n)) \in Nat /\ \A i \in DOMAIN Kids(n) : Kids(n)[i] \in Nat
  <2>1. PICK k : k = Kids(n)
    OBVIOUS
  <2>2. PICK m \in Nat : k \in [1 .. m -> Values] /\ Len(k) = m
    BY <1>2, <2>1
  <2>3. k \in [1 .. m -> Nat]
    BY <1>2, <2>2
  <2> QED BY <2>1, <2>2, <2>3
<1>4. KidsFitKind(graph, n)
  BY <1>1 DEF WellFormed
<1>5. Len(Kids(n)) = arg
  BY <1>3, <1>4 DEF KidsFitKind, Kind, Kids
<1>6. t.tag = tag /\ t.node = n /\ t.arg = arg
  BY DEF Token
<1>7. t \in NodeToken
  BY <1>1, <1>3, <1>5 DEF NodeToken, Token, WireTags
<1>8. t.tag \in EntityTags /\ KindFits(MadeKind(t.tag), n) /\ ~ IsBuilt(t)
  BY <1>6 DEF EntityTags, ObjectTags, KindFits, MadeKind, IsBuilt, ObjectKinds
<1> QED BY <1>3, <1>5, <1>6, <1>7, <1>8 DEF TokenFits

(* Where an object or a reference is written at once, or after its hook.   *)
LEMMA EntityStepsTrace ==
  ASSUME Walking, NEW n \in Nodes(graph),
         \/ ReferenceNew(n) \/ EncodeSlots(n) \/ EncodeKeyed(n) \/ EncodeEnum(n)
         \/ EncodeHooked(n) \/ EncodeLegacy(n) \/ EncodeMagic(n)
  PROVE  TracedNow'
<1>1. /\ agenda \in Seq(EncTask) /\ task = agenda[1] /\ agenda # <<>> /\ EncInv
      /\ claim \in [Nodes(graph) -> {NoEntry, Pending, Unshared} \cup Nat]
      /\ nextId \in Nat /\ refsSeen \in Nat /\ WellFormed(graph)
  BY WalkingTyped DEF Walking
<1>2. PICK rcn : rcn = (task.do = "value" \/ Kind(n) # "magic")
  OBVIOUS
<1>3. \/ task.do = "value" /\ task.v = n
      \/ task.do = "hook" /\ task.n = n
  BY DEF ReferenceNew, EncodeSlots, EncodeKeyed, EncodeEnum, EncodeHooked, EncodeLegacy, EncodeMagic,
         NewObject, Visiting, IsValue, HookReturned
<1>4. task.depth + 1 \in Nat /\ Kids(n) \in Seq(Values) /\ Values \subseteq Nat
  BY <1>1, <1>3, HeadTyped, GraphTyped
<1>5. \A r \in BOOLEAN, b \in BOOLEAN :
        ListFor(ValueTasks(Kids(n), task.depth + 1, r, b), Kids(n), task.depth + 1, r, FALSE)
  BY <1>4, Listed
<1>6. refsSeen + 0 = refsSeen
  BY <1>1
<1>7. ASSUME ClaimObject(n)
      PROVE  /\ nextId' = nextId + 1
             /\ \A x \in Nodes(graph) : claim'[x] >= 0 =>
                  claim'[x] = claim[x] \/ (x = n /\ claim'[x] = nextId)
  BY <1>1, <1>7 DEF ClaimObject
<1>8. \A held \in Seq(Nat) : ReleaseTask(held) \in EncTask /\ ReleaseTask(held).do = "release"
  BY DEF ReleaseTask, EncTask
<1>9. CASE ReferenceNew(n)
  <2>1. PICK t : t = Token("new_ref", 1, n)
    OBVIOUS
  <2>2. TokenFits(t) /\ t.tag = "new_ref" /\ t.node = n /\ ~ IsBuilt(t)
    BY <1>9, <2>1, WholeToken DEF ReferenceNew
  <2>3. PICK s : s = ValueTasks(Kids(n), task.depth + 1, TRUE, FALSE)
    OBVIOUS
  <2>4. ListFor(s, Kids(t.node), task.depth + 1, TRUE, FALSE)
    BY <1>5, <2>2, <2>3
  <2>5. /\ task.do = "value" /\ task.v = t.node /\ task.depth < maxDepth /\ nextId' = nextId + 1
        /\ \A x \in Nodes(graph) : claim'[x] >= 0 =>
             claim'[x] = claim[x] \/ (x = t.node /\ claim'[x] = nextId)
    BY <1>1, <1>9, <2>2 DEF ReferenceNew, Visiting, IsValue, Claim
  <2>6. Emit(<<t>>) /\ Then(s) /\ nulled' = nulled
    BY <1>9, <2>1, <2>3 DEF ReferenceNew
  <2>7. refsSeen' = refsSeen + (IF t.tag = "new_ref" THEN 1 ELSE 0)
    BY <1>9, <2>2 DEF ReferenceNew
  <2> QED BY <2>2, <2>4, <2>5, <2>6, <2>7, EntityTraces
<1>10. CASE EncodeSlots(n) \/ EncodeKeyed(n)
  <2>1. PICK t : t = Token("object", Len(Kids(n)), n)
    OBVIOUS
  <2>2. ClaimObject(n) /\ Emit(<<t>>) /\ nulled' = nulled /\ refsSeen' = refsSeen
        /\ Kind(n) \in {"slots", "keyed"}
        /\ task.do = "value" /\ task.v = n /\ task.depth < maxDepth
    BY <1>10, <2>1 DEF EncodeSlots, EncodeKeyed, NewObject, Visiting, IsValue
  <2>3. TokenFits(t) /\ t.tag = "object" /\ t.node = n /\ ~ IsBuilt(t) /\ Kids(n) \in Seq(Nat)
    BY <2>1, <2>2, WholeToken DEF ObjectKinds
  <2>4. /\ task.do = "value" /\ task.v = t.node /\ task.depth < maxDepth /\ nextId' = nextId + 1
        /\ \A x \in Nodes(graph) : claim'[x] >= 0 =>
             claim'[x] = claim[x] \/ (x = t.node /\ claim'[x] = nextId)
    BY <1>7, <2>2, <2>3
  <2>5. refsSeen' = refsSeen + (IF t.tag = "new_ref" THEN 1 ELSE 0)
    BY <1>6, <2>2, <2>3
  <2>6. CASE EncodeSlots(n)
    <3>1. PICK list : list = ValueTasks(Kids(n), task.depth + 1, TRUE, TRUE)
      OBVIOUS
    <3>2. PICK z \in EncTask : z = ReleaseTask(Kids(n)) /\ z.do = "release"
      BY <1>8, <2>3
    <3>3. PICK s : s = list \o <<z>>
      OBVIOUS
    <3>4. Then(s)
      BY <2>6, <3>1, <3>2, <3>3 DEF EncodeSlots
    <3>5. ListFor(list, Kids(t.node), task.depth + 1, TRUE, FALSE)
      BY <1>5, <2>3, <3>1
    <3>6. \E y \in EncTask : s = list \o <<y>> /\ y.do = "release" /\ t.tag \in ObjectTags
      BY <2>3, <3>2, <3>3 DEF ObjectTags
    <3> QED BY <2>2, <2>3, <2>4, <2>5, <3>4, <3>5, <3>6, EntityTraces
  <2>7. CASE EncodeKeyed(n)
    <3>1. PICK s : s = ValueTasks(Kids(n), task.depth + 1, TRUE, FALSE)
      OBVIOUS
    <3>2. Then(s)
      BY <2>7, <3>1 DEF EncodeKeyed
    <3>3. ListFor(s, Kids(t.node), task.depth + 1, TRUE, FALSE)
      BY <1>5, <2>3, <3>1
    <3> QED BY <2>2, <2>3, <2>4, <2>5, <3>2, <3>3, EntityTraces
  <2> QED BY <1>10, <2>6, <2>7
<1>11. CASE EncodeEnum(n) \/ EncodeLegacy(n)
  <2>1. PICK t : t = Token("leaf", 0, n)
    OBVIOUS
  <2>2. Emit(<<t>>) /\ nulled' = nulled /\ refsSeen' = refsSeen /\ Kind(n) \in {"enum", "legacy"}
        /\ NothingMore
    BY <1>11, <2>1 DEF EncodeEnum, EncodeLegacy, NewObject, HookReturned
  <2>3. TokenFits(t) /\ t.tag = "leaf" /\ t.node = n /\ ~ IsBuilt(t) /\ Len(Kids(n)) = 0
    BY <2>1, <2>2, WholeToken
  <2>4. \/ /\ task.do = "value" /\ task.v = t.node /\ task.depth < maxDepth /\ nextId' = nextId + 1
           /\ \A x \in Nodes(graph) : claim'[x] >= 0 =>
                claim'[x] = claim[x] \/ (x = t.node /\ claim'[x] = nextId)
        \/ task.do = "hook" /\ task.n = t.node /\ UNCHANGED table
    <3>1. CASE EncodeEnum(n)
      <4>1. ClaimObject(n) /\ task.do = "value" /\ task.v = n /\ task.depth < maxDepth
        BY <3>1 DEF EncodeEnum, NewObject, Visiting, IsValue
      <4> QED BY <1>7, <2>3, <4>1
    <3>2. CASE EncodeLegacy(n)
      BY <2>3, <3>2 DEF EncodeLegacy, HookReturned
    <3> QED BY <1>11, <3>1, <3>2
  <2>5. PICK s : s = <<>>
    OBVIOUS
  <2>6. Then(s)
    BY <2>2, <2>5 DEF NothingMore
  <2>7. ListFor(s, Kids(t.node), task.depth + 1, TRUE, FALSE)
    <3>1. Kids(n) = <<>>
      BY <1>4, <2>3
    <3> QED BY <2>3, <2>5, <3>1 DEF ListFor
  <2>8. refsSeen' = refsSeen + (IF t.tag = "new_ref" THEN 1 ELSE 0)
    BY <1>6, <2>2, <2>3
  <2> QED BY <2>2, <2>3, <2>4, <2>6, <2>7, <2>8, EntityTraces
<1>12. ASSUME NEW t, Emit(<<t>>), TokenFits(t), t.tag \in {"object", "magic"}, t.node = n, ~ IsBuilt(t),
              task.do = "hook", UNCHANGED table, nulled' = nulled, refsSeen' = refsSeen,
              NEW r \in BOOLEAN, NEW b \in BOOLEAN, NEW held \in Seq(Nat),
              Then(ValueTasks(Kids(n), task.depth + 1, r, b) \o <<ReleaseTask(held)>>)
       PROVE  TracedNow'
  <2>1. PICK list : list = ValueTasks(Kids(n), task.depth + 1, r, b)
    OBVIOUS
  <2>2. PICK z \in EncTask : z = ReleaseTask(held) /\ z.do = "release"
    BY <1>8
  <2>3. PICK s : s = list \o <<z>>
    OBVIOUS
  <2>4. Then(s)
    BY <1>12, <2>1, <2>2, <2>3
  <2>5. ListFor(list, Kids(t.node), task.depth + 1, r, FALSE)
    BY <1>5, <1>12, <2>1
  <2>6. \E y \in EncTask : s = list \o <<y>> /\ y.do = "release" /\ t.tag \in ObjectTags
    BY <1>12, <2>2, <2>3 DEF ObjectTags
  <2>7. refsSeen' = refsSeen + (IF t.tag = "new_ref" THEN 1 ELSE 0)
    BY <1>6, <1>12
  <2>8. task.n = t.node /\ t.tag # "array"
    BY <1>3, <1>12
  <2> QED BY <1>12, <2>4, <2>5, <2>6, <2>7, <2>8, EntityTraces
<1>13. CASE EncodeHooked(n)
  <2>1. PICK t : t = Token("object", Len(Kids(n)), n)
    OBVIOUS
  <2>2. PICK b \in BOOLEAN : b = (Kind(n) = "sleep")
    OBVIOUS
  <2>3. PICK held : held = IF Kind(n) = "sleep" THEN Kids(n) ELSE <<>>
    OBVIOUS
  <2>4. Emit(<<t>>) /\ nulled' = nulled /\ refsSeen' = refsSeen /\ Kind(n) \in {"sleep", "lazy"}
        /\ task.do = "hook" /\ UNCHANGED table
        /\ Then(ValueTasks(Kids(n), task.depth + 1, TRUE, b) \o <<ReleaseTask(held)>>)
    BY <1>13, <2>1, <2>2, <2>3 DEF EncodeHooked, HookReturned
  <2>5. TokenFits(t) /\ t.tag = "object" /\ t.node = n /\ ~ IsBuilt(t) /\ Kids(n) \in Seq(Nat)
    BY <2>1, <2>4, WholeToken DEF ObjectKinds
  <2>6. held \in Seq(Nat)
    BY <2>3, <2>5
  <2> QED BY <1>12, <2>2, <2>4, <2>5, <2>6
<1>14. CASE EncodeMagic(n)
  <2>1. PICK t : t = Token("magic", 1, n)
    OBVIOUS
  <2>2. Emit(<<t>>) /\ nulled' = nulled /\ refsSeen' = refsSeen /\ Kind(n) = "magic"
        /\ task.do = "hook" /\ UNCHANGED table
        /\ Then(ValueTasks(Kids(n), task.depth + 1, FALSE, TRUE) \o <<ReleaseTask(Kids(n))>>)
    BY <1>14, <2>1 DEF EncodeMagic, HookReturned
  <2>3. TokenFits(t) /\ t.tag = "magic" /\ t.node = n /\ ~ IsBuilt(t) /\ Kids(n) \in Seq(Nat)
    BY <2>1, <2>2, WholeToken
  <2> QED BY <1>12, <2>2, <2>3
<1> QED BY <1>9, <1>10, <1>11, <1>13, <1>14

(* In a private copy a reference nobody else holds is its value.           *)
LEMMA DupStandsFor ==
  ASSUME EncInv, agenda # <<>>, NEW n \in Nodes(graph), NEW values, values = Dup(n)
  PROVE  /\ values \in Seq(Values) /\ Len(values) = Len(Kids(n))
         /\ \A i \in DOMAIN values : MayStandFor(Kids(n)[i], values[i])
<1>1. /\ Nodes(graph) \subseteq Nat /\ Values \subseteq Nat /\ Kids(n) \in Seq(Values)
      /\ \A k \in Nodes(graph) : Kind(k) = "reference" => Kids(k)[1] \in Values
  BY GraphTyped
<1>2. PICK kids : kids = Kids(n)
  OBVIOUS
<1>3. PICK m \in Nat : kids \in [1 .. m -> Values] /\ Len(kids) = m
  BY <1>1, <1>2
<1>4. ASSUME NEW i \in 1 .. m
      PROVE  DupKid(n, kids[i]) \in Values /\ MayStandFor(kids[i], DupKid(n, kids[i]))
  <2>1. PICK k \in Values : k = kids[i]
    BY <1>3, <1>4
  <2>2. CASE IsNode(k) /\ Kind(k) = "reference" /\ Refcount(k) = 1 /\ Kids(k)[1] # n
    <3>1. k \in Nodes(graph)
      BY <2>2 DEF IsNode, Values, Scalar
    <3>2. DupKid(n, k) = Kids(k)[1] /\ Kids(k)[1] \in Values
      BY <1>1, <2>2, <3>1 DEF DupKid
    <3>3. <<n, i>> \in KidPositions(graph, k)
      <4>1. n \in Nodes(graph) /\ i \in DOMAIN graph.kids[n] /\ graph.kids[n][i] = k
        BY <1>2, <1>3, <2>1 DEF Kids
      <4> QED BY <4>1 DEF KidPositions
    <3>4. OwnRefcount(graph, k) \in Nat /\ OwnRefcount(graph, k) >= 1
      BY <3>3, HeldByOne
    <3>5. hold[k] \in Nat
      BY <3>1, HeadOfAgenda
    <3>6. OwnRefcount(graph, k) = 1
      <4>1. PICK a, h, p : a = OwnRefcount(graph, k) /\ h = hold[k]
                           /\ p = IF pinsActive /\ claim[k] # NoEntry THEN 1 ELSE 0
        OBVIOUS
      <4>2. a + h + p = 1
        BY <2>2, <4>1 DEF Refcount
      <4> QED BY <3>4, <3>5, <4>1, <4>2
    <3>7. IsLoneReference(k)
      BY <2>2, <3>6 DEF IsLoneReference
    <3> QED BY <2>1, <2>2, <3>2, <3>7 DEF MayStandFor
  <2>3. CASE ~ (IsNode(k) /\ Kind(k) = "reference" /\ Refcount(k) = 1 /\ Kids(k)[1] # n)
    BY <2>1, <2>3 DEF DupKid, MayStandFor
  <2> QED BY <2>2, <2>3
<1>5. values = [i \in 1 .. m |-> DupKid(n, kids[i])]
  BY <1>2, <1>3 DEF Dup
<1>6. values \in [1 .. m -> Values] /\ DOMAIN values = 1 .. m
  BY <1>4, <1>5
<1>7. values \in Seq(Values) /\ Len(values) = m
  BY <1>3, <1>6
<1>8. \A i \in DOMAIN values : MayStandFor(kids[i], values[i])
  BY <1>4, <1>5, <1>6
<1> QED BY <1>2, <1>3, <1>7, <1>8

(* A walk of an array, in its parts.                                       *)
WalksOver(n, claiming, values, prefix, t, list, rcn, z) ==
  /\ claiming \in BOOLEAN /\ values \in Seq(Values) /\ Len(values) = Len(Kids(n))
  /\ \A i \in DOMAIN values : MayStandFor(Kids(n)[i], values[i])
  /\ prefix = (IF claiming THEN <<Token("shared", 0, n)>> ELSE <<>>)
  /\ t = Token("array", Len(values), n)
  /\ ListFor(list, values, task.depth + 1, rcn, TRUE)
  /\ z \in EncTask /\ z.do = "arrayDone" /\ z.n = n /\ z.claimed = claiming
  /\ z.at = Len(body) + 1 /\ z.refs = refsSeen
  /\ claim' = (IF claiming THEN [claim EXCEPT ![n] = Pending] ELSE claim)
  /\ Emit(prefix \o <<t>>) /\ Then(list \o <<z>>)

(* A walk of an array is its prefix, its token, its values and its end.      *)
LEMMA WalkParts ==
  ASSUME EncInv, NEW n \in Nodes(graph), ArrayWalk(n)
  PROVE  \E claiming, values, prefix, t, list, rcn, z :
           WalksOver(n, claiming, values, prefix, t, list, rcn, z)
<1>1. agenda # <<>> /\ task.do = "value" /\ n = task.v
  BY DEF ArrayWalk, Visiting, IsValue
<1>2. n \in Nat /\ Values \subseteq Nat /\ Kids(n) \in Seq(Values) /\ Nodes(graph) \subseteq Nat
  BY <1>1, GraphTyped
<1>3. task.depth + 1 \in Nat /\ task.rcn \in BOOLEAN
  BY <1>1, HeadTyped
<1>4. PICK claiming \in BOOLEAN : claiming = (WorthClaiming(n) /\ claim[n] \in {NoEntry, Unshared})
  OBVIOUS
<1>5. PICK values : values = IF WalksDup(n) THEN Dup(n) ELSE Kids(n)
  OBVIOUS
<1>6. PICK copied : copied = IF WalksDup(n) THEN values ELSE <<>>
  OBVIOUS
<1>7. PICK locked : locked = IF IsImmutable(n) THEN copied ELSE copied \o <<n>>
  OBVIOUS
<1>8. PICK z : z = ArrayDoneTask(n, locked, claiming)
  OBVIOUS
<1>9. PICK rcn \in BOOLEAN : rcn = (task.rcn \/ IsShared(n))
  OBVIOUS
<1>10. PICK borrowed \in BOOLEAN : borrowed = WalksDup(n)
  BY DEF WalksDup
<1>11. PICK list : list = ElementTasks(values, task.depth + 1, rcn, borrowed)
  OBVIOUS
<1>12. PICK prefix : prefix = IF claiming THEN <<Token("shared", 0, n)>> ELSE <<>>
  OBVIOUS
<1>13. PICK t : t = Token("array", Len(values), n)
  OBVIOUS
<1>14. /\ claim' = (IF claiming THEN [claim EXCEPT ![n] = Pending] ELSE claim)
       /\ Emit(prefix \o <<t>>) /\ Then(list \o <<z>>)
  BY <1>4, <1>5, <1>6, <1>7, <1>8, <1>9, <1>10, <1>11, <1>12, <1>13 DEF ArrayWalk
<1>15. /\ values \in Seq(Values) /\ Len(values) = Len(Kids(n))
       /\ \A i \in DOMAIN values : MayStandFor(Kids(n)[i], values[i])
  <2>1. CASE WalksDup(n)
    BY <1>1, <1>5, <2>1, DupStandsFor
  <2>2. CASE ~ WalksDup(n)
    BY <1>2, <1>5, <2>2 DEF MayStandFor
  <2> QED BY <2>1, <2>2
<1>16. locked \in Seq(Nat)
  <2>1. values \in Seq(Nat)
    BY <1>2, <1>15, SeqMonotonic
  <2>2. <<n>> \in Seq(Nat) /\ copied \in Seq(Nat)
    BY <1>2, <1>6, <2>1
  <2> QED BY <1>7, <2>2, ConcatProperties
<1>17. ListFor(list, values, task.depth + 1, rcn, TRUE)
  BY <1>2, <1>3, <1>11, <1>15, Listed
<1>18. /\ z \in EncTask /\ z.do = "arrayDone" /\ z.n = n /\ z.claimed = claiming
       /\ z.at = Len(body) + 1 /\ z.refs = refsSeen
  <2>1. Len(body) + 1 \in Nat /\ refsSeen \in Nat
    BY RestTyped, LenProperties DEF EncRest, EncInv, EncTyped
  <2> QED BY <1>2, <1>8, <1>16, <2>1 DEF ArrayDoneTask, EncTask
<1>19. WalksOver(n, claiming, values, prefix, t, list, rcn, z)
  BY <1>12, <1>13, <1>14, <1>15, <1>17, <1>18 DEF WalksOver
<1> QED BY <1>19

(* The walk of an array begins.                                            *)
LEMMA ArrayStepTraces ==
  ASSUME Walking, NEW n \in Nodes(graph), ArrayWalk(n)
  PROVE  TracedNow'
<1>1. /\ agenda \in Seq(EncTask) /\ task = agenda[1] /\ agenda # <<>> /\ EncInv
      /\ claim \in [Nodes(graph) -> {NoEntry, Pending, Unshared} \cup Nat]
      /\ nextId \in Nat /\ refsSeen \in Nat /\ WellFormed(graph) /\ body \in Seq(NodeToken)
  BY WalkingTyped DEF Walking
<1>2. n \in Nat /\ Values \subseteq Nat
  BY <1>1, GraphTyped, NodesPositive
<1>3. /\ task.do = "value" /\ task.v = n /\ task.depth < maxDepth /\ Kind(n) \in ArrayKinds
      /\ nulled' = nulled /\ nextId' = nextId /\ refsSeen' = refsSeen
  BY DEF ArrayWalk, Visiting, IsValue
<1>4. PICK claiming, values, prefix, t, list, rcn, z :
        WalksOver(n, claiming, values, prefix, t, list, rcn, z)
  BY <1>1, WalkParts
<1>5. /\ claiming \in BOOLEAN /\ values \in Seq(Values) /\ Len(values) = Len(Kids(n))
      /\ \A i \in DOMAIN values : MayStandFor(Kids(n)[i], values[i])
      /\ prefix = (IF claiming THEN <<Token("shared", 0, n)>> ELSE <<>>)
      /\ t = Token("array", Len(values), n)
      /\ ListFor(list, values, task.depth + 1, rcn, TRUE)
  BY <1>4 DEF WalksOver
<1>6. /\ z \in EncTask /\ z.do = "arrayDone" /\ z.n = n /\ z.claimed = claiming
      /\ z.at = Len(body) + 1 /\ z.refs = refsSeen
      /\ claim' = (IF claiming THEN [claim EXCEPT ![n] = Pending] ELSE claim)
      /\ Emit(prefix \o <<t>>) /\ Then(list \o <<z>>)
  BY <1>4 DEF WalksOver
<1>7. t.tag = "array" /\ t.node = n /\ t.arg = Len(Kids(n)) /\ t \in NodeToken
  <2>1. Len(values) \in Nat
    BY <1>5
  <2> QED BY <1>2, <1>5, <2>1 DEF Token, NodeToken, WireTags
<1>8. TokenFits(t) /\ ~ IsBuilt(t)
  BY <1>3, <1>7 DEF TokenFits, IsBuilt, EntityTags, ObjectTags, KindFits, MadeKind, ArrayKinds
<1>9. prefix \in Seq(NodeToken) /\ PrefixOf(prefix, t) /\ (claiming <=> prefix # <<>>)
  <2>1. Token("shared", 0, n) \in NodeToken /\ Token("shared", 0, n).tag = "shared"
    BY <1>2 DEF Token, NodeToken, WireTags
  <2>2. CASE claiming
    <3>1. PICK w : w = Token("shared", 0, n)
      OBVIOUS
    <3>2. prefix = <<w>> /\ w \in NodeToken /\ w.tag = "shared"
      BY <1>5, <2>1, <2>2, <3>1
    <3>3. prefix \in Seq(NodeToken) /\ Len(prefix) = 1 /\ prefix[1] = w /\ prefix # <<>>
      BY <3>2
    <3> QED BY <1>7, <2>2, <3>2, <3>3 DEF PrefixOf
  <2>3. CASE ~ claiming
    BY <1>5, <2>3 DEF PrefixOf
  <2> QED BY <1>5, <2>2, <2>3
<1>10. PICK s : s = list \o <<z>>
  OBVIOUS
<1>11. PICK at : at = Len(body) + 1
  OBVIOUS
<1>12. PICK depth : depth = agenda[1].depth + 1
  OBVIOUS
<1>13. EndsWith(z, t, claiming, at, refsSeen)
  BY <1>6, <1>7, <1>11 DEF EndsWith
<1>14. /\ s \in Seq(EncTask) /\ (s = <<>> \/ s[1].do # "hook")
       /\ Filled(s, t, depth) /\ Ended(s, t, claiming, at, refsSeen)
  <2>1. ListFor(list, values, depth, rcn, TRUE)
    BY <1>1, <1>5, <1>12
  <2>2. \E y \in EncTask : s = list \o <<y>> /\ EndsWith(y, t, claiming, at, refsSeen)
    BY <1>6, <1>10, <1>13
  <2>3. DOMAIN values = 1 .. Len(values) /\ Len(values) = Len(Kids(t.node))
    BY <1>5, <1>7
  <2>4. \A i \in DOMAIN values : MayStandFor(Kids(t.node)[i], values[i])
    BY <1>5, <1>7
  <2> QED BY <1>7, <1>8, <2>1, <2>2, <2>3, <2>4, ListFills
<1>15. PICK cl2 : cl2 = claim'
  OBVIOUS
<1>16. PICK nx2 : nx2 = nextId'
  OBVIOUS
<1>17. Begins(agenda, t)
  BY <1>1, <1>3, <1>7 DEF Begins
<1>18. TakesId(agenda[1], t, claim, nextId, cl2, nx2)
  <2>1. \A x \in Nodes(graph) : cl2[x] >= 0 => cl2[x] = claim[x]
    BY <1>1, <1>6, <1>15 DEF Pending
  <2> QED BY <1>1, <1>3, <1>7, <1>16, <2>1 DEF TakesId
<1>19. body' = body \o (prefix \o <<t>>) /\ Then(s)
  BY <1>6, <1>10 DEF Emit
<1>20. refsSeen' = refsSeen + (IF t.tag = "new_ref" THEN 1 ELSE 0)
  BY <1>1, <1>3, <1>7
<1>21. Ended(s, t, claiming, Len(body) + 1, refsSeen) /\ Filled(s, t, agenda[1].depth + 1)
  BY <1>11, <1>12, <1>14
<1> QED BY <1>3, <1>8, <1>9, <1>14, <1>15, <1>16, <1>17, <1>18, <1>19, <1>20, <1>21, NewTraces

(* Steps after which the same is written: a hook is called.                *)
LEMMA CallTraces ==
  ASSUME Walking, NEW n \in Nodes(graph), CallHook(n)
  PROVE  TracedNow'
<1>1. /\ agenda \in Seq(EncTask) /\ task = agenda[1] /\ agenda # <<>> /\ EncInv
      /\ claim \in [Nodes(graph) -> {NoEntry, Pending, Unshared} \cup Nat]
      /\ nextId \in Nat /\ body \in Seq(NodeToken)
      /\ Traced(body, agenda, claim, nextId, refsSeen, nulled)
      /\ graph' = graph /\ maxDepth' = maxDepth
  BY WalkingTyped DEF Walking
<1>2. /\ task.do = "value" /\ task.v = n /\ task.depth < maxDepth
      /\ body' = body /\ refsSeen' = refsSeen /\ nulled' = nulled
  BY DEF CallHook, NewObject, Visiting, IsValue
<1>3. PICK z : z = HookTask(n)
  OBVIOUS
<1>4. z \in EncTask /\ z.do = "hook" /\ z.n = n /\ z.depth = task.depth /\ z.tracked = IsTracked(n)
  <2>1. n \in Nat /\ task.depth \in Nat /\ task.rcn \in BOOLEAN
    BY <1>1, <1>2, GraphTyped, HeadTyped
  <2> QED BY <1>3, <2>1 DEF HookTask, EncTask, IsTracked
<1>5. PICK s : s = <<z>>
  OBVIOUS
<1>6. s \in Seq(EncTask) /\ Len(s) = 1 /\ s[1] = z
  BY <1>4, <1>5
<1>7. PICK ag2 : ag2 = agenda'
  OBVIOUS
<1>8. Comes(ag2, s, agenda)
  <2>1. ag2 = s \o Tail(agenda)
    BY <1>3, <1>5, <1>7 DEF CallHook, Then
  <2> QED BY <1>1, <1>6, <2>1, Replaced
<1>9. PICK cl2 : cl2 = claim'
  OBVIOUS
<1>10. PICK nx2 : nx2 = nextId'
  OBVIOUS
<1>11. nx2 = nextId + 1 /\ cl2 = IF z.tracked THEN [claim EXCEPT ![n] = nextId] ELSE claim
  BY <1>4, <1>9, <1>10 DEF CallHook, ClaimObject
<1>12. \A x \in Nodes(graph) : cl2[x] >= 0 =>
         IF x = z.n /\ z.tracked THEN cl2[x] = nextId ELSE cl2[x] = claim[x]
  BY <1>1, <1>4, <1>11
<1>13. Traced(body, ag2, cl2, nx2, refsSeen, nulled)
  <2>1. agenda[1].do = "value" /\ agenda[1].depth < maxDepth /\ z.do = "hook" /\ z.n = agenda[1].v
        /\ z.depth = agenda[1].depth
    <3>1. z.do = "hook" /\ z.n = n /\ z.depth = task.depth
      BY <1>4
    <3>2. task = agenda[1]
      BY <1>1
    <3> QED BY <1>2, <3>1, <3>2
  <2>2. /\ body \in Seq(NodeToken) /\ nextId \in Nat
        /\ Traced(body, agenda, claim, nextId, refsSeen, nulled)
    BY <1>1
  <2>3. Len(s) = 1 /\ s[1] = z
    BY <1>6
  <2>4. nx2 = nextId + 1
    BY <1>11
  <2> QED BY <1>8, <1>12, <2>1, <2>2, <2>3, <2>4, HookAdvance
<1>14. PICK b, rs, nu : b = body /\ rs = refsSeen /\ nu = nulled
  OBVIOUS
<1>15. Traced(b, ag2, cl2, nx2, rs, nu)
  BY <1>13, <1>14
<1>16. b = body' /\ rs = refsSeen' /\ nu = nulled'
  BY <1>2, <1>14
<1> QED BY <1>1, <1>7, <1>9, <1>10, <1>15, <1>16, NowTraced

(* A walk or a snapshot ends.                                              *)
LEMMA EndStepsTrace ==
  ASSUME Walking, ArrayDone \/ ReleaseSnapshot
  PROVE  TracedNow'
<1>1. /\ agenda \in Seq(EncTask) /\ task = agenda[1] /\ agenda # <<>> /\ EncInv /\ KnownAgain
      /\ claim \in [Nodes(graph) -> {NoEntry, Pending, Unshared} \cup Nat]
      /\ nextId \in Nat /\ body \in Seq(NodeToken) /\ WellFormed(graph)
      /\ Traced(body, agenda, claim, nextId, refsSeen, nulled)
      /\ graph' = graph /\ maxDepth' = maxDepth /\ 1 \in DOMAIN agenda
  BY WalkingTyped, HeadOfAgenda DEF Walking
<1>2. /\ task.do \in {"arrayDone", "release"} /\ refsSeen' = refsSeen /\ nulled' = nulled
      /\ NothingMore
  BY DEF ArrayDone, ReleaseSnapshot
<1>3. PICK ag2 : ag2 = agenda'
  OBVIOUS
<1>4. Comes(ag2, <<>>, agenda) /\ ~ Hooked(ag2)
  <2>1. ag2 = <<>> \o Tail(agenda)
    BY <1>2, <1>3 DEF NothingMore, Then
  <2>2. <<>> \in Seq(EncTask)
    OBVIOUS
  <2> QED BY <1>1, <2>1, <2>2, AgendaComes
<1>5. PICK cl2 : cl2 = claim'
  OBVIOUS
<1>6. PICK nx2 : nx2 = nextId'
  OBVIOUS
<1>7. PICK b2 : b2 = body'
  OBVIOUS
<1>8. InnerFirst(agenda)
  <2> SUFFICES ASSUME NEW j \in DOMAIN agenda, j > 1, agenda[1].do = "arrayDone",
                      agenda[j].do = "arrayDone"
               PROVE  agenda[j].at < agenda[1].at
    BY DEF InnerFirst
  <2> QED BY <1>1 DEF EncInv, WalksNest
<1>9. Finishes(agenda[1], refsSeen, claim, nextId, body, cl2, nx2, b2)
  <2>1. CASE ReleaseSnapshot
    BY <1>1, <1>5, <1>6, <1>7, <2>1 DEF ReleaseSnapshot, Finishes, table
  <2>2. CASE ArrayDone /\ ~ task.claimed
    BY <1>1, <1>5, <1>6, <1>7, <2>2 DEF ArrayDone, Finishes, table
  <2>3. CASE ArrayDone /\ task.claimed
    <3>1. task.do = "arrayDone" /\ Kind(task.n) \in ArrayKinds /\ task.n \in Nodes(graph)
      <4>1. task.do = "arrayDone"
        BY <2>3 DEF ArrayDone
      <4> QED BY <1>1, <4>1, HeadTyped DEF KnownAgain, WalksAndHooks
    <3>2. CASE refsSeen = task.refs
      <4>1. cl2 = [claim EXCEPT ![task.n] = nextId] /\ nx2 = nextId + 1 /\ b2 = body
        BY <1>5, <1>6, <1>7, <2>3, <3>2 DEF ArrayDone, Claim
      <4>2. \A x \in Nodes(graph) : cl2[x] >= 0 =>
              cl2[x] = claim[x] \/ (x = task.n /\ cl2[x] = nextId)
        BY <1>1, <3>1, <4>1
      <4> QED BY <1>1, <2>3, <3>1, <3>2, <4>1, <4>2 DEF Finishes
    <3>3. CASE refsSeen # task.refs
      <4>1. cl2 = [claim EXCEPT ![task.n] = Unshared] /\ nx2 = nextId /\ b2 = Cut(body, task.at)
        BY <1>5, <1>6, <1>7, <2>3, <3>3 DEF ArrayDone, WithoutToken, Cut
      <4>2. \A x \in Nodes(graph) : cl2[x] >= 0 => cl2[x] = claim[x]
        BY <1>1, <3>1, <4>1 DEF Unshared
      <4> QED BY <1>1, <2>3, <3>1, <3>3, <4>1, <4>2 DEF Finishes
    <3> QED BY <3>2, <3>3
  <2> QED BY <2>1, <2>2, <2>3
<1>10. agenda[1].do \in {"arrayDone", "release"}
  BY <1>1, <1>2
<1>11. Traced(b2, ag2, cl2, nx2, refsSeen, nulled)
  BY <1>1, <1>4, <1>8, <1>9, <1>10, CloseAdvance
<1>12. PICK rs, nu : rs = refsSeen /\ nu = nulled
  OBVIOUS
<1>13. Traced(b2, ag2, cl2, nx2, rs, nu)
  BY <1>11, <1>12
<1>14. rs = refsSeen' /\ nu = nulled'
  BY <1>2, <1>12
<1> QED BY <1>1, <1>3, <1>5, <1>6, <1>7, <1>13, <1>14, NowTraced

(* The second of two elements comes first when the first is taken away.    *)
LEMMA SecondFirst ==
  ASSUME NEW X, NEW a \in X, NEW z \in X, NEW rest \in Seq(X), NEW u, u = <<a, z>> \o rest
  PROVE  u \in Seq(X) /\ u # <<>> /\ u[1] = a /\ Tail(u) = <<z>> \o rest
<1>1. PICK p : p = <<a, z>>
  OBVIOUS
<1>2. p \in Seq(X) /\ Len(p) = 2 /\ p[1] = a /\ p[2] = z
  BY <1>1
<1>3. PICK q : q = <<z>>
  OBVIOUS
<1>4. q \in Seq(X) /\ Len(q) = 1 /\ q[1] = z
  BY <1>3
<1>5. PICK m \in Nat : m = Len(rest)
  OBVIOUS
<1>6. u = p \o rest
  BY <1>1
<1>7. /\ u \in Seq(X) /\ Len(u) = 2 + m
      /\ \A i \in 1 .. 2 + m : u[i] = IF i <= 2 THEN p[i] ELSE rest[i - 2]
  BY <1>2, <1>5, <1>6, ConcatProperties
<1>8. PICK w : w = q \o rest
  OBVIOUS
<1>9. /\ w \in Seq(X) /\ Len(w) = 1 + m
      /\ \A i \in 1 .. 1 + m : w[i] = IF i <= 1 THEN q[i] ELSE rest[i - 1]
  <2>1. PICK k \in Nat : k = Len(q)
    BY <1>4
  <2>2. /\ w \in Seq(X) /\ Len(w) = k + m
        /\ \A i \in 1 .. k + m : w[i] = IF i <= k THEN q[i] ELSE rest[i - k]
    BY <1>4, <1>5, <1>8, <2>1, ConcatProperties
  <2> QED BY <1>4, <2>1, <2>2
<1>10. u # <<>> /\ u[1] = a
  BY <1>2, <1>5, <1>7
<1>11. PICK t : t = Tail(u)
  OBVIOUS
<1>12. t \in Seq(X) /\ Len(t) = 1 + m /\ \A i \in 1 .. 1 + m : t[i] = u[i + 1]
  BY <1>5, <1>7, <1>10, <1>11
<1>13. ASSUME NEW i \in 1 .. 1 + m PROVE t[i] = w[i]
  <2>1. t[i] = u[i + 1] /\ i + 1 \in 1 .. 2 + m
    BY <1>5, <1>12
  <2>2. CASE i = 1
    BY <1>2, <1>4, <1>5, <1>7, <1>9, <2>1, <2>2
  <2>3. CASE i > 1
    <3>1. PICK j : j = i + 1
      OBVIOUS
    <3>2. j > 2 /\ j - 2 = i - 1 /\ j \in 1 .. 2 + m
      BY <1>5, <2>1, <2>3, <3>1
    <3> QED BY <1>5, <1>7, <1>9, <2>1, <2>3, <3>1, <3>2
  <2> QED BY <1>5, <2>2, <2>3
<1>14. t = w
  BY <1>9, <1>12, <1>13
<1> QED BY <1>3, <1>7, <1>8, <1>10, <1>11, <1>14

(* An object with the array its __serialize() built: two tokens.           *)
LEMMA FactoryTraces ==
  ASSUME Walking, NEW n \in Nodes(graph), EncodeFactory(n), ~ depthExceeded'
  PROVE  TracedNow'
<1>1. /\ agenda \in Seq(EncTask) /\ task = agenda[1] /\ agenda # <<>> /\ EncInv
      /\ nextId \in Nat /\ refsSeen \in Nat /\ body \in Seq(NodeToken)
      /\ WellFormed(graph) /\ maxDepth \in Nat
      /\ Traced(body, agenda, claim, nextId, refsSeen, nulled)
      /\ graph' = graph /\ maxDepth' = maxDepth
  BY WalkingTyped DEF Walking
<1>2. /\ task.do = "hook" /\ task.n = n /\ Kind(n) = "factory"
      /\ nulled' = nulled /\ refsSeen' = refsSeen /\ claim' = claim /\ nextId' = nextId
  BY DEF EncodeFactory, HookReturned, table
<1>3. n \in Nat /\ Values \subseteq Nat /\ Kids(n) \in Seq(Values)
  BY <1>1, GraphTyped, NodesPositive
<1>4. PICK d \in Nat : d = task.depth
  BY <1>1, <1>2, HeadTyped
<1>5. PICK kids : kids = Kids(n)
  OBVIOUS
<1>6. PICK t1, t2 : t1 = Token("magic", 1, n) /\ t2 = Token("array", Len(kids), n)
  OBVIOUS
<1>7. PICK s2 : s2 = ElementTasks(kids, d + 2, FALSE, FALSE)
  OBVIOUS
<1>8. PICK z : z = ReleaseTask(kids)
  OBVIOUS
<1>9. /\ d + 1 < maxDepth
      /\ Emit(<<t1, t2>>) /\ Then(s2 \o <<z>>)
  <2>1. d + 1 < maxDepth
    BY <1>4 DEF EncodeFactory
  <2> QED BY <1>4, <1>5, <1>6, <1>7, <1>8, <2>1 DEF EncodeFactory
<1>10. kids \in Seq(Nat) /\ Len(kids) \in Nat
  <2>1. kids \in Seq(Values)
    BY <1>3, <1>5
  <2>2. kids \in Seq(Nat)
    BY <1>3, <2>1, SeqMonotonic
  <2> QED BY <2>2
<1>11. z \in EncTask /\ z.do = "release"
  BY <1>8, <1>10 DEF ReleaseTask, EncTask
<1>12. /\ t1 \in NodeToken /\ t1.tag = "magic" /\ t1.node = n /\ t1.arg = 1
       /\ t2 \in NodeToken /\ t2.tag = "array" /\ t2.node = n /\ t2.arg = Len(kids)
  BY <1>3, <1>6, <1>10 DEF Token, NodeToken, WireTags
<1>13. IsBuilt(t1) /\ TokenFits(t1)
  BY <1>2, <1>12 DEF IsBuilt, TokenFits, EntityTags, ObjectTags, KindFits, MadeKind, ObjectKinds
<1>14. ~ IsBuilt(t2) /\ TokenFits(t2)
  BY <1>2, <1>5, <1>12 DEF IsBuilt, TokenFits, EntityTags, ObjectTags, KindFits, MadeKind
<1>15. PICK vt : vt = [do |-> "built", n |-> n, depth |-> d + 1]
  OBVIOUS
<1>16. PICK X : X = EncTask \cup {vt}
  OBVIOUS
<1>17. PICK rest : rest = Tail(agenda)
  OBVIOUS
<1>18. /\ vt \in X /\ z \in X /\ agenda \in Seq(X) /\ rest \in Seq(X)
  BY <1>1, <1>11, <1>16, <1>17, SeqMonotonic
<1>19. PICK s1 : s1 = <<vt, z>>
  OBVIOUS
<1>20. PICK ag1 : ag1 = s1 \o rest
  OBVIOUS
<1>21. s1 \in Seq(X) /\ Len(s1) = 2 /\ s1[1] = vt /\ s1[2] = z
  BY <1>18, <1>19
<1>22. Comes(ag1, s1, agenda)
  BY <1>1, <1>17, <1>18, <1>20, <1>21, Replaced
<1>23. ag1 \in Seq(X) /\ ag1 # <<>> /\ ag1[1] = vt /\ Tail(ag1) = <<z>> \o rest
  BY <1>18, <1>19, <1>20, SecondFirst
<1>24. ~ Hooked(ag1)
  BY <1>15, <1>23 DEF Hooked
<1>25. PICK b1 : b1 = body \o (<<>> \o <<t1>>)
  OBVIOUS
<1>26. PICK none : none = <<>>
  OBVIOUS
<1>27. /\ none \in Seq(NodeToken) /\ PrefixOf(none, t1) /\ PrefixOf(none, t2)
       /\ (FALSE <=> none # <<>>)
  BY <1>26 DEF PrefixOf
<1>28. b1 \in Seq(NodeToken) /\ b1 = body \o <<t1>>
  <2>1. PICK w : w = <<t1>>
    OBVIOUS
  <2>2. w \in Seq(NodeToken) /\ <<>> \o w = w
    BY <1>12, <2>1
  <2>3. b1 = body \o w
    BY <1>25, <2>1, <2>2
  <2> QED BY <1>1, <2>1, <2>2, <2>3
<1>29. Traced(b1, ag1, claim, nextId, refsSeen, nulled)
  <2>1. PICK at : at = Len(body) + 1
    OBVIOUS
  <2>2. Begins(agenda, t1)
    <3>1. agenda[1].do = "hook" /\ agenda[1].depth < maxDepth
      BY <1>2, HookWithin
    <3> QED BY <1>1, <1>2, <1>12, <3>1 DEF Begins
  <2>3. EndsWith(z, t1, FALSE, at, refsSeen)
    BY <1>11, <1>12 DEF EndsWith, ObjectTags
  <2>4. Ended(s1, t1, FALSE, at, refsSeen)
    <3>1. PICK k : k = t1.arg + 1
      OBVIOUS
    <3>2. k = 2
      BY <1>12, <3>1
    <3>3. Len(s1) = k /\ EndsWith(s1[k], t1, FALSE, at, refsSeen)
      BY <1>21, <2>3, <3>2
    <3> QED BY <3>1, <3>3 DEF Ended
  <2>5. Filled(s1, t1, agenda[1].depth + 1)
    <3>1. agenda[1].depth = d
      BY <1>1, <1>4
    <3>2. \A i \in 1 .. 1 : i = 1
      OBVIOUS
    <3> QED BY <1>12, <1>13, <1>15, <1>21, <3>1, <3>2 DEF Filled
  <2>6. TakesId(agenda[1], t1, claim, nextId, claim, nextId)
    BY <1>1, <1>2, <1>12 DEF TakesId
  <2>7. PICK rs2 : rs2 = refsSeen + (IF t1.tag = "new_ref" THEN 1 ELSE 0)
    OBVIOUS
  <2>8. rs2 = refsSeen
    BY <1>1, <1>12, <2>7
  <2>9. Continues(b1, body, none, t1)
    BY <1>25, <1>26 DEF Continues
  <2>10. Traced(b1, ag1, claim, nextId, rs2, nulled)
    <3>1. PICK cl2, nx2 : cl2 = claim /\ nx2 = nextId
      OBVIOUS
    <3>2. TakesId(agenda[1], t1, claim, nextId, cl2, nx2)
      BY <2>6, <3>1
    <3>3. PICK m : m = FALSE
      OBVIOUS
    <3>4. (m <=> none # <<>>) /\ Ended(s1, t1, m, at, refsSeen)
      BY <1>27, <2>4, <3>3
    <3>5. Traced(b1, ag1, cl2, nx2, rs2, nulled)
      BY <1>1, <1>13, <1>22, <1>24, <1>27, <2>1, <2>2, <2>5, <2>7, <2>9, <3>2, <3>4, NewAdvance
    <3> QED BY <3>1, <3>5
  <2> QED BY <2>8, <2>10
<1>30. PICK ag2 : ag2 = agenda'
  OBVIOUS
<1>31. /\ ListFor(s2, kids, d + 2, FALSE, TRUE) /\ s2 \in Seq(EncTask)
  <2>1. d + 2 \in Nat /\ kids \in Seq(Values)
    BY <1>3, <1>5
  <2>2. ListFor(s2, kids, d + 2, FALSE, TRUE)
    BY <1>3, <1>7, <2>1, Listed
  <2> QED BY <2>2 DEF ListFor
<1>32. Comes(ag2, s2, ag1)
  <2>1. PICK w : w = <<z>>
    OBVIOUS
  <2>2. s2 \in Seq(X) /\ w \in Seq(X)
    BY <1>16, <1>18, <1>31, <2>1, SeqMonotonic
  <2>3. ag2 = (s2 \o w) \o rest
    BY <1>9, <1>17, <1>30, <2>1 DEF Then
  <2>4. ag2 = s2 \o (w \o rest)
    BY <1>18, <2>2, <2>3, ConcatAssociative
  <2>5. ag2 = s2 \o Tail(ag1)
    BY <1>23, <2>1, <2>4
  <2> QED BY <1>23, <2>2, <2>5, Replaced
<1>33. ~ Hooked(ag2)
  <2>1. PICK s : s = s2 \o <<z>>
    OBVIOUS
  <2>2. s \in Seq(EncTask)
    BY <1>11, <1>31, <2>1, ListedAnd
  <2>3. s[1].do # "hook"
    <3>1. /\ Len(kids) \in Nat /\ DOMAIN kids = 1 .. Len(kids)
          /\ \A i \in DOMAIN kids : s[i] = s2[i]
          /\ s[Len(kids) + 1] = z
      <4>1. PICK e, r, b : e = d + 2 /\ r = FALSE /\ b = TRUE
        OBVIOUS
      <4>2. ListFor(s2, kids, e, r, b)
        BY <1>31, <4>1
      <4> QED BY <1>11, <2>1, <4>2, ListedAnd
    <3>2. CASE Len(kids) = 0
      BY <1>11, <3>1, <3>2
    <3>3. CASE Len(kids) # 0
      <4>1. 1 \in DOMAIN kids
        BY <3>1, <3>3
      <4> QED BY <1>31, <3>1, <4>1 DEF ListFor
    <3> QED BY <3>2, <3>3
  <2>4. ag2 = s \o Tail(agenda)
    BY <1>9, <1>30, <2>1 DEF Then
  <2> QED BY <1>1, <2>2, <2>3, <2>4, AgendaComes
<1>34. PICK b2 : b2 = body'
  OBVIOUS
<1>35. Continues(b2, b1, none, t2)
  <2>1. PICK w1, w2, w : w1 = <<t1>> /\ w2 = <<t2>> /\ w = <<t1, t2>>
    OBVIOUS
  <2>2. w1 \in Seq(NodeToken) /\ w2 \in Seq(NodeToken)
    BY <1>12, <2>1
  <2>3. w1 \o w2 = w
    <3>1. PICK v : v = w1 \o w2
      OBVIOUS
    <3>2. Len(w1) = 1 /\ w1[1] = t1 /\ Len(w2) = 1 /\ w2[1] = t2
      BY <2>1
    <3>3. v \in Seq(NodeToken) /\ Len(v) = 2 /\ v[1] = t1 /\ v[2] = t2
      <4>1. PICK k, l : k = Len(w1) /\ l = Len(w2)
        OBVIOUS
      <4>2. /\ v \in Seq(NodeToken) /\ Len(v) = k + l
            /\ \A i \in 1 .. k + l : v[i] = IF i <= k THEN w1[i] ELSE w2[i - k]
        BY <2>2, <3>1, <4>1, ConcatProperties
      <4> QED BY <3>2, <4>1, <4>2
    <3>4. w \in Seq(NodeToken) /\ Len(w) = 2 /\ w[1] = t1 /\ w[2] = t2
      BY <1>12, <2>1
    <3>5. \A i \in 1 .. 2 : v[i] = w[i]
      BY <3>3, <3>4
    <3>6. v = w
      BY <3>3, <3>4, <3>5
    <3> QED BY <3>1, <3>6
  <2>4. b2 = body \o (w1 \o w2)
    BY <1>9, <1>34, <2>1, <2>3 DEF Emit
  <2>5. b2 = b1 \o w2
    BY <1>1, <1>28, <2>1, <2>2, <2>4, ConcatAssociative
  <2>6. none \o w2 = w2
    BY <1>26, <2>2
  <2> QED BY <2>1, <2>5, <2>6 DEF Continues
<1>36. Traced(b2, ag2, claim, nextId, refsSeen, nulled)
  <2>1. PICK at : at = Len(b1) + 1
    OBVIOUS
  <2>2. Begins(ag1, t2)
    BY <1>9, <1>12, <1>15, <1>23 DEF Begins
  <2>3. Ended(s2, t2, FALSE, at, refsSeen) /\ Filled(s2, t2, ag1[1].depth + 1)
    <3>1. ag1[1].depth + 1 = d + 2
      BY <1>4, <1>15, <1>23
    <3>2. PICK depth : depth = d + 2
      OBVIOUS
    <3>3. ListFor(s2, kids, depth, FALSE, TRUE)
      BY <1>31, <3>2
    <3>4. /\ Len(kids) = Len(Kids(t2.node)) /\ DOMAIN kids = 1 .. Len(kids)
          /\ \A i \in DOMAIN kids : MayStandFor(Kids(t2.node)[i], kids[i])
      BY <1>5, <1>10, <1>12 DEF MayStandFor
    <3>5. t2.tag \notin {"new_ref", "magic"}
      BY <1>12
    <3>6. s2 = s2 /\ ~ FALSE /\ t2.tag # "magic"
      BY <1>12
    <3>7. Filled(s2, t2, depth) /\ Ended(s2, t2, FALSE, at, refsSeen)
      BY <1>14, <3>3, <3>4, <3>5, <3>6, ListFills
    <3> QED BY <3>1, <3>2, <3>7
  <2>6. TakesId(ag1[1], t2, claim, nextId, claim, nextId)
    BY <1>12, <1>15, <1>23 DEF TakesId
  <2>7. PICK rs2 : rs2 = refsSeen + (IF t2.tag = "new_ref" THEN 1 ELSE 0)
    OBVIOUS
  <2>8. rs2 = refsSeen
    BY <1>1, <1>12, <2>7
  <2>10. Traced(b2, ag2, claim, nextId, rs2, nulled)
    <3>1. PICK cl2, nx2 : cl2 = claim /\ nx2 = nextId
      OBVIOUS
    <3>2. TakesId(ag1[1], t2, claim, nextId, cl2, nx2)
      BY <2>6, <3>1
    <3>3. PICK m : m = FALSE
      OBVIOUS
    <3>4. (m <=> none # <<>>) /\ Ended(s2, t2, m, at, refsSeen)
      BY <1>27, <2>3, <3>3
    <3>5. Traced(b2, ag2, cl2, nx2, rs2, nulled)
      BY <1>1, <1>14, <1>27, <1>28, <1>29, <1>32, <1>33, <1>35, <2>1, <2>2, <2>3, <2>7, <3>2, <3>4,
         NewAdvance
    <3> QED BY <3>1, <3>5
  <2> QED BY <2>8, <2>10
<1>37. PICK cl, nx, rs, nu : cl = claim /\ nx = nextId /\ rs = refsSeen /\ nu = nulled
  OBVIOUS
<1>38. Traced(b2, ag2, cl, nx, rs, nu)
  BY <1>36, <1>37
<1>39. cl = claim' /\ nx = nextId' /\ rs = refsSeen' /\ nu = nulled'
  BY <1>2, <1>37
<1> QED BY <1>1, <1>30, <1>34, <1>38, <1>39, NowTraced

(* Every step of the encoder, as long as nothing went wrong.               *)
LEMMA EncoderTraces ==
  ASSUME EncInv, KnownAgain, TracedNow, EncNext, maxDepth' = maxDepth, ~ failed', ~ depthExceeded'
  PROVE  TracedNow'
<1>1. CASE EncFinish
  <2>1. /\ graph' = graph /\ body' = body /\ agenda' = agenda /\ claim' = claim /\ nextId' = nextId
        /\ refsSeen' = refsSeen /\ nulled' = nulled
    BY <1>1 DEF EncFinish, table
  <2>2. PICK b, ag, cl, nx, rs, nu : /\ b = body /\ ag = agenda /\ cl = claim /\ nx = nextId
                                     /\ rs = refsSeen /\ nu = nulled
    OBVIOUS
  <2>3. Traced(b, ag, cl, nx, rs, nu)
    BY <2>2 DEF TracedNow
  <2>4. /\ b = body' /\ ag = agenda' /\ cl = claim' /\ nx = nextId' /\ rs = refsSeen' /\ nu = nulled'
    BY <2>1, <2>2
  <2> QED BY <2>1, <2>3, <2>4, NowTraced
<1>2. CASE FailedPlaceholder \/ TooDeep
  BY <1>2 DEF FailedPlaceholder, TooDeep
<1>3. CASE EncodeScalar
  <2>1. Walking
    BY <1>3 DEF Walking, EncodeScalar, IsValue
  <2> QED BY <1>3, <2>1, KnownStepsTrace
<1>4. ASSUME NEW n \in Nodes(graph), EncodeValue(n) \/ AfterHook(n)
      PROVE  TracedNow'
  <2>1. CASE Refuse(n) \/ HookThrows(n)
    BY <2>1 DEF Refuse, HookThrows
  <2>2. CASE ArrayRepeat(n) \/ ReferenceRepeat(n) \/ ObjectRepeat(n) \/ HookYieldsNull(n)
    <3>1. Walking
      BY <2>2 DEF Walking, ArrayRepeat, ReferenceRepeat, ObjectRepeat, HookYieldsNull, HookReturned,
                  Visiting, IsValue
    <3> QED BY <2>2, <3>1, KnownStepsTrace
  <2>3. CASE \/ ReferenceNew(n) \/ EncodeSlots(n) \/ EncodeKeyed(n) \/ EncodeEnum(n)
             \/ EncodeHooked(n) \/ EncodeLegacy(n) \/ EncodeMagic(n)
    <3>1. Walking
      BY <2>3 DEF Walking, ReferenceNew, EncodeSlots, EncodeKeyed, EncodeEnum, EncodeHooked,
                  EncodeLegacy, EncodeMagic, HookReturned, NewObject, Visiting, IsValue
    <3> QED BY <2>3, <3>1, EntityStepsTrace
  <2>4. CASE ArrayWalk(n)
    <3>1. Walking
      BY <2>4 DEF Walking, ArrayWalk, Visiting, IsValue
    <3> QED BY <2>4, <3>1, ArrayStepTraces
  <2>5. CASE CallHook(n)
    <3>1. Walking
      BY <2>5 DEF Walking, CallHook, NewObject, Visiting, IsValue
    <3> QED BY <2>5, <3>1, CallTraces
  <2>6. CASE EncodeFactory(n)
    <3>1. Walking
      BY <2>6 DEF Walking, EncodeFactory, HookReturned
    <3> QED BY <2>6, <3>1, FactoryTraces
  <2> QED BY <1>4, <2>1, <2>2, <2>3, <2>4, <2>5, <2>6 DEF EncodeValue, AfterHook
<1>5. CASE ArrayDone \/ ReleaseSnapshot
  <2>1. Walking
    BY <1>5 DEF Walking, ArrayDone, ReleaseSnapshot
  <2> QED BY <1>5, <2>1, EndStepsTrace
<1> QED BY <1>1, <1>2, <1>3, <1>4, <1>5 DEF EncNext

(* What went wrong stays wrong.                                            *)
LEMMA TroubleStays ==
  ASSUME EncNext, ~ failed', ~ depthExceeded'
  PROVE  ~ failed /\ ~ depthExceeded
<1>1. CASE FailedPlaceholder \/ TooDeep \/ EncodeScalar
  BY <1>1 DEF FailedPlaceholder, TooDeep, EncodeScalar
<1>2. ASSUME NEW n \in Nodes(graph), EncodeValue(n)
      PROVE  ~ failed /\ ~ depthExceeded
  <2>1. CASE ArrayRepeat(n)
    BY <2>1 DEF ArrayRepeat
  <2>2. CASE ArrayWalk(n)
    BY <2>2 DEF ArrayWalk
  <2>3. CASE ReferenceRepeat(n)
    BY <2>3 DEF ReferenceRepeat
  <2>4. CASE ReferenceNew(n)
    BY <2>4 DEF ReferenceNew
  <2>5. CASE ObjectRepeat(n)
    BY <2>5 DEF ObjectRepeat
  <2>6. CASE EncodeSlots(n)
    BY <2>6 DEF EncodeSlots
  <2>7. CASE EncodeKeyed(n)
    BY <2>7 DEF EncodeKeyed
  <2>8. CASE EncodeEnum(n)
    BY <2>8 DEF EncodeEnum
  <2>9. CASE Refuse(n)
    BY <2>9 DEF Refuse
  <2>10. CASE CallHook(n)
    BY <2>10 DEF CallHook
  <2> QED BY <1>2, <2>1, <2>2, <2>3, <2>4, <2>5, <2>6, <2>7, <2>8, <2>9, <2>10 DEF EncodeValue
<1>3. ASSUME NEW n \in Nodes(graph), AfterHook(n)
      PROVE  ~ failed /\ ~ depthExceeded
  <2>1. CASE EncodeHooked(n)
    BY <2>1 DEF EncodeHooked
  <2>2. CASE EncodeLegacy(n)
    BY <2>2 DEF EncodeLegacy
  <2>3. CASE EncodeMagic(n)
    BY <2>3 DEF EncodeMagic
  <2>4. CASE EncodeFactory(n)
    BY <2>4 DEF EncodeFactory
  <2>5. CASE HookYieldsNull(n)
    BY <2>5 DEF HookYieldsNull
  <2>6. CASE HookThrows(n)
    BY <2>6 DEF HookThrows
  <2> QED BY <1>3, <2>1, <2>2, <2>3, <2>4, <2>5, <2>6 DEF AfterHook
<1>4. CASE ArrayDone \/ ReleaseSnapshot \/ EncFinish
  BY <1>4 DEF ArrayDone, ReleaseSnapshot, EncFinish
<1> QED BY <1>1, <1>2, <1>3, <1>4 DEF EncNext

(* There is a run for what is written, unless the encode has failed.       *)
TraceInv == encoded \in {"no", "ok"} /\ ~ failed /\ ~ depthExceeded => TracedNow

(* It is kept.                                                             *)
LEMMA TraceKept ==
  ASSUME EncInv, IdentInv, LinkInv, TraceInv, [Next]_vars
  PROVE  TraceInv'
<1> SUFFICES ASSUME encoded' \in {"no", "ok"}, ~ failed', ~ depthExceeded'
             PROVE  TracedNow'
  BY DEF TraceInv
<1>1. CASE EncNext /\ UNCHANGED decVars
  <2>1. encoded = "no"
    BY <1>1, EncoderSteps
  <2>2. ~ failed /\ ~ depthExceeded
    BY <1>1, TroubleStays
  <2>3. KnownAgain /\ TracedNow
    BY <2>1, <2>2 DEF IdentInv, TraceInv
  <2>4. maxDepth' = maxDepth
    BY <1>1 DEF decVars
  <2> QED BY <1>1, <2>3, <2>4, EncoderTraces
<1>2. CASE UNCHANGED encVars
  <2>1. /\ graph' = graph /\ body' = body /\ agenda' = agenda /\ claim' = claim /\ nextId' = nextId
        /\ refsSeen' = refsSeen /\ nulled' = nulled /\ maxDepth' = maxDepth
        /\ failed' = failed /\ depthExceeded' = depthExceeded /\ encoded' = encoded
    BY <1>2 DEF encVars, table
  <2>2. PICK b, ag, cl, nx, rs, nu : /\ b = body /\ ag = agenda /\ cl = claim /\ nx = nextId
                                     /\ rs = refsSeen /\ nu = nulled
    OBVIOUS
  <2>3. TracedNow
    BY <2>1 DEF TraceInv
  <2>4. Traced(b, ag, cl, nx, rs, nu)
    BY <2>2, <2>3 DEF TracedNow
  <2>5. /\ b = body' /\ ag = agenda' /\ cl = claim' /\ nx = nextId' /\ rs = refsSeen' /\ nu = nulled'
    BY <2>1, <2>2
  <2> QED BY <2>1, <2>4, <2>5, NowTraced
<1>3. CASE UNCHANGED vars
  BY <1>2, <1>3 DEF vars
<1> QED BY <1>1, <1>2, <1>3 DEF Next, Deliver, Arrive, Stop

(* There is one before the first step.                                     *)
LEMMA TraceBegins ==
  ASSUME Init
  PROVE  TraceInv
<1>1. CASE EncInit
  <2>1. EncInv
    BY EncoderBegins
  <2>2. /\ agenda = <<ValueTask(1, 0, FALSE, FALSE)>> /\ body = <<>> /\ nextId = 0 /\ refsSeen = 0
        /\ nulled = {} /\ \A n \in Nodes(graph) : claim[n] = -3
    BY <1>1 DEF EncInit, NoEntry
  <2> PICK t : t = ValueTask(1, 0, FALSE, FALSE)
    OBVIOUS
  <2>3. agenda = <<t>> /\ t.do = "value" /\ t.v = 1 /\ t.depth = 0 /\ t.element = FALSE
    BY <2>2 DEF ValueTask
  <2> PICK k : k = SlotTask(0, 1, 0, FALSE)
    OBVIOUS
  <2>4. k.do = "read" /\ k.into = 0 /\ k.slot = 1 /\ k.depth = 0 /\ k \in RunTask
    BY DEF SlotTask, RunTask
  <2> PICK g : g = RunStart
    OBVIOUS
  <2>5. /\ g.n = 0 /\ g.todo = <<k>> /\ g.made = <<>> /\ g.ids = <<>> /\ g.refs = 0
        /\ g.result = NoValue /\ g.ended = {}
    BY DEF RunStart
  <2>6. g \in RunState
    <3>1. <<k>> \in Seq(RunTask)
      <4>1. k \in RunTask
        BY <2>4
      <4>2. ASSUME NEW X, NEW z \in X PROVE <<z>> \in Seq(X)
        OBVIOUS
      <4> QED BY <4>1, <4>2
    <3>2. <<>> \in Seq(RunEntity) /\ <<>> \in Seq(Nat)
      OBVIOUS
    <3>3. NoValue \in Int
      BY DEF NoValue
    <3>4. 0 \in Nat /\ {} \in SUBSET Nat
      OBVIOUS
    <3> QED BY <3>1, <3>2, <3>3, <3>4, Zenon DEF RunStart, RunState
  <2>7. /\ DOMAIN g.todo = {1} /\ g.todo[1] = k /\ Len(g.todo) = 1 /\ DOMAIN g.made = {}
        /\ DOMAIN g.ids = {} /\ Len(g.ids) = 0
    BY <2>5
  <2>8. ContentsOK({}, g)
    BY <2>5, <2>7 DEF ContentsOK
  <2>9. SlotsOK(g)
    <3>1. InRange(g.made, k)
      BY <2>4 DEF InRange
    <3>2. \A i, j \in DOMAIN g.todo : ~ (i < j)
      BY <2>7
    <3> QED BY <2>7, <3>1, <3>2 DEF SlotsOK
  <2> PICK loc : loc = [c \in 0 .. 0 |-> 0]
    OBVIOUS
  <2>10. AllTrack(<<>>, {}, loc, g, agenda)
    <3>1. Tracks(<<>>, {}, loc, g, t, k)
      BY <2>3, <2>4 DEF Tracks, Expects
    <3>2. Len(agenda) = 1 /\ DOMAIN agenda = {1} /\ agenda[1] = t
      BY <2>3
    <3> QED BY <2>7, <3>1, <3>2 DEF AllTrack
  <2>11. IdsOK(g, agenda, claim, nextId)
    <3>1. ~ Hooked(agenda)
      BY <2>3 DEF Hooked
    <3> QED BY <2>2, <2>7, <3>1 DEF IdsOK
  <2>12. Matched(<<>>, {}, loc, g, agenda, claim, nextId, refsSeen, nulled)
    BY <2>2, <2>5, <2>8, <2>9, <2>10, <2>11 DEF Matched, NulledOK
  <2>13. Layout(body, <<>>, {}, loc)
    <3>1. /\ Len(<<>>) = 0 /\ 1 .. 0 = {} /\ <<>> \in Seq(NodeToken)
          /\ loc \in [0 .. 0 -> 0 .. 0] /\ loc[0] = 0
      OBVIOUS
    <3> QED BY <2>2, <3>1 DEF Layout
  <2>14. Flat(g.made)
    BY <2>7 DEF Flat
  <2> PICK R : R = <<g>>
    OBVIOUS
  <2>15. Final(R) = g /\ Len(R) = 1 /\ R[1] = g /\ R \in Seq(RunState) /\ R # <<>>
    BY <2>6 DEF Final
  <2>16. Run(<<>>, {}, R)
    <3>1. Len(<<>>) = 0 /\ 0 \in 0 .. 0
      OBVIOUS
    <3>2. \A i \in 1 .. Len(R) : i = 1
      BY <2>15
    <3>3. \A i \in 1 .. Len(R) - 1 : FALSE
      BY <2>15
    <3>4. \A i \in 1 .. Len(R) :
            R[i].n \in 0 .. Len(<<>>) /\ R[i].ended \subseteq Final(R).ended /\ Flat(R[i].made)
      BY <2>5, <2>14, <2>15, <3>1, <3>2
    <3> QED BY <2>5, <2>15, <3>1, <3>3, <3>4 DEF Run
  <2>17. Traced(body, agenda, claim, nextId, refsSeen, nulled)
    BY <2>12, <2>13, <2>15, <2>16 DEF Traced
  <2> QED BY <2>17 DEF TraceInv, TracedNow
<1>2. CASE Idle
  BY <1>2 DEF Idle, TraceInv
<1> QED BY <1>1, <1>2 DEF Init

----------------------------------------------------------------------------
(***************************************************************************)
(* The decoder follows the run.  Its tasks are those of the run, without   *)
(* the ends that do nothing and with the checks of references.             *)
(***************************************************************************)
Kept(shared, k) == k.do # "nothing" /\ (k.do = "end" => k.at \in shared)
Same(r, k) ==
  /\ k.do = "read" => r.do = "read" /\ r.into = k.into /\ r.depth = k.depth /\ r.hot = k.hot
  /\ k.do = "end" => r.do = "shared" /\ r.entity = k.entity /\ r.refs = k.refs
  /\ k.do = "magic" => r.do = "magic" /\ r.entity = k.entity
  /\ r.do # "reference"
IsCheck(m, r) == r.do = "reference" /\ IsReference(m, r.entity)

(* The places of p are pairs, in the same order on both sides.             *)
Pairing(m, shared, rt, gt, p) ==
  /\ \A x \in DOMAIN rt : \A a \in DOMAIN gt :
       <<x, a>> \in p => Kept(shared, gt[a]) /\ Same(rt[x], gt[a])
  /\ \A x, y \in DOMAIN rt : \A a, b \in DOMAIN gt :
       <<x, a>> \in p /\ <<y, b>> \in p => (x < y <=> a < b)
  /\ \A x \in DOMAIN rt : IsCheck(m, rt[x]) \/ \E a \in DOMAIN gt : <<x, a>> \in p
  /\ \A a \in DOMAIN gt : Kept(shared, gt[a]) => \E x \in DOMAIN rt : <<x, a>> \in p
TodoRel(m, shared, rt, gt) == \E p : Pairing(m, shared, rt, gt, p)

References(m, m2) == \A d : IsReference(m, d) => IsReference(m2, d)

(* The first of both are a pair when neither is a task of one side only.   *)
LEMMA FirstPair ==
  ASSUME NEW m, NEW shared, NEW rt, NEW gt, NEW p, Pairing(m, shared, rt, gt, p),
         1 \in DOMAIN rt, 1 \in DOMAIN gt, DOMAIN rt \subseteq Nat \ {0}, DOMAIN gt \subseteq Nat \ {0},
         rt[1].do # "reference", Kept(shared, gt[1])
  PROVE  <<1, 1>> \in p /\ Same(rt[1], gt[1])
<1>1. PICK a \in DOMAIN gt : <<1, a>> \in p
  BY DEF Pairing, IsCheck
<1>2. PICK x \in DOMAIN rt : <<x, 1>> \in p
  BY DEF Pairing
<1>3. 1 < x <=> a < 1
  BY <1>1, <1>2 DEF Pairing
<1>4. x = 1
  BY <1>3
<1> QED BY <1>2, <1>4 DEF Pairing

(* Tasks that are new: the first k are pairs.                              *)
Alike(m, shared, s, t, k) ==
  /\ k \in Nat /\ k <= Len(s) /\ k <= Len(t)
  /\ \A x \in DOMAIN s : IF x <= k THEN Same(s[x], t[x]) ELSE IsCheck(m, s[x])
  /\ \A a \in DOMAIN t : Kept(shared, t[a]) <=> a <= k

(* They take the place of a pair.                                          *)
LEMMA RelPut ==
  ASSUME NEW m, NEW m2, References(m, m2), NEW shared, NEW rt, NEW gt, TodoRel(m, shared, rt, gt),
         NEW s, NEW t, NEW k, Alike(m2, shared, s, t, k),
         NEW rt2, Comes(rt2, s, rt), NEW gt2, Comes(gt2, t, gt),
         rt[1].do # "reference", Kept(shared, gt[1])
  PROVE  TodoRel(m2, shared, rt2, gt2)
<1>1. PICK p : Pairing(m, shared, rt, gt, p)
  BY DEF TodoRel
<1>2. /\ DOMAIN rt = 1 .. Len(rt) /\ DOMAIN gt = 1 .. Len(gt) /\ DOMAIN s = 1 .. Len(s)
      /\ DOMAIN t = 1 .. Len(t) /\ DOMAIN rt2 = 1 .. Len(rt2) /\ DOMAIN gt2 = 1 .. Len(gt2)
      /\ Len(rt) \in Nat /\ Len(gt) \in Nat /\ Len(s) \in Nat /\ Len(t) \in Nat
      /\ Len(rt2) \in Nat /\ Len(gt2) \in Nat /\ 1 \in DOMAIN rt /\ 1 \in DOMAIN gt
      /\ Len(rt2) = Len(s) + Len(rt) - 1 /\ Len(gt2) = Len(t) + Len(gt) - 1
      /\ k \in Nat /\ k <= Len(s) /\ k <= Len(t)
  BY DEF Comes, Alike
<1>3. <<1, 1>> \in p
  BY <1>1, <1>2, FirstPair
<1> DEFINE p2 == {q \in (DOMAIN rt2) \X (DOMAIN gt2) :
                    \/ q[1] = q[2] /\ q[1] <= k
                    \/ q[1] > Len(s) /\ q[2] > Len(t) /\ <<q[1] - Len(s) + 1, q[2] - Len(t) + 1>> \in p}
<1>4. \A x \in DOMAIN rt2 : \A a \in DOMAIN gt2 :
        <<x, a>> \in p2 <=> \/ x = a /\ x <= k
                            \/ x > Len(s) /\ a > Len(t) /\ <<x - Len(s) + 1, a - Len(t) + 1>> \in p
  OBVIOUS
<1> HIDE DEF p2
<1>5. \A x \in DOMAIN rt2 :
        \/ x <= Len(s) /\ x \in DOMAIN s /\ rt2[x] = s[x]
        \/ /\ x > Len(s) /\ x - Len(s) + 1 \in DOMAIN rt /\ x - Len(s) + 1 > 1
           /\ rt2[x] = rt[x - Len(s) + 1]
  BY <1>2 DEF Comes
<1>6. \A a \in DOMAIN gt2 :
        \/ a <= Len(t) /\ a \in DOMAIN t /\ gt2[a] = t[a]
        \/ /\ a > Len(t) /\ a - Len(t) + 1 \in DOMAIN gt /\ a - Len(t) + 1 > 1
           /\ gt2[a] = gt[a - Len(t) + 1]
  BY <1>2 DEF Comes
<1>7. \A x \in DOMAIN rt2 : \A a \in DOMAIN gt2 :
        <<x, a>> \in p2 => Kept(shared, gt2[a]) /\ Same(rt2[x], gt2[a])
  <2> SUFFICES ASSUME NEW x \in DOMAIN rt2, NEW a \in DOMAIN gt2, <<x, a>> \in p2
               PROVE  Kept(shared, gt2[a]) /\ Same(rt2[x], gt2[a])
    OBVIOUS
  <2>1. CASE x = a /\ x <= k
    <3>1. x \in DOMAIN s /\ rt2[x] = s[x] /\ x \in DOMAIN t /\ gt2[x] = t[x]
      BY <1>2, <1>5, <1>6, <2>1
    <3> QED BY <2>1, <3>1 DEF Alike
  <2>2. CASE x > Len(s) /\ a > Len(t) /\ <<x - Len(s) + 1, a - Len(t) + 1>> \in p
    <3> PICK y, b : y = x - Len(s) + 1 /\ b = a - Len(t) + 1
      OBVIOUS
    <3>0. x > Len(s) /\ a > Len(t) /\ x \in Nat /\ a \in Nat /\ Len(s) \in Nat /\ Len(t) \in Nat
      BY <1>2, <2>2
    <3>1. ~ (x <= Len(s)) /\ ~ (a <= Len(t))
      BY <3>0
    <3>2. y \in DOMAIN rt /\ rt2[x] = rt[y] /\ b \in DOMAIN gt /\ gt2[a] = gt[b]
      BY <1>5, <1>6, <3>1
    <3>3. <<y, b>> \in p
      BY <2>2
    <3> QED BY <1>1, <3>2, <3>3 DEF Pairing
  <2> QED BY <1>4, <2>1, <2>2
<1>8. \A x, y \in DOMAIN rt2 : \A a, b \in DOMAIN gt2 :
        <<x, a>> \in p2 /\ <<y, b>> \in p2 => (x < y <=> a < b)
  <2> SUFFICES ASSUME NEW x \in DOMAIN rt2, NEW y \in DOMAIN rt2, NEW a \in DOMAIN gt2,
                      NEW b \in DOMAIN gt2, <<x, a>> \in p2, <<y, b>> \in p2
               PROVE  x < y <=> a < b
    OBVIOUS
  <2>1. x \in Nat /\ y \in Nat /\ a \in Nat /\ b \in Nat
    BY <1>2
  <2>2. CASE x = a /\ x <= k /\ y = b /\ y <= k
    BY <2>2
  <2>3. CASE x = a /\ x <= k /\ y > Len(s) /\ b > Len(t)
    BY <1>2, <2>1, <2>3
  <2>4. CASE x > Len(s) /\ a > Len(t) /\ y = b /\ y <= k
    BY <1>2, <2>1, <2>4
  <2>5. CASE /\ x > Len(s) /\ a > Len(t) /\ <<x - Len(s) + 1, a - Len(t) + 1>> \in p
             /\ y > Len(s) /\ b > Len(t) /\ <<y - Len(s) + 1, b - Len(t) + 1>> \in p
    <3> PICK x1, y1, a1, b1 : /\ x1 = x - Len(s) + 1 /\ y1 = y - Len(s) + 1
                              /\ a1 = a - Len(t) + 1 /\ b1 = b - Len(t) + 1
      OBVIOUS
    <3>0. /\ x > Len(s) /\ a > Len(t) /\ y > Len(s) /\ b > Len(t)
          /\ Len(s) \in Nat /\ Len(t) \in Nat
      BY <1>2, <2>5
    <3>1. ~ (x <= Len(s)) /\ ~ (a <= Len(t)) /\ ~ (y <= Len(s)) /\ ~ (b <= Len(t))
      BY <2>1, <3>0
    <3>2. x1 \in DOMAIN rt /\ y1 \in DOMAIN rt /\ a1 \in DOMAIN gt /\ b1 \in DOMAIN gt
      BY <1>5, <1>6, <3>1
    <3>3. <<x1, a1>> \in p /\ <<y1, b1>> \in p
      BY <2>5
    <3>4. x1 < y1 <=> a1 < b1
      BY <1>1, <3>2, <3>3 DEF Pairing
    <3> QED BY <2>1, <3>0, <3>4
  <2> QED BY <1>4, <2>2, <2>3, <2>4, <2>5
<1>9. \A x \in DOMAIN rt2 : IsCheck(m2, rt2[x]) \/ \E a \in DOMAIN gt2 : <<x, a>> \in p2
  <2> SUFFICES ASSUME NEW x \in DOMAIN rt2, ~ IsCheck(m2, rt2[x])
               PROVE  \E a \in DOMAIN gt2 : <<x, a>> \in p2
    OBVIOUS
  <2>1. CASE x \in DOMAIN s /\ rt2[x] = s[x]
    <3>1. x <= k
      BY <2>1 DEF Alike
    <3>2. x \in DOMAIN gt2
      BY <1>2, <2>1, <3>1
    <3> QED BY <1>4, <3>1, <3>2
  <2>2. CASE /\ x > Len(s) /\ x - Len(s) + 1 \in DOMAIN rt /\ x - Len(s) + 1 > 1
             /\ rt2[x] = rt[x - Len(s) + 1]
    <3> DEFINE y == x - Len(s) + 1
    <3>1. ~ IsCheck(m, rt[y])
      BY <2>2 DEF IsCheck, References
    <3>2. PICK b \in DOMAIN gt : <<y, b>> \in p
      BY <1>1, <2>2, <3>1 DEF Pairing
    <3>3. 1 < y <=> 1 < b
      BY <1>1, <1>2, <1>3, <2>2, <3>2 DEF Pairing
    <3>4. b > 1
      BY <2>2, <3>3
    <3>5. b - 1 + Len(t) \in DOMAIN gt2
      BY <1>2, <3>4
    <3>6. (b - 1 + Len(t)) - Len(t) + 1 = b /\ b - 1 + Len(t) > Len(t)
      BY <1>2, <3>4
    <3> QED BY <1>4, <2>2, <3>2, <3>5, <3>6
  <2> QED BY <1>5, <2>1, <2>2
<1>10. \A a \in DOMAIN gt2 : Kept(shared, gt2[a]) => \E x \in DOMAIN rt2 : <<x, a>> \in p2
  <2> SUFFICES ASSUME NEW a \in DOMAIN gt2, Kept(shared, gt2[a])
               PROVE  \E x \in DOMAIN rt2 : <<x, a>> \in p2
    OBVIOUS
  <2>1. CASE a \in DOMAIN t /\ gt2[a] = t[a]
    <3>1. a <= k
      BY <2>1 DEF Alike
    <3>2. a \in DOMAIN rt2
      BY <1>2, <2>1, <3>1
    <3> QED BY <1>4, <3>1, <3>2
  <2>2. CASE /\ a > Len(t) /\ a - Len(t) + 1 \in DOMAIN gt /\ a - Len(t) + 1 > 1
             /\ gt2[a] = gt[a - Len(t) + 1]
    <3> DEFINE b == a - Len(t) + 1
    <3>1. Kept(shared, gt[b])
      BY <2>2
    <3>2. PICK y \in DOMAIN rt : <<y, b>> \in p
      BY <1>1, <2>2, <3>1 DEF Pairing
    <3>3. 1 < y <=> 1 < b
      BY <1>1, <1>2, <1>3, <2>2, <3>2 DEF Pairing
    <3>4. y > 1
      BY <2>2, <3>3
    <3>5. y - 1 + Len(s) \in DOMAIN rt2
      BY <1>2, <3>4
    <3>6. (y - 1 + Len(s)) - Len(s) + 1 = y /\ y - 1 + Len(s) > Len(s)
      BY <1>2, <3>4
    <3> QED BY <1>4, <2>2, <3>2, <3>5, <3>6
  <2> QED BY <1>6, <2>1, <2>2
<1> QED BY <1>7, <1>8, <1>9, <1>10 DEF TodoRel, Pairing

(* The check of a reference is over.                                       *)
LEMMA RelChecked ==
  ASSUME NEW m, NEW shared, NEW rt, NEW gt, TodoRel(m, shared, rt, gt), DOMAIN gt \subseteq Nat,
         NEW s, NEW rt2, Comes(rt2, s, rt), Len(s) = 0, rt[1].do = "reference"
  PROVE  TodoRel(m, shared, rt2, gt)
<1>1. PICK p : Pairing(m, shared, rt, gt, p)
  BY DEF TodoRel
<1>2. /\ DOMAIN rt = 1 .. Len(rt) /\ DOMAIN rt2 = 1 .. Len(rt2) /\ Len(rt) \in Nat /\ Len(rt2) \in Nat
      /\ 1 \in DOMAIN rt /\ Len(rt2) = Len(rt) - 1
      /\ \A x \in DOMAIN rt2 : x \in Nat /\ x + 1 \in DOMAIN rt /\ rt2[x] = rt[x + 1]
      /\ \A x \in DOMAIN rt : x > 1 => x - 1 \in DOMAIN rt2 /\ x - 1 + 1 = x
  BY DEF Comes
<1> DEFINE p2 == {q \in (DOMAIN rt2) \X (DOMAIN gt) : <<q[1] + 1, q[2]>> \in p}
<1>3. \A x \in DOMAIN rt2 : \A a \in DOMAIN gt : <<x, a>> \in p2 <=> <<x + 1, a>> \in p
  OBVIOUS
<1> HIDE DEF p2
<1>4. \A a \in DOMAIN gt : <<1, a>> \notin p
  BY <1>1, <1>2 DEF Pairing, Same
<1>5. \A x \in DOMAIN rt2 : \A a \in DOMAIN gt :
        <<x, a>> \in p2 => Kept(shared, gt[a]) /\ Same(rt2[x], gt[a])
  <2> SUFFICES ASSUME NEW x \in DOMAIN rt2, NEW a \in DOMAIN gt, <<x, a>> \in p2
               PROVE  Kept(shared, gt[a]) /\ Same(rt2[x], gt[a])
    OBVIOUS
  <2> PICK x1 : x1 = x + 1
    OBVIOUS
  <2>1. x1 \in DOMAIN rt /\ rt2[x] = rt[x1] /\ <<x1, a>> \in p
    BY <1>2, <1>3
  <2> QED BY <1>1, <2>1 DEF Pairing
<1>6. \A x, y \in DOMAIN rt2 : \A a, b \in DOMAIN gt :
        <<x, a>> \in p2 /\ <<y, b>> \in p2 => (x < y <=> a < b)
  <2> SUFFICES ASSUME NEW x \in DOMAIN rt2, NEW y \in DOMAIN rt2, NEW a \in DOMAIN gt,
                      NEW b \in DOMAIN gt, <<x, a>> \in p2, <<y, b>> \in p2
               PROVE  x < y <=> a < b
    OBVIOUS
  <2> PICK x1, y1 : x1 = x + 1 /\ y1 = y + 1
    OBVIOUS
  <2>1. x1 \in DOMAIN rt /\ y1 \in DOMAIN rt /\ <<x1, a>> \in p /\ <<y1, b>> \in p
    BY <1>2, <1>3
  <2>2. x1 < y1 <=> a < b
    BY <1>1, <2>1 DEF Pairing
  <2> QED BY <1>2, <2>2
<1>7. \A x \in DOMAIN rt2 : IsCheck(m, rt2[x]) \/ \E a \in DOMAIN gt : <<x, a>> \in p2
  BY <1>1, <1>2, <1>3 DEF Pairing
<1>8. \A a \in DOMAIN gt : Kept(shared, gt[a]) => \E x \in DOMAIN rt2 : <<x, a>> \in p2
  <2> SUFFICES ASSUME NEW a \in DOMAIN gt, Kept(shared, gt[a])
               PROVE  \E x \in DOMAIN rt2 : <<x, a>> \in p2
    OBVIOUS
  <2>1. PICK y \in DOMAIN rt : <<y, a>> \in p
    BY <1>1 DEF Pairing
  <2>2. y > 1
    BY <1>2, <1>4, <2>1
  <2> QED BY <1>2, <1>3, <2>1, <2>2
<1> QED BY <1>5, <1>6, <1>7, <1>8 DEF TodoRel, Pairing

(* An end that does nothing is over.                                       *)
LEMMA RelSkipped ==
  ASSUME NEW m, NEW shared, NEW rt, NEW gt, TodoRel(m, shared, rt, gt), DOMAIN rt \subseteq Nat,
         NEW t, NEW gt2, Comes(gt2, t, gt), Len(t) = 0, ~ Kept(shared, gt[1])
  PROVE  TodoRel(m, shared, rt, gt2)
<1>1. PICK p : Pairing(m, shared, rt, gt, p)
  BY DEF TodoRel
<1>2. /\ DOMAIN gt = 1 .. Len(gt) /\ DOMAIN gt2 = 1 .. Len(gt2) /\ Len(gt) \in Nat /\ Len(gt2) \in Nat
      /\ 1 \in DOMAIN gt /\ Len(gt2) = Len(gt) - 1
      /\ \A x \in DOMAIN gt2 : x \in Nat /\ x + 1 \in DOMAIN gt /\ gt2[x] = gt[x + 1]
      /\ \A x \in DOMAIN gt : x > 1 => x - 1 \in DOMAIN gt2 /\ x - 1 + 1 = x
  BY DEF Comes
<1> DEFINE p2 == {q \in (DOMAIN rt) \X (DOMAIN gt2) : <<q[1], q[2] + 1>> \in p}
<1>3. \A x \in DOMAIN rt : \A a \in DOMAIN gt2 : <<x, a>> \in p2 <=> <<x, a + 1>> \in p
  OBVIOUS
<1> HIDE DEF p2
<1>4. \A x \in DOMAIN rt : <<x, 1>> \notin p
  BY <1>1, <1>2 DEF Pairing
<1>5. \A x \in DOMAIN rt : \A a \in DOMAIN gt2 :
        <<x, a>> \in p2 => Kept(shared, gt2[a]) /\ Same(rt[x], gt2[a])
  BY <1>1, <1>2, <1>3 DEF Pairing
<1>6. \A x, y \in DOMAIN rt : \A a, b \in DOMAIN gt2 :
        <<x, a>> \in p2 /\ <<y, b>> \in p2 => (x < y <=> a < b)
  <2> SUFFICES ASSUME NEW x \in DOMAIN rt, NEW y \in DOMAIN rt, NEW a \in DOMAIN gt2,
                      NEW b \in DOMAIN gt2, <<x, a>> \in p2, <<y, b>> \in p2
               PROVE  x < y <=> a < b
    OBVIOUS
  <2> PICK a1, b1 : a1 = a + 1 /\ b1 = b + 1
    OBVIOUS
  <2>1. a1 \in DOMAIN gt /\ b1 \in DOMAIN gt /\ <<x, a1>> \in p /\ <<y, b1>> \in p
    BY <1>2, <1>3
  <2>2. x < y <=> a1 < b1
    BY <1>1, <2>1 DEF Pairing
  <2> QED BY <1>2, <2>2
<1>7. \A x \in DOMAIN rt : IsCheck(m, rt[x]) \/ \E a \in DOMAIN gt2 : <<x, a>> \in p2
  <2> SUFFICES ASSUME NEW x \in DOMAIN rt, ~ IsCheck(m, rt[x])
               PROVE  \E a \in DOMAIN gt2 : <<x, a>> \in p2
    OBVIOUS
  <2>1. PICK b \in DOMAIN gt : <<x, b>> \in p
    BY <1>1 DEF Pairing
  <2>2. b > 1
    BY <1>2, <1>4, <2>1
  <2> QED BY <1>2, <1>3, <2>1, <2>2
<1>8. \A a \in DOMAIN gt2 : Kept(shared, gt2[a]) => \E x \in DOMAIN rt : <<x, a>> \in p2
  BY <1>1, <1>2, <1>3 DEF Pairing
<1> QED BY <1>5, <1>6, <1>7, <1>8 DEF TodoRel, Pairing

----------------------------------------------------------------------------
(* The state of the decoder is a state of the run.                         *)
Following(shared, loc, g) ==
  /\ made = g.made /\ ids = g.ids /\ dRefsSeen = g.refs /\ result = g.result
  /\ pos = loc[g.n] /\ TodoRel(made, shared, todo, g.todo)

(* It is the last one that is: the next one does something.                *)
Settled(core, shared, loc, R, i) ==
  /\ i \in 1 .. Len(R) /\ Following(shared, loc, R[i])
  /\ i < Len(R) => /\ RunStep(core, shared, R[i], R[i + 1])
                   /\ R[i].todo # <<>> /\ Kept(shared, R[i].todo[1])

(* A set of numbers up to n has a greatest element.                        *)
LEMMA GreatestOf ==
  ASSUME NEW n \in Nat, NEW T \in SUBSET (1 .. n), T # {}
  PROVE  \E x \in T : \A y \in T : y <= x
<1> DEFINE S == {n - x : x \in T}
<1>1. S \in SUBSET Nat /\ S # {}
  <2>1. \A x \in T : n - x \in Nat
    OBVIOUS
  <2>2. \E x : x \in T
    OBVIOUS
  <2> QED BY <2>1, <2>2
<1>2. \A x \in T : n - x \in S
  OBVIOUS
<1>3. \A m \in S : \E x \in T : m = n - x
  OBVIOUS
<1> HIDE DEF S
<1>4. PICK m \in S : \A k \in S : <<k, m>> \notin OpToRel(<, Nat)
  BY <1>1, WFMin, NatLessThanWellFounded, Zenon
<1>5. \A k \in S : ~ (k < m)
  BY <1>1, <1>4, Zenon DEF OpToRel
<1>6. PICK x \in T : m = n - x
  BY <1>3
<1>7. \A y \in T : y <= x
  <2> SUFFICES ASSUME NEW y \in T PROVE y <= x
    OBVIOUS
  <2>1. ~ (n - y < m)
    BY <1>2, <1>5
  <2>2. x \in 1 .. n /\ y \in 1 .. n
    OBVIOUS
  <2> QED BY <1>6, <2>1, <2>2
<1> QED BY <1>7

(* A step of the run over an end that does nothing changes nothing else.   *)
LEMMA SkipsOver ==
  ASSUME NEW core, NEW shared, NEW g \in RunState, NEW h, RunStep(core, shared, g, h),
         ~ Kept(shared, g.todo[1])
  PROVE  /\ g.todo # <<>> /\ h.n = g.n /\ h.made = g.made /\ h.ids = g.ids /\ h.refs = g.refs
         /\ h.result = g.result /\ h.todo = Tail(g.todo)
<1>1. g.todo # <<>>
  BY DEF RunStep, KnownStep, NewStep, CloseStep, Readable
<1>2. g.todo[1].do # "read" /\ g.todo[1].do # "magic"
  BY DEF Kept
<1>3. CloseStep(shared, g, h)
  BY <1>2 DEF RunStep, KnownStep, NewStep, Readable
<1>4. g.todo[1].do = "end" => g.todo[1].at \notin shared
  BY DEF Kept
<1>5. \E ended : h = Closed(g, g.ids, ended)
  BY <1>2, <1>3, <1>4 DEF CloseStep
<1> QED BY <1>1, <1>5 DEF Closed

(* So the decoder is at such a state.                                      *)
LEMMA Settles ==
  ASSUME NEW core, NEW shared, NEW loc, NEW R, Run(core, shared, R), DOMAIN todo \subseteq Nat,
         NEW i \in 1 .. Len(R), Following(shared, loc, R[i])
  PROVE  \E j : Settled(core, shared, loc, R, j)
<1>1. /\ Len(R) \in Nat /\ \A j \in 1 .. Len(R) : R[j] \in RunState
  BY RunEnds
<1> DEFINE T == {j \in 1 .. Len(R) : Following(shared, loc, R[j])}
<1>2. i \in T
  OBVIOUS
<1>3. \A j : j \in T <=> j \in 1 .. Len(R) /\ Following(shared, loc, R[j])
  OBVIOUS
<1>4. T \in SUBSET (1 .. Len(R))
  OBVIOUS
<1> HIDE DEF T
<1>5. PICK x \in T : \A y \in T : y <= x
  BY <1>1, <1>2, <1>4, GreatestOf
<1>6. x \in 1 .. Len(R) /\ Following(shared, loc, R[x])
  BY <1>3
<1>7. ASSUME x < Len(R)
      PROVE  /\ RunStep(core, shared, R[x], R[x + 1])
             /\ R[x].todo # <<>> /\ Kept(shared, R[x].todo[1])
  <2> PICK g, h, y : g = R[x] /\ h = R[x + 1] /\ y = x + 1
    OBVIOUS
  <2>1. RunStep(core, shared, R[x], R[x + 1])
    <3>1. x \in 1 .. Len(R) - 1
      BY <1>1, <1>6, <1>7
    <3> QED BY <3>1 DEF Run
  <2>2. RunStep(core, shared, g, h) /\ g \in RunState /\ Following(shared, loc, g)
    BY <1>1, <1>6, <2>1
  <2>3. Kept(shared, g.todo[1])
    <3> SUFFICES ASSUME ~ Kept(shared, g.todo[1]) PROVE FALSE
      OBVIOUS
    <3>1. /\ g.todo # <<>> /\ h.n = g.n /\ h.made = g.made /\ h.ids = g.ids /\ h.refs = g.refs
          /\ h.result = g.result /\ h.todo = Tail(g.todo)
      BY <2>2, SkipsOver
    <3>2. g.todo \in Seq(RunTask)
      BY <2>2, RunFields
    <3>3. Comes(h.todo, <<>>, g.todo)
      BY <3>1, <3>2, Dropped
    <3>4. TodoRel(made, shared, todo, g.todo)
      BY <2>2 DEF Following
    <3>5. Len(<<>>) = 0
      OBVIOUS
    <3>6. TodoRel(made, shared, todo, h.todo)
      BY <3>3, <3>4, <3>5, RelSkipped
    <3>7. Following(shared, loc, h)
      BY <2>2, <3>1, <3>6 DEF Following
    <3>8. y \in 1 .. Len(R) /\ R[y] = h
      BY <1>1, <1>6, <1>7
    <3>9. y \in T
      BY <1>3, <3>7, <3>8
    <3> QED BY <1>1, <1>5, <1>6, <3>9
  <2>4. g.todo # <<>>
    BY <2>2 DEF RunStep, KnownStep, NewStep, CloseStep, Readable
  <2> QED BY <2>1, <2>3, <2>4
<1>8. Settled(core, shared, loc, R, x)
  BY <1>6, <1>7 DEF Settled
<1> QED BY <1>8

----------------------------------------------------------------------------
(* What the decoder finds.                                                 *)
Aligned(core, shared, loc, R, i) ==
  /\ DecInv /\ decoded = "running" /\ frame = body /\ maxDepth \in Nat
  /\ Layout(body, core, shared, loc) /\ Run(core, shared, R) /\ Final(R).todo = <<>>
  /\ Settled(core, shared, loc, R, i)

(* No task: all is read.                                                   *)
LEMMA AllRead ==
  ASSUME NEW core, NEW shared, NEW loc, NEW R, NEW i, Aligned(core, shared, loc, R, i), todo = <<>>
  PROVE  pos = Len(frame) /\ Following(shared, loc, Final(R))
<1>1. /\ Final(R).n = Len(core) /\ Len(R) \in Nat /\ i \in 1 .. Len(R) /\ R[i] \in RunState
  BY RunEnds DEF Aligned, Settled
<1> PICK g : g = R[i]
  OBVIOUS
<1>2. g.todo \in Seq(RunTask) /\ Following(shared, loc, g)
  BY <1>1, RunFields DEF Aligned, Settled
<1>3. g.todo # <<>> => ~ Kept(shared, g.todo[1])
  <2>1. PICK p : Pairing(made, shared, todo, g.todo, p)
    BY <1>2 DEF Following, TodoRel
  <2>2. DOMAIN todo = {}
    BY DEF Aligned
  <2>3. g.todo # <<>> => 1 \in DOMAIN g.todo
    BY <1>2
  <2> QED BY <2>1, <2>2, <2>3 DEF Pairing
<1>4. i = Len(R)
  BY <1>1, <1>3 DEF Aligned, Settled
<1>5. g = Final(R)
  BY <1>4 DEF Final
<1>6. pos = loc[Len(core)]
  BY <1>1, <1>2, <1>5 DEF Following
<1> QED BY <1>2, <1>5, <1>6 DEF Aligned, Layout

(* A task that is no check: the run has it, and a step that does it.       *)
LEMMA RunGoesOn ==
  ASSUME NEW core, NEW shared, NEW loc, NEW R, NEW i, Aligned(core, shared, loc, R, i), todo # <<>>,
         todo[1].do # "reference"
  PROVE  /\ i \in 1 .. Len(R) - 1 /\ i + 1 \in 1 .. Len(R)
         /\ R[i] \in RunState /\ R[i + 1] \in RunState /\ Following(shared, loc, R[i])
         /\ RunStep(core, shared, R[i], R[i + 1]) /\ R[i].todo # <<>>
         /\ Kept(shared, R[i].todo[1]) /\ Same(todo[1], R[i].todo[1])
<1>1. /\ Len(R) \in Nat /\ i \in 1 .. Len(R) /\ \A j \in 1 .. Len(R) : R[j] \in RunState
  BY RunEnds DEF Aligned, Settled
<1> PICK g : g = R[i]
  OBVIOUS
<1>2. g \in RunState /\ g.todo \in Seq(RunTask) /\ Following(shared, loc, g)
  BY <1>1, RunFields DEF Aligned, Settled
<1>3. DOMAIN todo = 1 .. Len(todo) /\ Len(todo) \in Nat /\ 1 \in DOMAIN todo
  BY HeadOfTodo DEF Aligned
<1>4. PICK p : Pairing(made, shared, todo, g.todo, p)
  BY <1>2 DEF Following, TodoRel
<1>5. g.todo # <<>>
  <2>1. ~ IsCheck(made, todo[1])
    BY DEF IsCheck
  <2>2. \E a \in DOMAIN g.todo : <<1, a>> \in p
    BY <1>3, <1>4, <2>1 DEF Pairing
  <2>3. DOMAIN <<>> = {}
    OBVIOUS
  <2> QED BY <2>2, <2>3
<1>6. i # Len(R)
  BY <1>5 DEF Aligned, Final
<1>7. i < Len(R)
  BY <1>1, <1>6
<1>8. i \in 1 .. Len(R) - 1 /\ i + 1 \in 1 .. Len(R)
  BY <1>1, <1>7
<1>9. RunStep(core, shared, R[i], R[i + 1]) /\ Kept(shared, g.todo[1])
  BY <1>7 DEF Aligned, Settled
<1>10. Same(todo[1], g.todo[1])
  <2>1. DOMAIN g.todo = 1 .. Len(g.todo) /\ Len(g.todo) \in Nat /\ 1 \in DOMAIN g.todo
    BY <1>2, <1>5
  <2> QED BY <1>3, <1>4, <1>9, <2>1, FirstPair
<1> QED BY <1>1, <1>2, <1>5, <1>8, <1>9, <1>10

----------------------------------------------------------------------------
(* The next token of the run is the next of the frame, or the one after    *)
(* the prefix of a shared array.                                           *)
Ahead(shared, loc, c, t) ==
  /\ pos \in Nat /\ pos < Len(frame) /\ t \in NodeToken
  /\ c \notin shared => token = t /\ loc[c] = pos + 1
  /\ c \in shared => /\ token.tag = "shared" /\ t.tag = "array"
                     /\ pos + 1 < Len(frame) /\ frame[pos + 2] = t /\ loc[c] = pos + 2

(* A decoder that has read n tokens of the run has the next one before it.   *)
LEMMA TokenAhead ==
  ASSUME NEW core, NEW shared, NEW loc, Layout(body, core, shared, loc), frame = body,
         NEW n \in Nat, n < Len(core), pos = loc[n], NEW c, c = n + 1, NEW t, t = core[c],
         Len(body) \in Nat
  PROVE  Ahead(shared, loc, c, t)
<1>1. core \in Seq(NodeToken) /\ loc \in [0 .. Len(core) -> 0 .. Len(body)]
  BY DEF Layout
<1>2. c \in 1 .. Len(core) /\ n \in 0 .. Len(core) /\ c \in 0 .. Len(core) /\ Len(core) \in Nat /\ c - 1 = n
  BY <1>1
<1>3. t \in NodeToken /\ loc[c] \in 0 .. Len(body) /\ loc[n] \in 0 .. Len(body)
  <2>1. DOMAIN core = 1 .. Len(core)
    BY <1>1
  <2> QED BY <1>1, <1>2, <2>1
<1>4. /\ body[loc[c]] = core[c]
      /\ IF c \in shared
           THEN core[c].tag = "array" /\ loc[c] = loc[c - 1] + 2 /\ body[loc[c] - 1].tag = "shared"
           ELSE loc[c] = loc[c - 1] + 1
  BY <1>2 DEF Layout
<1> PICK q : q = pos
  OBVIOUS
<1>5. q \in Nat /\ loc[n] = q
  BY <1>3
<1>6. CASE c \notin shared
  <2>1. loc[c] = q + 1
    BY <1>2, <1>4, <1>5, <1>6
  <2>2. frame[q + 1] = t /\ q < Len(frame)
    BY <1>3, <1>4, <1>5, <2>1
  <2> QED BY <1>3, <1>5, <1>6, <2>1, <2>2 DEF Ahead, token
<1>7. CASE c \in shared
  <2>1. loc[c] = q + 2 /\ t.tag = "array" /\ body[loc[c] - 1].tag = "shared"
    BY <1>2, <1>4, <1>5, <1>7
  <2>2. (q + 2) - 1 = q + 1
    BY <1>5
  <2>3. frame[q + 2] = t /\ frame[q + 1].tag = "shared" /\ q + 1 < Len(frame) /\ q < Len(frame)
    BY <1>3, <1>4, <1>5, <2>1, <2>2
  <2> QED BY <1>3, <1>5, <1>7, <2>1, <2>3 DEF Ahead, token
<1> QED BY <1>6, <1>7

(* The decoder's task and the run's.                                       *)
ReadingBoth(g) ==
  /\ todo # <<>> /\ todoHead = todo[1] /\ todoHead.do = "read"
  /\ g.todo # <<>> /\ g.todo[1].do = "read" /\ g.todo[1].into = todoHead.into
  /\ g.todo[1].depth = todoHead.depth /\ g.todo[1].hot = todoHead.hot
  /\ todoHead.into \in {0} \cup DOMAIN made /\ todoHead.depth \in Nat

(* A value is read.                                                        *)
ReadsAt(core, shared, loc, g, h, c, t) ==
  /\ DecInv /\ decoded = "running" /\ maxDepth \in Nat
  /\ g \in RunState /\ h \in RunState /\ Following(shared, loc, g)
  /\ ReadingBoth(g) /\ c = g.n + 1 /\ t = core[c] /\ Ahead(shared, loc, c, t)
  /\ Readable(core, g) /\ RunStep(core, shared, g, h)

(* Where the decoder reads a value, so does the run, and the same token.     *)
LEMMA ReadsNext ==
  ASSUME NEW core, NEW shared, NEW loc, NEW R, NEW i, Aligned(core, shared, loc, R, i), todo # <<>>,
         todo[1].do = "read", NEW g, NEW h, g = R[i], h = R[i + 1]
  PROVE  \E c, t : ReadsAt(core, shared, loc, g, h, c, t)
<1>1. /\ g \in RunState /\ h \in RunState /\ Following(shared, loc, g)
      /\ RunStep(core, shared, g, h) /\ g.todo # <<>> /\ Kept(shared, g.todo[1]) /\ Same(todo[1], g.todo[1])
  BY RunGoesOn
<1>2. /\ todoHead = todo[1] /\ todoHead \in DecTask /\ todoHead.into \in {0} \cup Entities
  BY HeadOfTodo DEF Aligned
<1>3. g.todo[1].do = "read"
  <2>1. g.todo[1] \in RunTask
    BY <1>1, RunFields
  <2> QED BY <1>1, <2>1, RunFields DEF Same, Kept
<1>4. ReadingBoth(g)
  BY <1>1, <1>2, <1>3 DEF ReadingBoth, Same, DecTask, Entities
<1>5. Readable(core, g)
  BY <1>1, <1>3 DEF RunStep, KnownStep, NewStep, CloseStep
<1> PICK c, t : c = g.n + 1 /\ t = core[c]
  OBVIOUS
<1>6. Ahead(shared, loc, c, t)
  <2>1. g.n \in Nat /\ g.n < Len(core) /\ pos = loc[g.n]
    BY <1>1, <1>5, RunFields DEF Readable, Following
  <2>2. Len(body) \in Nat /\ frame = body /\ Layout(body, core, shared, loc)
    BY DEF Aligned, DecInv, DecTyped
  <2> QED BY <2>1, <2>2, TokenAhead
<1> QED BY <1>1, <1>4, <1>5, <1>6 DEF ReadsAt, Aligned

(* What may happen to a value that is not refused, by its token.           *)
LEMMA WhichRead ==
  ASSUME todo # <<>>, todoHead.do = "read", DecNext, ~ Refused
  PROVE  /\ decoded = "running" /\ decoded' = "running"
         /\ \/ token.tag \in ScalarTags /\ ReadScalar
            \/ token.tag = "ref" /\ ReadBackReference
            \/ token.tag = "array" /\ ReadArray
            \/ token.tag = "shared" /\ ReadSharedArray
            \/ token.tag = "new_ref" /\ ReadNewReference
            \/ token.tag \in {"object", "leaf"} /\ ReadObject
            \/ token.tag = "magic" /\ ReadMagicObject
<1>1. DecStep
  BY DEF DecNext, DecFail, DecFinish
<1>2. ~ SharedArrayComplete /\ ~ ReferenceComplete /\ ~ MagicObjectComplete
  BY DEF SharedArrayComplete, ReferenceComplete, MagicObjectComplete
<1>3. CASE ReadScalar
  BY <1>3 DEF ReadScalar, Reading
<1>4. CASE ReadBackReference
  BY <1>4 DEF ReadBackReference, Reading
<1>5. CASE ReadArray
  BY <1>5 DEF ReadArray, Reading
<1>6. CASE ReadSharedArray
  BY <1>6 DEF ReadSharedArray, Reading
<1>7. CASE ReadNewReference
  BY <1>7 DEF ReadNewReference, Reading
<1>8. CASE ReadObject
  BY <1>8 DEF ReadObject, Reading
<1>9. CASE ReadMagicObject
  BY <1>9 DEF ReadMagicObject, Reading
<1> QED BY <1>1, <1>2, <1>3, <1>4, <1>5, <1>6, <1>7, <1>8, <1>9 DEF DecStep

(* The value is stored in both, and the new tasks are alike.               *)
LEMMA BothRead ==
  ASSUME NEW core, NEW shared, NEW loc, NEW g, NEW h, NEW c, NEW t,
         ReadsAt(core, shared, loc, g, h, c, t), NEW d, NEW tasks, Took(g, h, d, tasks),
         made' = h.made, ids' = h.ids, dRefsSeen' = h.refs, pos' = loc[c],
         result' = IF todoHead.into = 0 THEN d ELSE result,
         NEW s \in Seq(DecTask), todo' = s \o Tail(todo), NEW k, Alike(h.made, shared, s, tasks, k)
  PROVE  Following(shared, loc, h)'
<1>1. /\ made = g.made /\ result = g.result /\ TodoRel(g.made, shared, todo, g.todo)
      /\ c = g.n + 1 /\ g.todo[1].into = todoHead.into /\ todo[1].do # "reference"
      /\ g.todo[1].do = "read" /\ todo # <<>> /\ DecInv
  BY DEF ReadsAt, Following, ReadingBoth
<1>2. /\ Comes(h.todo, tasks, g.todo) /\ Grew(g.made, h.made, g.todo[1].into, d) /\ h.n = c
      /\ h.result = IF g.todo[1].into = 0 THEN d ELSE g.result
  BY <1>1 DEF Took
<1>3. References(g.made, h.made)
  BY <1>2 DEF Grew, References, IsReference
<1>4. todo \in Seq(DecTask)
  BY <1>1, HeadOfTodo
<1>5. Comes(todo', s, todo)
  BY <1>1, <1>4, Replaced
<1>6. Kept(shared, g.todo[1])
  BY <1>1 DEF Kept
<1>7. TodoRel(h.made, shared, todo', h.todo)
  BY <1>1, <1>2, <1>3, <1>5, <1>6, RelPut
<1>8. result' = h.result /\ pos' = loc[h.n]
  BY <1>1, <1>2
<1> QED BY <1>7, <1>8 DEF Following

(* A token for a known value is read.                                      *)
LEMMA KnownFollows ==
  ASSUME NEW core, NEW shared, NEW loc, NEW g, NEW h, NEW c, NEW t,
         ReadsAt(core, shared, loc, g, h, c, t), KnownStep(core, g, h), DecNext
  PROVE  decoded' = "running" /\ Following(shared, loc, h)'
<1>1. /\ g \in RunState /\ made = g.made /\ ids = g.ids /\ dRefsSeen = g.refs /\ result = g.result
      /\ ReadingBoth(g) /\ Ahead(shared, loc, c, t) /\ Readable(core, g) /\ c = g.n + 1 /\ t = core[c]
      /\ DecInv
  BY DEF ReadsAt, Following
<1>2. PICK d \in {DScalar, DNull} \cup DOMAIN g.made : StandsFor(g, t, d) /\ h = KnownFed(g, d)
  BY <1>1 DEF KnownStep
<1>3. t.tag \in ScalarTags \cup {"ref"} /\ t.tag # "array" /\ t.tag \notin {"shared", "new_ref"}
  BY <1>2 DEF StandsFor, ScalarTags
<1>4. token = t /\ loc[c] = pos + 1 /\ pos < Len(frame) /\ pos \in Nat
  BY <1>1, <1>3 DEF Ahead
<1>5. ~ Refused
  <2>1. DepthAllows
    BY <1>1, <1>4 DEF DepthAllows, Readable, ReadingBoth
  <2>2. token.tag = "ref" => InTable(token.arg)
    BY <1>1, <1>2, <1>4 DEF StandsFor, InTable, ScalarTags
  <2>3. todoHead.do = "read" /\ ~ (pos >= Len(frame))
    <3>1. Len(frame) \in Nat
      BY <1>1 DEF DecInv, DecTyped
    <3> QED BY <1>1, <1>4, <3>1 DEF ReadingBoth
  <2>4. token.tag # "shared" /\ token.tag # "new_ref"
    BY <1>3, <1>4
  <2> QED BY <2>1, <2>2, <2>3, <2>4 DEF Refused
<1>6. /\ decoded' = "running"
      /\ (token.tag \in ScalarTags /\ ReadScalar) \/ (token.tag = "ref" /\ ReadBackReference)
  <2>1. todo # <<>> /\ todoHead.do = "read"
    BY <1>1 DEF ReadingBoth
  <2> QED BY <1>3, <1>4, <1>5, <2>1, WhichRead DEF ScalarTags
<1>7. /\ Took(g, h, d, <<>>) /\ h.ids = g.ids
      /\ h.refs = g.refs + (IF IsReference(g.made, d) THEN 1 ELSE 0)
  BY <1>1, <1>2, KnownTook DEF ReadingBoth
<1>8. h.made = Stored(g.made, g.todo[1].into, d)
  BY <1>2 DEF KnownFed, Fed
<1>9. Entities = DOMAIN made /\ 0 \notin Entities /\ -1 \notin Entities
  BY <1>1, MadeTyped DEF Entities
<1>10. Store(made, d) /\ dRefsSeen' = h.refs
  <2>1. CASE token.tag \in ScalarTags /\ ReadScalar
    <3>1. d = IF token.tag = "null" THEN DNull ELSE DScalar
      BY <1>2, <1>4, <2>1 DEF StandsFor, ScalarTags
    <3>2. ~ IsReference(g.made, d)
      BY <1>1, <1>9, <3>1 DEF IsReference, DNull, DScalar
    <3>3. dRefsSeen' = dRefsSeen /\ dRefsSeen \in Nat
      BY <1>1, <2>1, MadeTyped DEF ReadScalar
    <3> QED BY <1>1, <1>7, <2>1, <3>1, <3>2, <3>3 DEF ReadScalar
  <2>2. CASE token.tag = "ref" /\ ReadBackReference
    <3>1. d = ids[token.arg + 1] /\ token.arg < Len(ids)
      BY <1>1, <1>2, <1>4, <2>2 DEF StandsFor, ScalarTags
    <3>2. d \in Entities
      <4>1. token.arg + 1 \in DOMAIN ids
        <5>1. token.arg \in Nat /\ ids \in Seq(Nat)
          BY <1>1, <1>4, MadeTyped DEF Ahead, NodeToken
        <5> QED BY <3>1, <5>1
      <4> QED BY <1>1, <3>1, <4>1, MadeTyped
    <3>3. Store(made, d) /\ dRefsSeen' = dRefsSeen + (IF made[d].kind = "reference" THEN 1 ELSE 0)
      BY <2>2, <3>1 DEF ReadBackReference
    <3> QED BY <1>1, <1>7, <1>9, <3>2, <3>3 DEF IsReference
  <2> QED BY <1>6, <2>1, <2>2
<1>11. /\ made' = h.made /\ result' = IF todoHead.into = 0 THEN d ELSE result
  BY <1>1, <1>8, <1>10 DEF Store, StoreIn, Stored, ReadingBoth
<1>12. pos' = loc[c] /\ ids' = h.ids /\ todo' = <<>> \o Tail(todo)
  BY <1>1, <1>4, <1>6, <1>7 DEF ReadScalar, ReadBackReference, Advance, ThenRead
<1>13. Alike(h.made, shared, <<>>, <<>>, 0)
  BY DEF Alike
<1>14. <<>> \in Seq(DecTask)
  OBVIOUS
<1>15. Following(shared, loc, h)'
  BY <1>7, <1>10, <1>11, <1>12, <1>13, <1>14, BothRead
<1> QED BY <1>6, <1>15

(* The tasks of the decoder for what a token announces.                    *)
TasksOf(s, t, e, depth, refs, marked) ==
  /\ Len(s) \in Nat /\ DOMAIN s = 1 .. Len(s)
  /\ \A x \in 1 .. t.arg :
       x \in DOMAIN s /\ s[x] = ReadTask(e, depth, t.tag \notin {"new_ref", "magic"})
  /\ \/ Len(s) = t.arg /\ t.tag \in {"array", "object", "leaf"} /\ ~ marked
     \/ /\ Len(s) = t.arg + 1 /\ t.tag = "array" /\ marked
        /\ s[t.arg + 1] = [do |-> "shared", entity |-> e, refs |-> refs]
     \/ /\ Len(s) = t.arg + 1 /\ t.tag = "new_ref" /\ ~ marked
        /\ s[t.arg + 1] = [do |-> "reference", entity |-> e]
     \/ /\ Len(s) = t.arg + 1 /\ t.tag = "magic" /\ ~ marked
        /\ s[t.arg + 1] = [do |-> "magic", entity |-> e]

(* They are like those of the run.                                         *)
LEMMA TasksAlike ==
  ASSUME NEW g \in RunState, NEW t \in NodeToken, NEW e, e = Len(g.made) + 1,
         NEW c, c = g.n + 1, NEW ender \in Enders(t.tag, c, e, g.refs),
         NEW tasks, Opening(g, t, ender, tasks), NEW shared, c \in shared => ender # <<>>,
         NEW s, TasksOf(s, t, e, g.todo[1].depth + 1, g.refs, c \in shared),
         NEW m, t.tag = "new_ref" => IsReference(m, e)
  PROVE  \E k : Alike(m, shared, s, tasks, k)
<1>1. /\ t.arg \in Nat /\ DOMAIN tasks = 1 .. Len(tasks) /\ Len(tasks) \in Nat
      /\ Len(s) \in Nat /\ DOMAIN s = 1 .. Len(s)
      /\ Len(tasks) \in {t.arg, t.arg + 1} /\ Len(s) \in {t.arg, t.arg + 1}
  BY DEF Opening, TasksOf
<1> PICK a : a = t.arg
  OBVIOUS
<1>2. \A x \in 1 .. a : /\ x \in DOMAIN s /\ x \in DOMAIN tasks
                        /\ Same(s[x], tasks[x]) /\ Kept(shared, tasks[x])
  <2> SUFFICES ASSUME NEW x \in 1 .. a
               PROVE  /\ x \in DOMAIN s /\ x \in DOMAIN tasks
                      /\ Same(s[x], tasks[x]) /\ Kept(shared, tasks[x])
    OBVIOUS
  <2>1. x \in DOMAIN s /\ s[x] = ReadTask(e, g.todo[1].depth + 1, t.tag \notin {"new_ref", "magic"})
    BY DEF TasksOf
  <2>2. /\ x \in DOMAIN tasks /\ IsRead(tasks[x], e, x) /\ tasks[x].depth = g.todo[1].depth + 1
        /\ tasks[x].hot = (t.tag \notin {"new_ref", "magic"})
    BY DEF Opening
  <2>3. /\ s[x].do = "read" /\ s[x].into = e /\ s[x].depth = g.todo[1].depth + 1
        /\ s[x].hot = (t.tag \notin {"new_ref", "magic"})
    BY <2>1 DEF ReadTask
  <2>4. Same(s[x], tasks[x]) /\ Kept(shared, tasks[x])
    BY <2>2, <2>3 DEF Same, Kept, IsRead
  <2> QED BY <2>1, <2>2, <2>4
<1>3. /\ \A x \in DOMAIN s : x <= a \/ (x = a + 1 /\ Len(s) = a + 1)
      /\ \A x \in DOMAIN tasks : x <= a \/ (x = a + 1 /\ Len(tasks) = a + 1)
      /\ \A x \in DOMAIN s : x <= a => x \in 1 .. a
      /\ \A x \in DOMAIN tasks : x <= a => x \in 1 .. a
      /\ ~ (a + 1 <= a) /\ a <= Len(s) /\ a <= Len(tasks) /\ a \in Nat
  BY <1>1
<1>4. Len(tasks) = a + 1 => ender = <<tasks[a + 1]>>
  BY <1>1 DEF Opening
<1>5. CASE Len(s) = a /\ t.tag \in {"array", "object", "leaf"} /\ c \notin shared
  <2>1. Len(tasks) = a + 1 => ~ Kept(shared, tasks[a + 1])
    <3> SUFFICES ASSUME Len(tasks) = a + 1 PROVE ~ Kept(shared, tasks[a + 1])
      OBVIOUS
    <3> PICK z : z = tasks[a + 1]
      OBVIOUS
    <3>0. ender = <<z>> /\ <<z>> # <<>> /\ <<z>>[1] = z
      BY <1>4
    <3>1. ender # <<>> /\ ender[1] = tasks[a + 1]
      BY <3>0
    <3>2. ender \in {<<EndTask(c, e, g.refs)>>, <<NothingTask>>}
      BY <1>5, <3>1 DEF Enders
    <3>3. ender[1] \in {EndTask(c, e, g.refs), NothingTask}
      BY <3>2
    <3> QED BY <1>5, <3>1, <3>3 DEF Kept, EndTask, NothingTask
  <2>2. Alike(m, shared, s, tasks, a)
    <3>1. \A x \in DOMAIN s : x <= a
      BY <1>3, <1>5
    <3>2. \A x \in DOMAIN tasks : Kept(shared, tasks[x]) <=> x <= a
      BY <1>2, <1>3, <2>1
    <3> QED BY <1>2, <1>3, <3>1, <3>2 DEF Alike
  <2> QED BY <2>2
<1>6. CASE /\ Len(s) = a + 1 /\ t.tag = "new_ref"
           /\ s[a + 1] = [do |-> "reference", entity |-> e]
  <2>1. ender = <<>>
    BY <1>6 DEF Enders
  <2>2. Len(tasks) = a
    <3>1. <<tasks[a + 1]>> # <<>>
      OBVIOUS
    <3> QED BY <1>1, <1>4, <2>1, <3>1
  <2>3. IsCheck(m, s[a + 1])
    BY <1>6 DEF IsCheck
  <2>4. Alike(m, shared, s, tasks, a)
    <3>1. \A x \in DOMAIN tasks : Kept(shared, tasks[x]) <=> x <= a
      BY <1>2, <1>3, <2>2
    <3> QED BY <1>2, <1>3, <2>3, <3>1 DEF Alike
  <2> QED BY <2>4
<1>7. CASE /\ Len(s) = a + 1 /\ Len(tasks) = a + 1
           /\ Same(s[a + 1], tasks[a + 1]) /\ Kept(shared, tasks[a + 1])
  <2>1. \A x \in DOMAIN s : x <= a + 1 /\ Same(s[x], tasks[x])
    BY <1>1, <1>2, <1>3, <1>7
  <2>2. \A x \in DOMAIN tasks : Kept(shared, tasks[x]) /\ x <= a + 1
    BY <1>1, <1>2, <1>3, <1>7
  <2>3. Alike(m, shared, s, tasks, a + 1)
    BY <1>3, <1>7, <2>1, <2>2 DEF Alike
  <2> QED BY <2>3
<1>8. CASE /\ Len(s) = a + 1 /\ t.tag = "array" /\ c \in shared
           /\ s[a + 1] = [do |-> "shared", entity |-> e, refs |-> g.refs]
  <2>1. ender = <<EndTask(c, e, g.refs)>>
    BY <1>8 DEF Enders
  <2>2. Len(tasks) = a + 1
    <3>1. ender # <<>>
      BY <2>1
    <3> QED BY <3>1 DEF Opening
  <2>3. tasks[a + 1] = EndTask(c, e, g.refs)
    BY <1>4, <2>1, <2>2
  <2>4. Same(s[a + 1], tasks[a + 1]) /\ Kept(shared, tasks[a + 1])
    BY <1>8, <2>3 DEF Same, Kept, EndTask
  <2> QED BY <1>7, <1>8, <2>2, <2>4
<1>9. CASE /\ Len(s) = a + 1 /\ t.tag = "magic"
           /\ s[a + 1] = [do |-> "magic", entity |-> e]
  <2>1. ender = <<MagicTask(e)>>
    BY <1>9 DEF Enders
  <2>2. Len(tasks) = a + 1
    <3>1. ender # <<>>
      BY <2>1
    <3> QED BY <3>1 DEF Opening
  <2>3. tasks[a + 1] = MagicTask(e)
    BY <1>4, <2>1, <2>2
  <2>4. Same(s[a + 1], tasks[a + 1]) /\ Kept(shared, tasks[a + 1])
    BY <1>9, <2>3 DEF Same, Kept, MagicTask
  <2> QED BY <1>7, <1>9, <2>2, <2>4
<1> QED BY <1>5, <1>6, <1>8, <1>9 DEF TasksOf

(* Tasks that read, and one more.                                          *)
OneMore(s, count, task_, z) ==
  /\ s \in Seq(DecTask) /\ Len(s) = count + 1 /\ DOMAIN s = 1 .. Len(s)
  /\ \A x \in 1 .. count : x \in DOMAIN s /\ s[x] = task_
  /\ s[count + 1] = z

(* They are what ReadTasks and a task after them make.                       *)
LEMMA ReadsThenOne ==
  ASSUME NEW count \in Nat, NEW e \in Nat, NEW depth \in Nat, NEW z \in DecTask,
         NEW s, s = ReadTasks(count, e, depth) \o <<z>>
  PROVE  OneMore(s, count, ReadTask(e, depth, TRUE), z)
<1> PICK r : r = ReadTasks(count, e, depth)
  OBVIOUS
<1>1. r \in Seq(DecTask) /\ Len(r) = count /\ \A x \in 1 .. count : r[x] = ReadTask(e, depth, TRUE)
  <2>1. r = [i \in 1 .. count |-> ReadTask(e, depth, TRUE)]
    BY DEF ReadTasks
  <2>2. r \in Seq(DecTask) /\ Len(r) = count
    BY ReadTasksTyped
  <2> QED BY <2>1, <2>2
<1>2. <<z>> \in Seq(DecTask) /\ Len(<<z>>) = 1 /\ <<z>>[1] = z /\ 1 \in DOMAIN <<z>>
  <2>1. ASSUME NEW X, NEW y \in X PROVE <<y>> \in Seq(X) /\ Len(<<y>>) = 1 /\ <<y>>[1] = y /\ 1 \in DOMAIN <<y>>
    OBVIOUS
  <2> QED BY <2>1
<1> PICK q : q = <<z>>
  OBVIOUS
<1>3. s \in Seq(DecTask) /\ Joined(s, r, q)
  <2>1. r \in Seq(DecTask) /\ q \in Seq(DecTask)
    BY <1>1, <1>2
  <2> QED BY <2>1, Joins
<1>4. /\ Len(s) = count + 1 /\ DOMAIN s = 1 .. Len(s)
      /\ \A x \in 1 .. count : x \in DOMAIN s /\ s[x] = r[x]
      /\ s[1 + count] = q[1]
  BY <1>1, <1>2, <1>3 DEF Joined
<1>5. 1 + count = count + 1
  OBVIOUS
<1> QED BY <1>1, <1>2, <1>3, <1>4, <1>5 DEF OneMore

(* One that reads, and one more.                                           *)
LEMMA ReadAndOne ==
  ASSUME NEW e \in Nat, NEW depth \in Nat, NEW z \in DecTask,
         NEW s, s = <<ReadTask(e, depth, FALSE), z>>
  PROVE  OneMore(s, 1, ReadTask(e, depth, FALSE), z)
<1>1. ReadTask(e, depth, FALSE) \in DecTask
  BY DEF ReadTask, DecTask
<1>2. ASSUME NEW X, NEW x \in X, NEW y \in X
      PROVE  /\ <<x, y>> \in Seq(X) /\ Len(<<x, y>>) = 2 /\ DOMAIN <<x, y>> = 1 .. 2
             /\ <<x, y>>[1] = x /\ <<x, y>>[2] = y
  OBVIOUS
<1>3. PICK w : w = ReadTask(e, depth, FALSE)
  OBVIOUS
<1>4. w \in DecTask /\ s = <<w, z>>
  BY <1>1, <1>3
<1>5. /\ <<w, z>> \in Seq(DecTask) /\ Len(<<w, z>>) = 2 /\ DOMAIN <<w, z>> = 1 .. 2
      /\ <<w, z>>[1] = w /\ <<w, z>>[2] = z
  <2>1. w \in DecTask /\ z \in DecTask
    BY <1>4
  <2> QED BY <1>2, <2>1
<1>6. Len(s) = 2 /\ s[1] = w /\ s[2] = z /\ s \in Seq(DecTask) /\ DOMAIN s = 1 .. 2
  BY <1>4, <1>5
<1>7. \A x \in 1 .. 1 : x = 1
  OBVIOUS
<1>8. 1 \in DOMAIN s
  BY <1>6
<1>9. /\ s \in Seq(DecTask) /\ Len(s) = 1 + 1 /\ DOMAIN s = 1 .. Len(s) /\ s[1 + 1] = z
      /\ \A x \in 1 .. 1 : x \in DOMAIN s /\ s[x] = w
  <2>1. 1 + 1 = 2
    OBVIOUS
  <2>2. \A x \in 1 .. 1 : x \in DOMAIN s /\ s[x] = w
    BY <1>6, <1>7, <1>8
  <2>3. Len(s) = 1 + 1 /\ DOMAIN s = 1 .. Len(s) /\ s[1 + 1] = z
    BY <1>6, <2>1
  <2> QED BY <1>6, <2>2, <2>3
<1> QED BY <1>3, <1>9 DEF OneMore

(* What the decoder has done after a token that makes an entity.           *)
Makes(g, t, c, marked, loc, e, dd, s) ==
  /\ s \in Seq(DecTask) /\ TasksOf(s, t, e, dd, g.refs, marked)
  /\ todo' = s \o Tail(todo) /\ pos' = loc[c]
  /\ Store(Append(made, Entity(t)), e)
  /\ ids' = IF t.tag = "array" THEN ids ELSE Append(ids, e)
  /\ dRefsSeen' = dRefsSeen + (IF t.tag = "new_ref" THEN 1 ELSE 0)
(* What is known before it.                                                *)
AboutToMake(g, t, c, marked, loc, a, e, dd) ==
  /\ g \in RunState /\ DecInv /\ t \in NodeToken /\ t.tag \in EntityTags
  /\ t.tag \in {"new_ref", "magic"} => t.arg = 1
  /\ a \in Nat /\ e \in Nat /\ dd \in Nat /\ a = t.arg /\ e = Len(made) + 1
  /\ dd = todoHead.depth + 1 /\ g.refs = dRefsSeen /\ dRefsSeen \in Nat /\ pos \in Nat
  /\ IF marked THEN t.tag = "array" /\ frame[pos + 2] = t /\ loc[c] = pos + 2
               ELSE token = t /\ loc[c] = pos + 1

(* An array.                                                               *)
LEMMA ArrayMade ==
  ASSUME NEW g, NEW t, NEW c, NEW marked \in BOOLEAN, NEW loc, NEW a, NEW e, NEW dd,
         AboutToMake(g, t, c, marked, loc, a, e, dd),
         t.tag = "array", IF marked THEN ReadSharedArray ELSE ReadArray
  PROVE  \E s : Makes(g, t, c, marked, loc, e, dd, s)
<1>t. /\ a \in Nat /\ e \in Nat /\ dd \in Nat /\ dRefsSeen \in Nat /\ g.refs = dRefsSeen
      /\ a = t.arg /\ e = Len(made) + 1 /\ dd = todoHead.depth + 1 /\ pos \in Nat
      /\ IF marked THEN frame[pos + 2] = t /\ loc[c] = pos + 2
                   ELSE token = t /\ loc[c] = pos + 1
      /\ t.tag \in {"new_ref", "magic"} => a = 1
  BY DEF AboutToMake
<1>u. a \in Nat /\ e \in Nat /\ dd \in Nat
  BY <1>t
<1>0. Append(made, Entity(t)) = Append(made, [kind |-> "array", kids |-> <<>>, from |-> t])
  BY DEF Entity, MadeKind
<1>2. CASE marked
  <2>0. ASSUME NEW z \in DecTask
        PROVE  OneMore(ReadTasks(a, e, dd) \o <<z>>, a, ReadTask(e, dd, TRUE), z)
    BY <1>u, ReadsThenOne
  <2> PICK z : z = [do |-> "shared", entity |-> e, refs |-> dRefsSeen]
    OBVIOUS
  <2>1. z \in DecTask
    BY <1>t DEF DecTask
  <2> PICK s : s = ReadTasks(a, e, dd) \o <<z>>
    OBVIOUS
  <2>2. /\ s \in Seq(DecTask) /\ Len(s) = a + 1 /\ DOMAIN s = 1 .. Len(s)
        /\ \A x \in 1 .. a : x \in DOMAIN s /\ s[x] = ReadTask(e, dd, TRUE)
        /\ s[a + 1] = z
    <3>1. OneMore(s, a, ReadTask(e, dd, TRUE), z)
      BY <2>0, <2>1
    <3> QED BY <3>1 DEF OneMore
  <2>3. TasksOf(s, t, e, dd, g.refs, marked)
    <3>1. \A x \in 1 .. a : x \in DOMAIN s /\ s[x] = ReadTask(e, dd, t.tag \notin {"new_ref", "magic"})
      BY <2>2
    <3>2. s[a + 1] = [do |-> "shared", entity |-> e, refs |-> g.refs]
      BY <1>t, <2>2
    <3> QED BY <1>t, <1>2, <2>2, <3>1, <3>2 DEF TasksOf
  <2>4. todo' = s \o Tail(todo) /\ pos' = loc[c] /\ Store(Append(made, Entity(t)), e)
        /\ ids' = ids /\ dRefsSeen' = dRefsSeen
    BY <1>t, <1>0, <1>2 DEF ReadSharedArray, ThenRead, new
  <2>5. dRefsSeen = dRefsSeen + 0
    BY <1>t
  <2>z. Makes(g, t, c, marked, loc, e, dd, s)
    BY <2>2, <2>3, <2>4, <2>5 DEF Makes
  <2> QED BY <2>z
<1>3. CASE ~ marked
  <2> PICK s : s = ReadTasks(a, e, dd)
    OBVIOUS
  <2>1. s \in Seq(DecTask) /\ Len(s) = a
    BY <1>u, ReadTasksTyped
  <2>2. DOMAIN s = 1 .. Len(s) /\ \A x \in 1 .. a : x \in DOMAIN s /\ s[x] = ReadTask(e, dd, TRUE)
    BY <1>t, <2>1 DEF ReadTasks
  <2>3. TasksOf(s, t, e, dd, g.refs, marked)
    BY <1>t, <1>3, <2>1, <2>2 DEF TasksOf
  <2>4. todo' = s \o Tail(todo) /\ pos' = loc[c] /\ Store(Append(made, Entity(t)), e)
        /\ ids' = ids /\ dRefsSeen' = dRefsSeen
    BY <1>t, <1>0, <1>3 DEF ReadArray, ThenRead, new, Advance, Create
  <2>5. dRefsSeen = dRefsSeen + 0
    BY <1>t
  <2>z. Makes(g, t, c, marked, loc, e, dd, s)
    BY <2>1, <2>3, <2>4, <2>5 DEF Makes
  <2> QED BY <2>z
<1> QED BY <1>2, <1>3

(* An object with properties, or with none.                                *)
LEMMA ObjectMade ==
  ASSUME NEW g, NEW t, NEW c, NEW marked \in BOOLEAN, NEW loc, NEW a, NEW e, NEW dd,
         AboutToMake(g, t, c, marked, loc, a, e, dd), ~ marked,
         t.tag \in {"object", "leaf"}, ReadObject
  PROVE  \E s : Makes(g, t, c, marked, loc, e, dd, s)
<1>t. /\ a \in Nat /\ e \in Nat /\ dd \in Nat /\ dRefsSeen \in Nat /\ g.refs = dRefsSeen
      /\ a = t.arg /\ e = Len(made) + 1 /\ dd = todoHead.depth + 1 /\ pos \in Nat
      /\ IF marked THEN frame[pos + 2] = t /\ loc[c] = pos + 2
                   ELSE token = t /\ loc[c] = pos + 1
      /\ t.tag \in {"new_ref", "magic"} => a = 1
  BY DEF AboutToMake
<1>u. a \in Nat /\ e \in Nat /\ dd \in Nat
  BY <1>t
<1>0. Append(made, Entity(t)) = Append(made, [kind |-> "object", kids |-> <<>>, from |-> t])
  BY DEF Entity, MadeKind
<1> PICK s : s = ReadTasks(a, e, dd)
  OBVIOUS
<1>2. s \in Seq(DecTask) /\ Len(s) = a
  BY <1>u, ReadTasksTyped
<1>3. DOMAIN s = 1 .. Len(s) /\ \A x \in 1 .. a : x \in DOMAIN s /\ s[x] = ReadTask(e, dd, TRUE)
  BY <1>t, <1>2 DEF ReadTasks
<1>4. TasksOf(s, t, e, dd, g.refs, marked)
  BY <1>t, <1>2, <1>3 DEF TasksOf
<1>5. todo' = s \o Tail(todo) /\ pos' = loc[c] /\ Store(Append(made, Entity(t)), e)
      /\ ids' = Append(ids, e) /\ dRefsSeen' = dRefsSeen
  BY <1>t, <1>0 DEF ReadObject, ThenRead, new, Advance, Create, Register
<1>6. dRefsSeen = dRefsSeen + 0
  BY <1>t
<1>z. Makes(g, t, c, marked, loc, e, dd, s)
  BY <1>6, <1>2, <1>4, <1>5 DEF Makes
<1> QED BY <1>z

(* A reference, or an object that has one array.                           *)
LEMMA WrapperMade ==
  ASSUME NEW g, NEW t, NEW c, NEW marked \in BOOLEAN, NEW loc, NEW a, NEW e, NEW dd,
         AboutToMake(g, t, c, marked, loc, a, e, dd), ~ marked,
         (t.tag = "new_ref" /\ ReadNewReference) \/ (t.tag = "magic" /\ ReadMagicObject)
  PROVE  \E s : Makes(g, t, c, marked, loc, e, dd, s)
<1>t. /\ a \in Nat /\ e \in Nat /\ dd \in Nat /\ dRefsSeen \in Nat /\ g.refs = dRefsSeen
      /\ a = t.arg /\ e = Len(made) + 1 /\ dd = todoHead.depth + 1 /\ pos \in Nat
      /\ IF marked THEN frame[pos + 2] = t /\ loc[c] = pos + 2
                   ELSE token = t /\ loc[c] = pos + 1
      /\ t.tag \in {"new_ref", "magic"} => a = 1
  BY DEF AboutToMake
<1>u. a \in Nat /\ e \in Nat /\ dd \in Nat
  BY <1>t
<1>0. ASSUME NEW z \in DecTask
      PROVE  OneMore(<<ReadTask(e, dd, FALSE), z>>, 1, ReadTask(e, dd, FALSE), z)
  BY <1>u, ReadAndOne
<1> PICK z : z = [do |-> IF t.tag = "new_ref" THEN "reference" ELSE "magic", entity |-> e]
  OBVIOUS
<1>1. z \in DecTask
  BY <1>t DEF DecTask
<1> PICK s : s = <<ReadTask(e, dd, FALSE), z>>
  OBVIOUS
<1>2. s \in Seq(DecTask) /\ Len(s) = 2 /\ DOMAIN s = 1 .. 2 /\ s[1] = ReadTask(e, dd, FALSE) /\ s[2] = z
  <2>1. OneMore(s, 1, ReadTask(e, dd, FALSE), z)
    BY <1>0, <1>1
  <2>2. 1 \in 1 .. 1 /\ 1 + 1 = 2
    OBVIOUS
  <2> QED BY <2>1, <2>2 DEF OneMore
<1>3. a = 1 /\ t.tag \in {"new_ref", "magic"}
  BY <1>t
<1>4. TasksOf(s, t, e, dd, g.refs, marked)
  <2>1. \A x \in 1 .. a : x \in DOMAIN s /\ s[x] = ReadTask(e, dd, t.tag \notin {"new_ref", "magic"})
    <3>1. (t.tag \notin {"new_ref", "magic"}) = FALSE
      BY <1>3
    <3>2. \A x \in 1 .. a : x = 1
      BY <1>3
    <3>3. 1 \in DOMAIN s
      BY <1>2
    <3> QED BY <1>2, <3>1, <3>2, <3>3
  <2>2. Len(s) = a + 1 /\ s[a + 1] = z
    BY <1>2, <1>3
  <2> QED BY <1>t, <1>2, <1>3, <2>1, <2>2 DEF TasksOf
<1>5. CASE t.tag = "new_ref"
  <2>1. Append(made, Entity(t)) = Append(made, [kind |-> "reference", kids |-> <<>>, from |-> t])
    BY <1>5 DEF Entity, MadeKind
  <2>2. todo' = s \o Tail(todo) /\ pos' = loc[c] /\ Store(Append(made, Entity(t)), e)
        /\ ids' = Append(ids, e) /\ dRefsSeen' = dRefsSeen + 1
    BY <1>t, <1>5, <2>1 DEF ReadNewReference, ThenRead, new, Advance, Create, Register
  <2>z. Makes(g, t, c, marked, loc, e, dd, s)
    BY <1>2, <1>4, <1>5, <2>2 DEF Makes
  <2> QED BY <2>z
<1>6. CASE t.tag = "magic"
  <2>1. Append(made, Entity(t)) = Append(made, [kind |-> "object", kids |-> <<>>, from |-> t])
    BY <1>6 DEF Entity, MadeKind
  <2>2. todo' = s \o Tail(todo) /\ pos' = loc[c] /\ Store(Append(made, Entity(t)), e)
        /\ ids' = Append(ids, e) /\ dRefsSeen' = dRefsSeen
    BY <1>t, <1>6, <2>1 DEF ReadMagicObject, ThenRead, new, Advance, Create, Register
  <2>3. dRefsSeen = dRefsSeen + 0
    BY <1>t
  <2>z. Makes(g, t, c, marked, loc, e, dd, s)
    BY <2>3, <1>2, <1>4, <1>6, <2>2 DEF Makes
  <2> QED BY <2>z
<1> QED BY <1>5, <1>6

(* A token that makes an entity is read.                                   *)
LEMMA NewFollows ==
  ASSUME NEW core, NEW shared, NEW loc, NEW g, NEW h, NEW c, NEW t,
         ReadsAt(core, shared, loc, g, h, c, t), NewStep(core, shared, g, h), DecNext,
         t.tag = "new_ref" => pos + 1 < Len(frame) /\ ~ NextTagIs("new_ref")
  PROVE  decoded' = "running" /\ Following(shared, loc, h)'
<1>1. /\ g \in RunState /\ made = g.made /\ ids = g.ids /\ dRefsSeen = g.refs /\ result = g.result
      /\ ReadingBoth(g) /\ Ahead(shared, loc, c, t) /\ Readable(core, g) /\ c = g.n + 1 /\ t = core[c]
      /\ DecInv /\ t \in NodeToken /\ pos \in Nat
  BY DEF ReadsAt, Following, Ahead
<1> PICK e : e = Len(g.made) + 1
  OBVIOUS
<1>2. PICK ender \in Enders(t.tag, c, e, g.refs) :
        (c \in shared => ender # <<>>) /\ h = NewFed(g, t, ender) /\ t.tag \in EntityTags
  BY <1>1 DEF NewStep
<1> PICK tasks : tasks = Contents(g, t) \o ender
  OBVIOUS
<1>3. /\ Opening(g, t, ender, tasks) /\ Took(g, h, e, tasks) /\ Opens(g, h, e, tasks)
      /\ h.ids = (IF t.tag = "array" THEN g.ids ELSE Append(g.ids, e))
      /\ h.refs = g.refs + (IF t.tag = "new_ref" THEN 1 ELSE 0)
      /\ h.made[e].kind = MadeKind(t.tag)
  <2>1. /\ g.todo # <<>> /\ g.todo[1].do = "read" /\ g.todo[1].into \in {0} \cup DOMAIN g.made
    BY <1>1 DEF ReadingBoth
  <2>2. Opening(g, t, ender, tasks)
    BY <1>1, <1>2, <2>1, ContentsTyped
  <2>3. /\ Took(g, h, e, tasks) /\ Opens(g, h, e, tasks)
        /\ h.ids = (IF t.tag = "array" THEN g.ids ELSE Append(g.ids, e))
        /\ h.refs = g.refs + (IF t.tag = "new_ref" THEN 1 ELSE 0)
        /\ h.made[e].kind = MadeKind(t.tag)
    <3> PICK en : en = g.n + 1
      OBVIOUS
    <3>1. ender \in Enders(t.tag, g.n + 1, Len(g.made) + 1, g.refs) /\ h = NewFed(g, t, ender)
          /\ t.tag \in EntityTags /\ t \in NodeToken /\ g \in RunState
      BY <1>1, <1>2
    <3> QED BY <2>1, <3>1, NewTook
  <2> QED BY <2>2, <2>3
<1>4. /\ IF c \in shared THEN /\ token.tag = "shared" /\ t.tag = "array" /\ frame[pos + 2] = t
                              /\ loc[c] = pos + 2 /\ pos + 1 < Len(frame)
                         ELSE token = t /\ loc[c] = pos + 1
      /\ pos < Len(frame) /\ Len(frame) \in Nat /\ frame \in Seq(AnyToken)
      /\ todo # <<>> /\ todoHead.do = "read" /\ todoHead.depth \in Nat
      /\ g.todo[1].depth = todoHead.depth /\ g.todo[1].hot = todoHead.hot
  <2>1. Len(frame) \in Nat /\ frame \in Seq(AnyToken)
    BY <1>1 DEF DecInv, DecTyped
  <2> QED BY <1>1, <2>1 DEF Ahead, ReadingBoth
<1>5. t.tag \notin {"ref", "shared", "scalar", "null"} /\ t.tag \in {"array", "new_ref", "object", "leaf", "magic"}
  BY <1>2 DEF EntityTags, ObjectTags
<1>6. ~ Refused
  <2>1. DepthAllows
    <3>1. g.todo[1].depth < maxDepth
      BY <1>1, <1>5 DEF Readable, ScalarTags
    <3> QED BY <1>4, <3>1 DEF DepthAllows
  <2>2. c \in shared => NextTagIs("array")
    BY <1>4 DEF NextTagIs
  <2>3. ~ (pos >= Len(frame)) /\ ~ (t.tag = "new_ref" /\ pos + 1 >= Len(frame))
    BY <1>1, <1>4
  <2> QED BY <1>4, <1>5, <2>1, <2>2, <2>3 DEF Refused
<1>7. /\ decoded' = "running"
      /\ \/ token.tag \in ScalarTags /\ ReadScalar
         \/ token.tag = "ref" /\ ReadBackReference
         \/ token.tag = "array" /\ ReadArray
         \/ token.tag = "shared" /\ ReadSharedArray
         \/ token.tag = "new_ref" /\ ReadNewReference
         \/ token.tag \in {"object", "leaf"} /\ ReadObject
         \/ token.tag = "magic" /\ ReadMagicObject
  BY <1>4, <1>6, WhichRead
<1> PICK marked \in BOOLEAN : marked <=> c \in shared
  <2>1. CASE c \in shared
    BY <2>1
  <2>2. CASE c \notin shared
    BY <2>2
  <2> QED BY <2>1, <2>2
<1> PICK a : a = t.arg
  OBVIOUS
<1> PICK dd : dd = todoHead.depth + 1
  OBVIOUS
<1>8. AboutToMake(g, t, c, marked, loc, a, e, dd)
  <2>1. t.tag \in {"new_ref", "magic"} => t.arg = 1
    <3>1. pos + 1 \in DOMAIN frame
      BY <1>1, <1>4
    <3>2. frame[pos + 1] \in AnyToken
      BY <1>4, <3>1
    <3> QED BY <1>4, <1>5, <3>2 DEF AnyToken, token
  <2>2. dRefsSeen \in Nat /\ e \in Nat /\ e = Len(made) + 1
    BY <1>1, MadeTyped
  <2>3. a \in Nat /\ dd \in Nat
    BY <1>1, <1>4 DEF NodeToken
  <2> QED BY <1>1, <1>2, <1>4, <2>1, <2>2, <2>3 DEF AboutToMake
<1>9. PICK s : Makes(g, t, c, marked, loc, e, dd, s)
  <2>1. CASE t.tag = "array"
    <3>1. IF marked THEN ReadSharedArray ELSE ReadArray
      BY <1>4, <1>7, <2>1 DEF ScalarTags
    <3> QED BY <1>8, <2>1, <3>1, ArrayMade
  <2>2. CASE t.tag \in {"object", "leaf"}
    <3>1. ~ marked /\ ReadObject
      BY <1>4, <1>7, <2>2 DEF ScalarTags
    <3> QED BY <1>8, <2>2, <3>1, ObjectMade
  <2>3. CASE t.tag \in {"new_ref", "magic"}
    <3>1. ~ marked /\ ((t.tag = "new_ref" /\ ReadNewReference) \/ (t.tag = "magic" /\ ReadMagicObject))
      BY <1>4, <1>7, <2>3 DEF ScalarTags
    <3> QED BY <1>8, <3>1, WrapperMade
  <2> QED BY <1>5, <2>1, <2>2, <2>3
<1>10. h.made = Stored(Append(g.made, Entity(t)), g.todo[1].into, e)
  BY <1>2 DEF NewFed, Fed
<1>11. /\ made' = h.made /\ result' = IF todoHead.into = 0 THEN e ELSE result
  <2>1. g.todo[1].into = todoHead.into /\ made = g.made
    BY <1>1 DEF ReadingBoth
  <2>2. Store(Append(made, Entity(t)), e)
    BY <1>9 DEF Makes
  <2> QED BY <1>10, <2>1, <2>2 DEF Store, StoreIn, Stored
<1>12. ids' = h.ids /\ dRefsSeen' = h.refs /\ pos' = loc[c] /\ todo' = s \o Tail(todo) /\ s \in Seq(DecTask)
  BY <1>1, <1>3, <1>9 DEF Makes
<1>13. PICK k : Alike(h.made, shared, s, tasks, k)
  <2>1. TasksOf(s, t, e, g.todo[1].depth + 1, g.refs, c \in shared)
    <3>1. dd = g.todo[1].depth + 1
      BY <1>4
    <3> QED BY <1>9, <3>1 DEF Makes
  <2>2. t.tag = "new_ref" => IsReference(h.made, e)
    BY <1>3 DEF IsReference, Opens, MadeKind
  <2>3. Opening(g, t, ender, tasks) /\ (c \in shared => ender # <<>>) /\ g \in RunState /\ t \in NodeToken
        /\ c = g.n + 1
    BY <1>1, <1>2, <1>3
  <2> QED BY <1>2, <2>1, <2>2, <2>3, TasksAlike
<1>14. Following(shared, loc, h)'
  BY <1>3, <1>11, <1>12, <1>13, BothRead
<1> QED BY <1>7, <1>14

----------------------------------------------------------------------------
(* A token for a reference makes one in what is read.                      *)
LEMMA NoneInside ==
  ASSUME NEW core, NEW shared, NEW g \in RunState, NEW h, NewStep(core, shared, g, h),
         NEW c, c = g.n + 1, NEW t, t = core[c], t \in NodeToken, t.tag = "new_ref",
         NEW p, p = g.todo[1].into, p \in DOMAIN g.made, g.made[p].kind = "reference",
         g.made[p].kids = <<>>
  PROVE  ~ Flat(h.made)
<1> PICK e : e = Len(g.made) + 1
  OBVIOUS
<1>1. PICK ender \in Enders(t.tag, g.n + 1, Len(g.made) + 1, g.refs) :
        h = NewFed(g, t, ender) /\ t.tag \in EntityTags
  BY DEF NewStep
<1>2. g.todo # <<>> /\ g.todo[1].do = "read" /\ g.todo[1].into \in {0} \cup DOMAIN g.made
  BY DEF NewStep, Readable
<1>3. /\ Took(g, h, e, Contents(g, t) \o ender) /\ Opens(g, h, e, Contents(g, t) \o ender)
      /\ h.made[e].kind = MadeKind(t.tag)
  BY <1>1, <1>2, NewTook
<1>4. IsReference(h.made, e)
  BY <1>3 DEF Opens, IsReference, MadeKind
<1>5. p \in DOMAIN h.made /\ h.made[p].kind = "reference" /\ h.made[p].kids = Append(<<>>, e)
  <2>1. Grew(g.made, h.made, p, e)
    BY <1>3 DEF Took
  <2> QED BY <2>1 DEF Grew
<1>6. 1 \in DOMAIN h.made[p].kids /\ h.made[p].kids[1] = e
  BY <1>5
<1> QED BY <1>4, <1>5, <1>6 DEF Flat

(* A reference is not written inside a reference: the run would make one   *)
(* that holds one.                                                         *)
LEMMA NotTwice ==
  ASSUME NEW core, NEW shared, NEW loc, NEW R, NEW i, Aligned(core, shared, loc, R, i),
         i \in 1 .. Len(R) - 1, NEW g, NEW h, g = R[i], h = R[i + 1], NEW c, NEW t,
         ReadsAt(core, shared, loc, g, h, c, t), NewStep(core, shared, g, h), t.tag = "new_ref"
  PROVE  pos + 1 < Len(frame) /\ ~ NextTagIs("new_ref")
<1>1. /\ g \in RunState /\ h \in RunState /\ made = g.made /\ ReadingBoth(g)
      /\ Ahead(shared, loc, c, t) /\ c = g.n + 1 /\ t = core[c] /\ DecInv /\ t \in NodeToken
      /\ pos \in Nat /\ pos < Len(frame) /\ Len(frame) \in Nat /\ frame \in Seq(AnyToken)
      /\ g.todo # <<>> /\ g.todo[1].do = "read" /\ g.todo[1].into \in {0} \cup DOMAIN g.made
  BY DEF ReadsAt, Following, Ahead, ReadingBoth, DecInv, DecTyped
<1>2. c \notin shared /\ token = t /\ loc[c] = pos + 1
  BY <1>1 DEF Ahead
<1>3. t.arg = 1
  <2>1. frame[pos + 1] \in AnyToken
    BY <1>1
  <2> QED BY <1>2, <2>1 DEF AnyToken, token
<1> PICK e : e = Len(g.made) + 1
  OBVIOUS
<1>4. PICK ender \in Enders(t.tag, c, e, g.refs) : h = NewFed(g, t, ender) /\ t.tag \in EntityTags
  BY <1>1 DEF NewStep
<1> PICK tasks : tasks = Contents(g, t) \o ender
  OBVIOUS
<1>5. Opening(g, t, ender, tasks) /\ Took(g, h, e, tasks) /\ Opens(g, h, e, tasks)
      /\ h.made[e].kind = "reference"
  <2>1. /\ ender \in Enders(t.tag, g.n + 1, Len(g.made) + 1, g.refs)
    BY <1>1, <1>4
  <2>2. Opening(g, t, ender, tasks)
    BY <1>1, <1>4, <2>1, ContentsTyped
  <2>3. Took(g, h, e, tasks) /\ Opens(g, h, e, tasks) /\ h.made[e].kind = MadeKind(t.tag)
    <3>1. /\ g \in RunState /\ g.todo # <<>> /\ g.todo[1].do = "read" /\ t \in NodeToken
          /\ g.todo[1].into \in {0} \cup DOMAIN g.made /\ t.tag \in EntityTags /\ h = NewFed(g, t, ender)
      BY <1>1, <1>4
    <3> QED BY <2>1, <3>1, NewTook
  <2> QED BY <2>2, <2>3 DEF MadeKind
<1>6. h.todo # <<>> /\ h.todo[1].do = "read" /\ h.todo[1].into = e /\ e \in DOMAIN h.made
      /\ h.made[e].kids = <<>> /\ h.n = c
  <2>1. 1 \in DOMAIN tasks /\ IsRead(tasks[1], e, 1)
    <3>1. 1 \in 1 .. t.arg
      BY <1>3
    <3> QED BY <1>5, <3>1 DEF Opening
  <2>2. 1 \in DOMAIN h.todo /\ h.todo[1] = tasks[1]
    BY <1>5, <2>1 DEF Took, Comes
  <2>3. h.todo # <<>>
    BY <2>2
  <2>4. h.todo[1].do = "read" /\ h.todo[1].into = e
    BY <2>1, <2>2 DEF IsRead
  <2>5. e \in DOMAIN h.made /\ h.made[e].kids = <<>>
    BY <1>5 DEF Opens
  <2>6. h.n = c
    BY <1>1, <1>5 DEF Took
  <2> QED BY <2>3, <2>4, <2>5, <2>6
<1>7. /\ Run(core, shared, R) /\ Final(R).todo = <<>> /\ Len(R) \in Nat /\ i \in Nat /\ i >= 1
      /\ i + 1 <= Len(R) /\ Layout(body, core, shared, loc) /\ frame = body
  BY RunEnds DEF Aligned
<1>8. i + 1 < Len(R)
  <2>1. i + 1 # Len(R)
    BY <1>6, <1>7 DEF Final
  <2> QED BY <1>7, <2>1
<1> PICK j : j = i + 1
  OBVIOUS
<1> PICK h2 : h2 = R[j + 1]
  OBVIOUS
<1>9. RunStep(core, shared, h, h2) /\ Flat(h2.made) /\ h2 \in RunState
  <2>1. j \in 1 .. Len(R) - 1 /\ j + 1 \in 1 .. Len(R)
    BY <1>7, <1>8
  <2>2. Flat(R[j + 1].made) /\ RunStep(core, shared, R[j], R[j + 1])
    BY <1>7, <2>1 DEF Run
  <2>3. R[j + 1] \in RunState
    BY <1>7, <2>1, RunEnds
  <2> QED BY <2>2, <2>3
<1>10. Readable(core, h)
  BY <1>6, <1>9 DEF RunStep, KnownStep, NewStep, CloseStep
<1> PICK c2 : c2 = c + 1
  OBVIOUS
<1>11. /\ Len(core) \in Nat /\ c \in 1 .. Len(core) /\ c2 \in 1 .. Len(core) /\ core[c2] \in NodeToken
       /\ Len(body) \in Nat /\ loc[c2] \in 0 .. Len(body) /\ c2 - 1 = c
  <2>1. g.n \in Nat
    BY <1>1, RunFields
  <2>2. core \in Seq(NodeToken) /\ Len(core) \in Nat /\ c < Len(core)
    BY <1>6, <1>7, <1>10 DEF Layout, Readable
  <2>3. c2 \in 1 .. Len(core) /\ c \in 1 .. Len(core)
    <3>1. c \in Nat /\ c >= 1
      BY <1>1, <2>1
    <3> QED BY <2>2, <3>1
  <2>4. loc[c2] \in 0 .. Len(body)
    BY <1>7, <2>2, <2>3 DEF Layout
  <2>5. core[c2] \in NodeToken
    BY <2>2, <2>3
  <2>6. Len(body) \in Nat
    BY <1>1, <1>7
  <2>7. c2 - 1 = c
    BY <2>3
  <2> QED BY <2>2, <2>3, <2>4, <2>5, <2>6, <2>7
<1>12. core[c2].tag # "new_ref"
  <2> SUFFICES ASSUME core[c2].tag = "new_ref" PROVE FALSE
    OBVIOUS
  <2>1. ~ KnownStep(core, h, h2)
    BY <1>6 DEF KnownStep, StandsFor, ScalarTags
  <2>2. NewStep(core, shared, h, h2)
    BY <1>6, <1>9, <2>1 DEF RunStep, CloseStep
  <2>3. core[c2] \in NodeToken /\ c2 = h.n + 1
    BY <1>6, <1>11
  <2> QED BY <1>1, <1>5, <1>6, <1>9, <2>2, <2>3, NoneInside
<1>13. IF c2 \in shared THEN loc[c2] = pos + 3 /\ frame[pos + 2].tag = "shared"
                        ELSE loc[c2] = pos + 2 /\ frame[pos + 2] = core[c2]
  <2>1. /\ frame[loc[c2]] = core[c2]
        /\ IF c2 \in shared THEN loc[c2] = loc[c2 - 1] + 2 /\ frame[loc[c2] - 1].tag = "shared"
                            ELSE loc[c2] = loc[c2 - 1] + 1
    BY <1>7, <1>11 DEF Layout
  <2>2. loc[c2 - 1] = pos + 1
    BY <1>2, <1>11
  <2>3. CASE c2 \in shared
    <3>1. loc[c2] = pos + 3
      BY <1>1, <2>1, <2>2, <2>3
    <3>2. loc[c2] - 1 = pos + 2
      BY <1>1, <3>1
    <3> QED BY <2>1, <2>3, <3>1, <3>2
  <2>4. CASE c2 \notin shared
    <3>1. loc[c2] = pos + 2
      BY <1>1, <2>1, <2>2, <2>4
    <3> QED BY <2>1, <2>4, <3>1
  <2> QED BY <2>3, <2>4
<1>14. pos + 1 < Len(frame)
  <2>1. loc[c2] = pos + 3 \/ loc[c2] = pos + 2
    BY <1>13
  <2>2. loc[c2] <= Len(frame) /\ pos \in Nat /\ Len(frame) \in Nat
    BY <1>1, <1>7, <1>11
  <2> QED BY <2>1, <2>2
<1>15. frame[pos + 2].tag # "new_ref"
  BY <1>12, <1>13
<1> QED BY <1>14, <1>15 DEF NextTagIs

----------------------------------------------------------------------------
(* An end that does something is one of the decoder's.                     *)
LEMMA EndFollows ==
  ASSUME NEW core, NEW shared, NEW loc, NEW R, NEW i, Aligned(core, shared, loc, R, i), todo # <<>>,
         todo[1].do \in {"shared", "magic"}, NEW h, h = R[i + 1], DecNext
  PROVE  decoded' = "running" /\ Following(shared, loc, h)'
<1> PICK g : g = R[i]
  OBVIOUS
<1>1. /\ g \in RunState /\ h \in RunState /\ Following(shared, loc, g) /\ RunStep(core, shared, g, h)
      /\ g.todo # <<>> /\ Kept(shared, g.todo[1]) /\ Same(todo[1], g.todo[1])
  BY RunGoesOn
<1>2. /\ DecInv /\ decoded = "running" /\ todoHead = todo[1] /\ todo \in Seq(DecTask)
  BY HeadOfTodo DEF Aligned
<1>3. g.todo \in Seq(RunTask) /\ g.todo[1] \in RunTask
  BY <1>1, RunFields
<1>4. /\ made = g.made /\ ids = g.ids /\ dRefsSeen = g.refs /\ result = g.result
      /\ pos = loc[g.n] /\ TodoRel(made, shared, todo, g.todo)
  BY <1>1 DEF Following
<1>5. g.todo[1].do \in {"end", "magic"}
  BY <1>1, <1>3, RunFields DEF Same, Kept
<1>6. CloseStep(shared, g, h)
  BY <1>1, <1>5 DEF RunStep, KnownStep, NewStep, Readable
<1>7. \/ /\ todoHead.do = "shared" /\ dRefsSeen = todoHead.refs /\ h.ids = Append(ids, todoHead.entity)
      \/ /\ todoHead.do = "magic" /\ HoldsArray(made, todoHead.entity) /\ h.ids = ids
  BY <1>1, <1>2, <1>4, <1>5, <1>6 DEF CloseStep, Same, Kept, Closed
<1>8. /\ h.n = g.n /\ h.made = g.made /\ h.refs = g.refs /\ h.result = g.result /\ h.todo = Tail(g.todo)
  <2>1. \E ids_, ended_ : h = Closed(g, ids_, ended_)
    BY <1>6 DEF CloseStep
  <2> QED BY <2>1 DEF Closed
<1>9. HoldsArray(made, todoHead.entity) => InnerKindIs(todoHead.entity, "array")
  <2>1. DOMAIN made \subseteq Nat \ {0}
    BY <1>2, MadeTyped
  <2> QED BY <2>1 DEF HoldsArray, InnerKindIs, Inner
<1>10. ~ Refused
  BY <1>2, <1>7, <1>9 DEF Refused
<1>11. DecStep
  BY <1>10 DEF DecNext, DecFail, DecFinish
<1>12. SharedArrayComplete \/ MagicObjectComplete
  BY <1>7, <1>11 DEF DecStep, ReadScalar, ReadBackReference, ReadArray, ReadSharedArray,
     ReadNewReference, ReferenceComplete, ReadObject, ReadMagicObject, Reading
<1>13. /\ decoded' = "running" /\ todo' = <<>> \o Tail(todo) /\ made' = made /\ dRefsSeen' = dRefsSeen
       /\ result' = result /\ pos' = pos /\ ids' = h.ids
  BY <1>2, <1>7, <1>12 DEF SharedArrayComplete, MagicObjectComplete, ThenRead, Register
<1>14. Comes(todo', <<>>, todo) /\ Comes(h.todo, <<>>, g.todo)
  <2>1. <<>> \in Seq(DecTask)
    OBVIOUS
  <2>2. Comes(todo', <<>>, todo)
    BY <1>2, <1>13, <2>1, Replaced
  <2>3. Comes(h.todo, <<>>, g.todo)
    BY <1>1, <1>3, <1>8, Dropped
  <2> QED BY <2>2, <2>3
<1>15. References(made, made) /\ Alike(made, shared, <<>>, <<>>, 0)
  BY DEF References, Alike
<1>16. TodoRel(made, shared, todo', h.todo)
  <2>1. todo[1].do # "reference"
    OBVIOUS
  <2> QED BY <1>1, <1>4, <1>14, <1>15, <2>1, RelPut
<1> QED BY <1>4, <1>8, <1>13, <1>16 DEF Following

(* The check of a reference: it was filled, and holds no reference.        *)
LEMMA CheckFollows ==
  ASSUME NEW core, NEW shared, NEW loc, NEW R, NEW i, Aligned(core, shared, loc, R, i), todo # <<>>,
         todo[1].do = "reference", NEW g, g = R[i], DecNext
  PROVE  decoded' = "running" /\ Following(shared, loc, g)'
<1>1. /\ DecInv /\ decoded = "running" /\ todoHead = todo[1] /\ todo \in Seq(DecTask)
      /\ DOMAIN todo = 1 .. Len(todo) /\ Len(todo) \in Nat /\ 1 \in DOMAIN todo
  BY HeadOfTodo DEF Aligned
<1>2. /\ g \in RunState /\ Following(shared, loc, g) /\ Flat(g.made)
  BY RunEnds DEF Aligned, Settled, Run
<1>3. /\ made = g.made /\ ids = g.ids /\ dRefsSeen = g.refs /\ result = g.result
      /\ pos = loc[g.n] /\ TodoRel(made, shared, todo, g.todo)
  BY <1>2 DEF Following
<1> PICK e : e = todo[1].entity
  OBVIOUS
<1>4. e \in DOMAIN made /\ made[e].kind = "reference"
  <2>1. PICK p : Pairing(made, shared, todo, g.todo, p)
    BY <1>3 DEF TodoRel
  <2>2. IsCheck(made, todo[1]) \/ \E a \in DOMAIN g.todo : <<1, a>> \in p
    BY <1>1, <2>1 DEF Pairing
  <2>3. \A a \in DOMAIN g.todo : <<1, a>> \notin p
    BY <1>1, <2>1 DEF Pairing, Same
  <2> QED BY <2>2, <2>3 DEF IsCheck, IsReference
<1>5. Sum(todo, Reads(e)) = 0
  <2>1. \A x \in DOMAIN todo : ~ Fills(todo[x], e)
    <3> SUFFICES ASSUME NEW x \in DOMAIN todo PROVE ~ Fills(todo[x], e)
      OBVIOUS
    <3>1. CASE x = 1
      BY <3>1 DEF Fills
    <3>2. CASE 1 < x
      BY <1>1, <3>2 DEF DecInv, ReferencesChecked
    <3> QED BY <1>1, <3>1, <3>2
  <2>2. Reads(e) \in [DecTask -> SUBSET Nat] /\ \A t \in DecTask : IsFiniteSet(Reads(e)[t])
    BY ReadsCounts
  <2>3. \A x \in DOMAIN todo : Reads(e)[todo[x]] = {}
    BY <1>1, <2>1, ReadsCounts
  <2> QED BY <1>1, <2>2, <2>3, SumZero
<1>6. made[e].kids \in Seq(Int) /\ Len(made[e].kids) \in Nat /\ DOMAIN made \subseteq Nat \ {0}
  BY <1>1, <1>4, MadeTyped
<1>7. Len(made[e].kids) + Sum(todo, Reads(e)) = 1
  BY <1>1, <1>4 DEF DecInv, MissingIsComing, ReferencesChecked, Entities
<1>8. 1 \in DOMAIN made[e].kids
  <2>1. Len(made[e].kids) = 1
    BY <1>5, <1>6, <1>7
  <2> QED BY <1>6, <2>1
<1>9. made[e].kids[1] \in {DScalar, DNull} \cup DOMAIN made
  BY <1>1, <1>4, <1>8, MadeTyped
<1>10. ~ InnerKindIs(e, "reference")
  <2>1. ~ IsReference(made, made[e].kids[1])
    BY <1>2, <1>3, <1>4, <1>8 DEF Flat
  <2>2. made[e].kids[1] > 0 => made[e].kids[1] \in DOMAIN made
    BY <1>9 DEF DScalar, DNull
  <2> QED BY <2>1, <2>2 DEF InnerKindIs, Inner, IsReference
<1>11. ~ Refused
  BY <1>1, <1>10 DEF Refused
<1>12. ReferenceComplete
  BY <1>1, <1>11 DEF DecNext, DecFail, DecFinish, DecStep, ReadScalar, ReadBackReference, ReadArray,
     ReadSharedArray, SharedArrayComplete, ReadNewReference, ReadObject, ReadMagicObject,
     MagicObjectComplete, Reading
<1>13. /\ decoded' = "running" /\ todo' = <<>> \o Tail(todo) /\ made' = made /\ dRefsSeen' = dRefsSeen
       /\ result' = result /\ pos' = pos /\ ids' = ids
  BY <1>1, <1>12 DEF ReferenceComplete, ThenRead
<1>14. Comes(todo', <<>>, todo)
  <2>1. <<>> \in Seq(DecTask)
    OBVIOUS
  <2> QED BY <1>1, <1>13, <2>1, Replaced
<1>15. TodoRel(made, shared, todo', g.todo)
  <2>1. DOMAIN g.todo \subseteq Nat
    <3>1. g.todo \in Seq(RunTask)
      BY <1>2, RunFields
    <3> QED BY <3>1
  <2>2. Len(<<>>) = 0
    OBVIOUS
  <2> QED BY <1>3, <1>14, <2>1, <2>2, RelChecked
<1> QED BY <1>3, <1>13, <1>15 DEF Following

(* A step of the decoder.                                                  *)
LEMMA DecoderFollows ==
  ASSUME NEW core, NEW shared, NEW loc, NEW R, NEW i, Aligned(core, shared, loc, R, i), DecNext
  PROVE  /\ decoded' \in {"running", "ok"}
         /\ decoded' = "running" => \E j \in 1 .. Len(R) : Following(shared, loc, R[j])'
         /\ decoded' = "ok" => Following(shared, loc, Final(R))'
<1>1. DecInv /\ decoded = "running" /\ i \in 1 .. Len(R)
  BY DEF Aligned, Settled
<1>2. CASE todo = <<>>
  <2>1. pos = Len(frame) /\ Following(shared, loc, Final(R))
    BY <1>2, AllRead
  <2>2. DecFinish
    BY <1>2 DEF DecNext, DecFail, DecStep, ReadScalar, ReadBackReference, ReadArray,
     ReadSharedArray, SharedArrayComplete, ReadNewReference, ReferenceComplete, ReadObject,
     ReadMagicObject, MagicObjectComplete, Reading
  <2>3. decoded' = "ok" /\ UNCHANGED <<pos, todo, made, ids, dRefsSeen, result>>
    BY <2>1, <2>2 DEF DecFinish
  <2> PICK z : z = Final(R)
    OBVIOUS
  <2>4. Following(shared, loc, z)'
    BY <2>1, <2>3 DEF Following
  <2> QED BY <2>3, <2>4
<1>3. CASE todo # <<>> /\ todo[1].do = "reference"
  <2> PICK g : g = R[i]
    OBVIOUS
  <2>1. decoded' = "running" /\ Following(shared, loc, g)'
    BY <1>3, CheckFollows
  <2> QED BY <1>1, <2>1
<1>4. CASE todo # <<>> /\ todo[1].do # "reference"
  <2>1. i \in 1 .. Len(R) - 1 /\ i + 1 \in 1 .. Len(R)
    BY <1>4, RunGoesOn
  <2> PICK g, h : g = R[i] /\ h = R[i + 1]
    OBVIOUS
  <2>2. decoded' = "running" /\ Following(shared, loc, h)'
    <3>1. CASE todo[1].do = "read"
      <4>1. PICK c, t : ReadsAt(core, shared, loc, g, h, c, t)
        BY <1>4, <3>1, ReadsNext
      <4>2. CASE KnownStep(core, g, h)
        BY <4>1, <4>2, KnownFollows
      <4>3. CASE NewStep(core, shared, g, h)
        <5>1. t.tag = "new_ref" => pos + 1 < Len(frame) /\ ~ NextTagIs("new_ref")
          BY <2>1, <4>1, <4>3, NotTwice
        <5> QED BY <4>1, <4>3, <5>1, NewFollows
      <4>4. RunStep(core, shared, g, h) /\ ~ CloseStep(shared, g, h)
        BY <4>1 DEF ReadsAt, ReadingBoth, CloseStep
      <4> QED BY <4>2, <4>3, <4>4 DEF RunStep
    <3>2. CASE todo[1].do \in {"shared", "magic"}
      BY <1>4, <3>2, EndFollows
    <3>3. todo[1].do \in {"read", "shared", "magic", "reference"}
      <4>1. todo[1] \in DecTask
        BY <1>1, <1>4, HeadOfTodo
      <4> QED BY <4>1 DEF DecTask
    <3> QED BY <1>4, <3>1, <3>2, <3>3
  <2> QED BY <2>1, <2>2
<1> QED BY <1>2, <1>3, <1>4

----------------------------------------------------------------------------
(* Once a frame is decoded the decoder is somewhere on the run.            *)
FollowedBy(core, shared, loc, R) ==
  /\ Layout(body, core, shared, loc) /\ Run(core, shared, R)
  /\ Matched(core, shared, loc, Final(R), agenda, claim, nextId, refsSeen, nulled)
On(shared, loc, R) ==
  /\ decoded \in {"running", "ok"}
  /\ decoded = "running" => \E i \in 1 .. Len(R) : Following(shared, loc, R[i])
  /\ decoded = "ok" => Following(shared, loc, Final(R))
FollowInv ==
  /\ decoded = "no" => dRefsSeen = 0 /\ result = NoValue
  /\ encoded = "ok" /\ decoded # "no" =>
       \E core, shared, loc, R : FollowedBy(core, shared, loc, R) /\ On(shared, loc, R)

(* The run stays what it is.                                               *)
LEMMA FollowedStays ==
  ASSUME UNCHANGED encVars, NEW core, NEW shared, NEW loc, NEW R, FollowedBy(core, shared, loc, R)
  PROVE  FollowedBy(core, shared, loc, R)'
<1>1. /\ graph' = graph /\ body' = body /\ agenda' = agenda /\ claim' = claim /\ nextId' = nextId
      /\ refsSeen' = refsSeen /\ nulled' = nulled /\ maxDepth' = maxDepth
  BY DEF encVars, table
<1> PICK b, ag, cl, nx, rs, nu : /\ b = body /\ ag = agenda /\ cl = claim /\ nx = nextId
                                 /\ rs = refsSeen /\ nu = nulled
  OBVIOUS
<1> PICK g : g = Final(R)
  OBVIOUS
<1>2. /\ Layout(b, core, shared, loc) /\ Run(core, shared, R)
      /\ Matched(core, shared, loc, g, ag, cl, nx, rs, nu)
  BY DEF FollowedBy
<1>3. Run(core, shared, R)' /\ Matched(core, shared, loc, g, ag, cl, nx, rs, nu)'
  BY <1>1, <1>2, RunStays, MatchStays
<1>4. b = body' /\ ag = agenda' /\ cl = claim' /\ nx = nextId' /\ rs = refsSeen' /\ nu = nulled'
  BY <1>1
<1> QED BY <1>2, <1>3, <1>4 DEF FollowedBy

(* A frame that was returned: the encoder has no task left, so the run     *)
(* leaves none.                                                            *)
LEMMA RunIsWhole ==
  ASSUME agenda = <<>>, NEW core, NEW shared, NEW loc, NEW R, FollowedBy(core, shared, loc, R)
  PROVE  Final(R).todo = <<>>
<1> PICK g : g = Final(R)
  OBVIOUS
<1>1. g \in RunState /\ Len(agenda) = Len(g.todo)
  BY RunEnds DEF FollowedBy, Matched, AllTrack
<1>2. g.todo \in Seq(RunTask) /\ Len(g.todo) = 0
  BY <1>1, RunFields
<1> QED BY <1>2

(* The decode starts at the beginning of the run.                          *)
LEMMA FollowStarts ==
  ASSUME DecInv, LinkInv, TraceInv, FollowInv, Deliver
  PROVE  \E core, shared, loc, R : FollowedBy(core, shared, loc, R)' /\ On(shared, loc, R)'
<1>1. /\ encoded = "ok" /\ decoded = "no" /\ UNCHANGED encVars /\ DecStart(body)
  BY DEF Deliver, DecStart
<1>2. TracedNow /\ dRefsSeen = 0 /\ result = NoValue /\ pos = 0 /\ made = <<>> /\ ids = <<>>
  BY <1>1 DEF LinkInv, TraceInv, FollowInv, DecInv, DecTyped
<1>3. PICK core, shared, loc, R : FollowedBy(core, shared, loc, R)
  BY <1>2 DEF TracedNow, Traced, FollowedBy
<1>4. FollowedBy(core, shared, loc, R)'
  BY <1>1, <1>3, FollowedStays
<1>5. loc[0] = 0 /\ R[1] = RunStart /\ 1 \in 1 .. Len(R)
  <2>1. Run(core, shared, R) /\ Layout(body, core, shared, loc)
    BY <1>3 DEF FollowedBy
  <2>2. Len(R) \in Nat /\ Len(R) >= 1
    BY <2>1, RunEnds
  <2> QED BY <2>1, <2>2 DEF Run, Layout
<1>6. /\ decoded' = "running" /\ todo' = <<ReadTask(0, 0, FALSE)>>
      /\ pos' = 0 /\ made' = <<>> /\ ids' = <<>> /\ dRefsSeen' = 0 /\ result' = NoValue
  BY <1>1, <1>2 DEF DecStart
<1>7. TodoRel(made', shared, todo', RunStart.todo)
  <2> PICK r, k : r = ReadTask(0, 0, FALSE) /\ k = SlotTask(0, 1, 0, FALSE)
    OBVIOUS
  <2>1. todo' = <<r>> /\ RunStart.todo = <<k>>
    BY <1>6 DEF RunStart
  <2>2. Same(r, k) /\ Kept(shared, k)
    BY DEF Same, Kept, ReadTask, SlotTask
  <2> PICK m, rt, gt : m = made' /\ rt = <<r>> /\ gt = <<k>>
    OBVIOUS
  <2>3. DOMAIN rt = {1} /\ DOMAIN gt = {1} /\ rt[1] = r /\ gt[1] = k
    OBVIOUS
  <2>4. \E p : p = {<<1, 1>>}
    OBVIOUS
  <2> PICK p : p = {<<1, 1>>}
    BY <2>4
  <2>5. Pairing(m, shared, rt, gt, p)
    <3>1. \A x \in DOMAIN rt : x = 1
      BY <2>3
    <3>2. \A a \in DOMAIN gt : a = 1
      BY <2>3
    <3>3. <<1, 1>> \in p
      OBVIOUS
    <3>4. 1 \in DOMAIN rt /\ 1 \in DOMAIN gt /\ ~ (1 < 1)
      BY <2>3
    <3> QED BY <2>2, <2>3, <3>1, <3>2, <3>3, <3>4 DEF Pairing
  <2>6. TodoRel(m, shared, rt, gt)
    BY <2>5 DEF TodoRel
  <2> QED BY <2>1, <2>6
<1> PICK g : g = RunStart
  OBVIOUS
<1>8. g.n = 0 /\ g.made = <<>> /\ g.ids = <<>> /\ g.refs = 0 /\ g.result = NoValue /\ g.todo = RunStart.todo
  BY DEF RunStart
<1>9. Following(shared, loc, g)'
  BY <1>5, <1>6, <1>7, <1>8 DEF Following
<1>10. On(shared, loc, R)'
  BY <1>5, <1>6, <1>9 DEF On
<1> QED BY <1>4, <1>10

(* A step of the decoder that is on the run.                               *)
LEMMA FollowGoesOn ==
  ASSUME DecInv, LinkInv, encoded = "ok", DecNext, UNCHANGED encVars,
         NEW core, NEW shared, NEW loc, NEW R, FollowedBy(core, shared, loc, R), On(shared, loc, R)
  PROVE  FollowedBy(core, shared, loc, R)' /\ On(shared, loc, R)'
<1>1. FollowedBy(core, shared, loc, R)'
  BY FollowedStays
<1>2. decoded = "running"
  BY DEF DecNext, DecFail, DecFinish, DecStep, ReadScalar, ReadBackReference, ReadArray,
     ReadSharedArray, SharedArrayComplete, ReadNewReference, ReferenceComplete, ReadObject,
     ReadMagicObject, MagicObjectComplete, Reading
<1>3. frame = body /\ agenda = <<>>
  BY <1>2 DEF LinkInv
<1>4. Final(R).todo = <<>>
  BY <1>3, RunIsWhole
<1>5. PICK i \in 1 .. Len(R) : Following(shared, loc, R[i])
  BY <1>2 DEF On
<1>6. PICK j : Settled(core, shared, loc, R, j)
  <2>1. DOMAIN todo \subseteq Nat
    <3>1. todo \in Seq(DecTask)
      BY DEF DecInv, DecTyped
    <3> QED BY <3>1
  <2>2. Run(core, shared, R)
    BY DEF FollowedBy
  <2> QED BY <1>5, <2>1, <2>2, Settles
<1>7. Aligned(core, shared, loc, R, j)
  BY <1>2, <1>3, <1>4, <1>6 DEF Aligned, FollowedBy, DecInv, DecTyped
<1>8. /\ decoded' \in {"running", "ok"}
      /\ decoded' = "running" => \E x \in 1 .. Len(R) : Following(shared, loc, R[x])'
      /\ decoded' = "ok" => Following(shared, loc, Final(R))'
  BY <1>7, DecoderFollows
<1>9. On(shared, loc, R)'
  BY <1>8 DEF On
<1> QED BY <1>1, <1>9

(* Before the first step nothing is decoded.                               *)
LEMMA FollowBegins ==
  ASSUME Init
  PROVE  FollowInv
<1>1. \E tokens : DecInit(tokens)
  BY DEF Init
<1> QED BY <1>1 DEF DecInit, FollowInv

(* Every step stays on the run.                                            *)
LEMMA FollowKept ==
  ASSUME DecInv, LinkInv, TraceInv, FollowInv, [Next]_vars
  PROVE  FollowInv'
<1>1. CASE EncNext /\ UNCHANGED decVars
  <2>1. encoded = "no"
    BY <1>1, EncoderSteps
  <2>2. decoded = "no"
    BY <2>1 DEF LinkInv
  <2>3. decoded' = decoded /\ dRefsSeen' = dRefsSeen /\ result' = result
    BY <1>1 DEF decVars
  <2> QED BY <2>2, <2>3 DEF FollowInv
<1>2. CASE Deliver
  <2>1. decoded' # "no"
    BY <1>2 DEF Deliver, DecStart
  <2> QED BY <1>2, <2>1, FollowStarts DEF FollowInv
<1>3. CASE Arrive
  <2>1. decoded' # "no" /\ encoded' # "ok"
    BY <1>3 DEF Arrive, DecStart, encVars
  <2> QED BY <2>1 DEF FollowInv
<1>4. CASE DecNext /\ UNCHANGED encVars
  <2>1. decoded = "running" /\ decoded' # "no"
    BY <1>4 DEF DecNext, DecFail, DecFinish, DecStep, ReadScalar, ReadBackReference, ReadArray,
     ReadSharedArray, SharedArrayComplete, ReadNewReference, ReferenceComplete, ReadObject,
     ReadMagicObject, MagicObjectComplete, Reading
  <2>2. encoded' = encoded
    BY <1>4 DEF encVars
  <2>3. ASSUME encoded = "ok"
        PROVE  \E core, shared, loc, R : FollowedBy(core, shared, loc, R)' /\ On(shared, loc, R)'
    <3>1. PICK core, shared, loc, R : FollowedBy(core, shared, loc, R) /\ On(shared, loc, R)
      BY <2>1, <2>3 DEF FollowInv
    <3>2. FollowedBy(core, shared, loc, R)' /\ On(shared, loc, R)'
      BY <1>4, <2>3, <3>1, FollowGoesOn
    <3> QED BY <3>2
  <2> QED BY <2>1, <2>2, <2>3 DEF FollowInv
<1>5. CASE UNCHANGED vars
  <2>1. UNCHANGED encVars /\ UNCHANGED decVars
    BY <1>5 DEF vars
  <2>2. /\ encoded' = encoded /\ decoded' = decoded /\ dRefsSeen' = dRefsSeen /\ result' = result
        /\ made' = made /\ ids' = ids /\ pos' = pos /\ todo' = todo
    BY <2>1 DEF encVars, decVars
  <2>3. ASSUME encoded = "ok", decoded # "no"
        PROVE  \E core, shared, loc, R : FollowedBy(core, shared, loc, R)' /\ On(shared, loc, R)'
    <3>1. PICK core, shared, loc, R : FollowedBy(core, shared, loc, R) /\ On(shared, loc, R)
      BY <2>3 DEF FollowInv
    <3>2. FollowedBy(core, shared, loc, R)'
      BY <2>1, <3>1, FollowedStays
    <3>3. \A g : Following(shared, loc, g) => Following(shared, loc, g)'
      BY <2>2 DEF Following
    <3>4. On(shared, loc, R)'
      BY <2>2, <3>1, <3>3 DEF On
    <3> QED BY <3>2, <3>4
  <2> QED BY <2>2, <2>3 DEF FollowInv
<1> QED BY <1>1, <1>2, <1>3, <1>4, <1>5 DEF Next, Stop

----------------------------------------------------------------------------
(* At the end of the run.                                                  *)
Arrived(g) ==
  /\ made = g.made /\ ids = g.ids /\ result = g.result /\ result # NoValue
  /\ g.todo = <<>> /\ ContentsOK(nulled, g) /\ SlotsOK(g)
  /\ nextId = Len(ids) /\ \A n \in Nodes(graph) : HasId(n) => Registered(g, claim, n)

(* When both walks have ended well, the decoder is where the run ends.       *)
LEMMA DoneArrived ==
  ASSUME DecInv, LinkInv, FollowInv, Done
  PROVE  \E g \in RunState : Arrived(g)
<1>1. encoded = "ok" /\ decoded = "ok" /\ agenda = <<>>
  BY DEF Done, LinkInv
<1>2. PICK core, shared, loc, R : FollowedBy(core, shared, loc, R) /\ On(shared, loc, R)
  BY <1>1 DEF FollowInv
<1> PICK g : g = Final(R)
  OBVIOUS
<1>3. g \in RunState /\ g.todo = <<>> /\ Following(shared, loc, g)
  BY <1>1, <1>2, RunEnds, RunIsWhole DEF FollowedBy, On
<1>4. made = g.made /\ ids = g.ids /\ result = g.result
  BY <1>3 DEF Following
<1>5. result # NoValue
  <2>1. todo = <<>>
    BY <1>1 DEF DecInv, MissingIsComing
  <2>2. DOMAIN todo = {}
    BY <2>1
  <2> QED BY <1>1, <2>2 DEF DecInv, MissingIsComing
<1>6. ContentsOK(nulled, g) /\ SlotsOK(g) /\ IdsOK(g, agenda, claim, nextId)
  BY <1>2 DEF FollowedBy, Matched
<1>7. nextId = Len(ids) /\ \A n \in Nodes(graph) : HasId(n) => Registered(g, claim, n)
  <2>1. ~ Hooked(agenda)
    BY <1>1 DEF Hooked
  <2>2. g.ids \in Seq(Nat)
    BY <1>3, RunFields
  <2>3. Len(g.ids) + 0 = Len(g.ids)
    BY <2>2
  <2> QED BY <1>4, <1>6, <2>1, <2>3 DEF IdsOK, HasId
<1> QED BY <1>3, <1>4, <1>5, <1>6, <1>7 DEF Arrived

(* What was copied, in the terms of the property.                          *)
LEMMA CopiesAre ==
  ASSUME NEW v, NEW d, Copies(nulled, made, v, d)
  PROVE  CopyOf(v, d)
BY DEF Copies, CopyOf, Entities, Origin

(* Every entity is complete, and its contents are copies.                  *)
LEMMA ArrivedContents ==
  ASSUME NEW g \in RunState, Arrived(g), NEW e \in Entities
  PROVE  KindAgrees(Origin(e), e) /\ ContentsAgree(e)
<1> PICK n, kids : n = Origin(e) /\ kids = made[e].kids
  OBVIOUS
<1>1. /\ e \in DOMAIN made /\ EntityOK(nulled, made, e) /\ made[e].from.node = n
      /\ \A s \in Len(kids) + 1 .. made[e].from.arg : FALSE
  <2>1. made = g.made /\ DOMAIN g.todo = {}
    BY DEF Arrived
  <2> QED BY <2>1 DEF Arrived, ContentsOK, SlotsOK, Entities, Origin
<1>2. made[e] \in RunEntity
  <2>1. made \in Seq(RunEntity)
    BY RunFields DEF Arrived
  <2> QED BY <1>1, <2>1
<1>3. /\ kids \in Seq(Int) /\ Len(kids) \in Nat /\ made[e].from.arg \in Nat
      /\ made[e].kind \in {"array", "reference", "object"}
  BY <1>2, EntityFields
<1>4. Len(kids) = made[e].from.arg /\ made[e].from.arg = Announced(made, e)
  <2>1. Len(kids) <= made[e].from.arg /\ made[e].from.arg = Announced(made, e)
    BY <1>1 DEF EntityOK
  <2>2. ~ (Len(kids) < made[e].from.arg)
    <3> SUFFICES ASSUME Len(kids) < made[e].from.arg PROVE FALSE
      OBVIOUS
    <3>1. Len(kids) + 1 \in Len(kids) + 1 .. made[e].from.arg
      BY <1>3
    <3> QED BY <1>1, <3>1
  <2> QED BY <1>3, <2>1, <2>2
<1>5. KindAgrees(n, e)
  <2>1. KindFits(made[e].kind, n)
    BY <1>1 DEF EntityOK
  <2> QED BY <1>3, <2>1 DEF KindFits, KindAgrees
<1>6. \A i \in DOMAIN kids : Right(nulled, made, e, i, kids[i])
  BY <1>1 DEF EntityOK
<1>7. HasBuilt(made, e) <=> Kind(n) = "factory" /\ made[e].kind = "object"
  BY <1>1 DEF HasBuilt
<1>8. CASE HasBuilt(made, e)
  <2>1. Len(kids) = 1
    BY <1>4, <1>8 DEF Announced
  <2>2. 1 \in DOMAIN kids
    BY <1>3, <2>1
  <2>3. kids[1] \in DOMAIN made /\ made[kids[1]].from.node = n
    BY <1>1, <1>6, <1>8, <2>2 DEF Right
  <2> QED BY <1>5, <1>7, <1>8, <2>1, <2>3 DEF ContentsAgree, Origin, Entities
<1>9. CASE ~ HasBuilt(made, e)
  <2>1. Len(Kids(n)) = Len(kids)
    BY <1>1, <1>4, <1>9 DEF Announced
  <2>2. \A i \in DOMAIN kids : ValueCopyOf(Kids(n)[i], kids[i])
    <3> SUFFICES ASSUME NEW i \in DOMAIN kids PROVE ValueCopyOf(Kids(n)[i], kids[i])
      OBVIOUS
    <3>1. PICK v : MayStandFor(Kids(n)[i], v) /\ Copies(nulled, made, v, kids[i])
      BY <1>1, <1>6, <1>9 DEF Right
    <3>2. CopyOf(v, kids[i])
      BY <3>1, CopiesAre
    <3> QED BY <3>1, <3>2 DEF MayStandFor, ValueCopyOf
  <2>3. SameValues(Kids(n), kids)
    <3>1. DOMAIN kids = 1 .. Len(kids)
      BY <1>3
    <3> QED BY <2>1, <2>2, <3>1 DEF SameValues
  <2> QED BY <1>5, <1>7, <1>9, <2>3 DEF ContentsAgree
<1> QED BY <1>8, <1>9

----------------------------------------------------------------------------
(* What round trips rest on: there is a run for what the encoder has       *)
(* written, and the decoder of a frame that was returned goes along it.    *)
THEOREM RoundTripInvariant == Spec => [](TraceInv /\ FollowInv)
<1>1. Init => TraceInv /\ FollowInv
  BY TraceBegins, FollowBegins
<1>2. (EncInv /\ DecInv) /\ (IdentInv /\ LinkInv /\ OwnTokens) /\ (TraceInv /\ FollowInv) /\ [Next]_vars
        => (TraceInv /\ FollowInv)'
  BY TraceKept, FollowKept
<1> QED BY <1>1, <1>2, WalksInvariant, IdentityInvariant, PTL DEF Spec

(* No frame that was returned is refused, for any graph, at any depth      *)
(* limit, after any rollback of an id.                                     *)
THEOREM FramesAreAccepted == Spec => []FrameAccepted
<1>1. FollowInv => FrameAccepted
  BY DEF FollowInv, FrameAccepted, On
<1> QED BY <1>1, RoundTripInvariant, PTL

(* What is decoded is what was encoded: every entity is of its node's      *)
(* kind and has copies of the node's contents, all and in order.           *)
THEOREM CopiesHaveTheShape == Spec => []SameShape
<1>1. (EncInv /\ DecInv) /\ (IdentInv /\ LinkInv /\ OwnTokens) /\ (TraceInv /\ FollowInv) => SameShape
  <2> SUFFICES ASSUME DecInv, LinkInv, FollowInv, Done
               PROVE  /\ CopyOf(1, result)
                      /\ \A e \in Entities : KindAgrees(Origin(e), e) /\ ContentsAgree(e)
    BY DEF SameShape
  <2>1. PICK g \in RunState : Arrived(g)
    BY DoneArrived
  <2>2. CopyOf(1, result)
    <3>1. Copies(nulled, made, 1, result)
      BY <2>1 DEF Arrived, ContentsOK
    <3> QED BY <3>1, CopiesAre
  <2> QED BY <2>1, <2>2, ArrivedContents
<1> QED BY <1>1, WalksInvariant, IdentityInvariant, RoundTripInvariant, PTL

(* Both sides gave out the same ids, and for the same values.              *)
THEOREM TablesAgree == Spec => []IdsAgree
<1>1. (EncInv /\ DecInv) /\ (IdentInv /\ LinkInv /\ OwnTokens) /\ (TraceInv /\ FollowInv) => IdsAgree
  <2> SUFFICES ASSUME DecInv, LinkInv, FollowInv, Done
               PROVE  /\ Len(ids) = nextId
                      /\ \A n \in Nodes(graph) : HasId(n) => Origin(ids[claim[n] + 1]) = n
    BY DEF IdsAgree
  <2>1. PICK g \in RunState : Arrived(g)
    BY DoneArrived
  <2> QED BY <2>1 DEF Arrived, Registered, Origin
<1> QED BY <1>1, WalksInvariant, IdentityInvariant, RoundTripInvariant, PTL
=============================================================================
