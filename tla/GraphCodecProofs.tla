-------------------------- MODULE GraphCodecProofs --------------------------
(***************************************************************************)
(* What the two walks keep, for any graphs, frames and depth limits.       *)
(*                                                                         *)
(* Encoder: every reference taken for the walk is owed by a task of the    *)
(* agenda, so an empty agenda means that all are released.                 *)
(*                                                                         *)
(* Decoder: what a frame builds is well formed at every moment, whatever   *)
(* the frame says.  The values still to be read go into entities that no   *)
(* array already handed out contains.                                      *)
(***************************************************************************)
EXTENDS GraphCodec, SequenceTheorems, FunctionTheorems, FiniteSetTheorems, TLAPS

AnyToken ==
  {t \in [tag : WireTags, arg : Nat] \cup [tag : WireTags, arg : Nat, node : Nat] :
     t.tag \in {"new_ref", "magic"} => t.arg = 1}

----------------------------------------------------------------------------
(* The places of a sequence, weighted: W[x] is what an element x counts.   *)

Marks(s, W) == UNION {{k} \X W[s[k]] : k \in DOMAIN s}
Sum(s, W)   == Cardinality(Marks(s, W))

----------------------------------------------------------------------------
(* The encoder's inductive invariant.                                      *)

EncTask ==
  [do : {"value"}, v : Nat, depth : Nat, rcn : BOOLEAN, borrowed : BOOLEAN, element : BOOLEAN]
    \cup [do : {"arrayDone"}, n : Nat, held : Seq(Nat), claimed : BOOLEAN, at : Nat, refs : Nat]
    \cup [do : {"hook"}, n : Nat, depth : Nat, tracked : BOOLEAN]
    \cup [do : {"release"}, held : Seq(Nat)]

(* The places in a task's list that stand for node n. *)
HeldBy(t) == IF t.do \in {"arrayDone", "release"} THEN t.held ELSE <<>>
Owed(n)   == [t \in EncTask |-> {j \in DOMAIN HeldBy(t) : HeldBy(t)[j] = n}]

EncTyped ==
  /\ EncTypeOK
  /\ maxDepth \in Nat
  /\ agenda \in Seq(EncTask)
  /\ body \in Seq(AnyToken)
  /\ agenda # <<>> => WellFormed(graph)

(* An id claimed for a hook is there to be given back.                     *)
HooksFirst ==
  \A i \in DOMAIN agenda : agenda[i].do = "hook" => i = 1 /\ nextId > 0

(* Array walks nest: each began in what is written, the inner ones later.  *)
WalksNest ==
  \A i \in DOMAIN agenda : agenda[i].do = "arrayDone" =>
    /\ agenda[i].at \in 1 .. Len(body)
    /\ \A j \in DOMAIN agenda : i < j /\ agenda[j].do = "arrayDone" => agenda[j].at < agenda[i].at

(* What the encoder holds is what the tasks to come release.               *)
HoldsOwed == \A n \in Nodes(graph) : hold[n] = Sum(agenda, Owed(n))

EncInv == EncTyped /\ HooksFirst /\ WalksNest /\ HoldsOwed

----------------------------------------------------------------------------
(* The decoder's inductive invariant.                                      *)

EntityRec == [kind : {"array", "reference", "object"}, kids : Seq(Int), from : AnyToken]

DecTask ==
  [do : {"read"}, into : Nat, depth : Nat, hot : BOOLEAN]
    \cup [do : {"shared"}, entity : Nat, refs : Nat]
    \cup [do : {"reference", "magic"}, entity : Nat]

Fills(t, e) == t.do = "read" /\ t.into = e
Reads(e)    == [t \in DecTask |-> IF Fills(t, e) THEN {1} ELSE {}]

DecTyped ==
  /\ DecTypeOK
  /\ maxDepth \in Nat
  /\ frame \in Seq(AnyToken) /\ made \in Seq(EntityRec)
  /\ todo \in Seq(DecTask) /\ ids \in Seq(Nat)
  /\ decoded = "no" => pos = 0 /\ made = <<>> /\ todo = <<>> /\ ids = <<>>

(* What is still missing from an entity is on the agenda.                  *)
MissingIsComing ==
  /\ \A e \in Entities : Len(made[e].kids) + Sum(todo, Reads(e)) = made[e].from.arg
  /\ result = NoValue /\ decoded # "no" => \E i \in DOMAIN todo : Fills(todo[i], 0)
  /\ decoded = "ok" => todo = <<>> /\ pos = Len(frame)

(* A reference that is filled was checked, or will be.                     *)
Checked(e) == made[e].kids # <<>> /\ Sum(todo, Reads(e)) = 0 /\ ~ InnerKindIs(e, "reference")
ReferencesChecked ==
  /\ \A e \in Entities : made[e].kind = "reference" =>
       /\ made[e].from.arg = 1
       /\ Checked(e) \/ \E i \in DOMAIN todo : todo[i].do = "reference" /\ todo[i].entity = e
  /\ \A i, j \in DOMAIN todo :
       todo[i].do = "reference" /\ i < j => ~ Fills(todo[j], todo[i].entity)

(* Nothing more is put into an array or what it contains as an array.      *)
Sealed(entities, e, task_) ==
  task_.do = "read" /\ task_.into # 0 /\ entities[task_.into].kind = "array"
    => task_.into \notin {e} \cup ArrayContents(entities, e)

HoldsNoReference(entities, e) ==
  \A x \in ArrayContents(entities, e) : entities[x].kind # "reference"

SharedSealed ==
  /\ \A i \in DOMAIN ids : made[ids[i]].kind = "array" =>
       \A j \in DOMAIN todo : Sealed(made, ids[i], todo[j])
  /\ \A i \in DOMAIN todo : todo[i].do = "shared" =>
       /\ made[todo[i].entity].kind = "array"
       /\ todo[i].refs <= dRefsSeen
       /\ todo[i].refs = dRefsSeen => HoldsNoReference(made, todo[i].entity)
       /\ \A j \in DOMAIN todo : i < j => Sealed(made, todo[i].entity, todo[j])

DecInv ==
  /\ DecTyped /\ MissingIsComing /\ ReferencesChecked
  /\ SharedSealed /\ SharedArraysHoldNoReference /\ ArraysAcyclic

----------------------------------------------------------------------------
(* Sums over sequences.                                                    *)

(* There are finitely many marks if each element has.                      *)
LEMMA MarksFinite ==
  ASSUME NEW X, NEW s \in Seq(X), NEW W \in [X -> SUBSET Nat], \A x \in X : IsFiniteSet(W[x])
  PROVE  IsFiniteSet(Marks(s, W)) /\ Sum(s, W) \in Nat
<1> DEFINE D == 1 .. Len(s)
           F == [k \in D |-> {k} \X W[s[k]]]
           T == {{k} \X W[s[k]] : k \in D}
<1>1. DOMAIN s = D /\ IsFiniteSet(D) /\ \A k \in D : s[k] \in X
  BY FS_Interval
<1>2. \A k \in D : IsFiniteSet({k} \X W[s[k]])
  BY <1>1, FS_Product, FS_Singleton
<1>3. F \in Surjection(D, T)
  BY DEF Surjection
<1>4. IsFiniteSet(T)
  <2> HIDE DEF D, F, T
  <2> QED BY <1>1, <1>3, FS_Surjection
<1>5. \A t \in T : IsFiniteSet(t)
  BY <1>2
<1>6. Marks(s, W) = UNION T
  BY <1>1 DEF Marks
<1>7. IsFiniteSet(UNION T)
  <2> HIDE DEF T
  <2> QED BY <1>4, <1>5, FS_UNION
<1> QED BY <1>6, <1>7, FS_CardinalityType DEF Sum

(* A sum over two sequences is the sum of their sums.                      *)
LEMMA SumConcat ==
  ASSUME NEW X, NEW s \in Seq(X), NEW t \in Seq(X),
         NEW W \in [X -> SUBSET Nat], \A x \in X : IsFiniteSet(W[x])
  PROVE  Sum(s \o t, W) = Sum(s, W) + Sum(t, W)
<1> DEFINE u == s \o t
           m == Len(s)
           A == Marks(s, W)
           B == Marks(t, W)
           C == UNION {{k} \X W[u[k]] : k \in m + 1 .. m + Len(t)}
           f == [p \in B |-> <<p[1] + m, p[2]>>]
<1>1. /\ m \in Nat /\ Len(t) \in Nat /\ DOMAIN s = 1 .. m /\ DOMAIN t = 1 .. Len(t)
      /\ DOMAIN u = 1 .. m + Len(t)
      /\ \A k \in 1 .. m : u[k] = s[k]
      /\ \A k \in 1 .. Len(t) : u[k + m] = t[k]
  BY ConcatProperties
<1>2. IsFiniteSet(A) /\ IsFiniteSet(B)
  BY MarksFinite
<1>3. A = UNION {{k} \X W[s[k]] : k \in 1 .. m} /\ B = UNION {{k} \X W[t[k]] : k \in 1 .. Len(t)}
  BY <1>1 DEF Marks
<1> HIDE DEF u, m, A, B
<1>4. Marks(u, W) = UNION {{k} \X W[u[k]] : k \in 1 .. m + Len(t)}
  BY <1>1 DEF Marks
<1>5. Marks(u, W) = A \cup C
  <2>1. \A k \in 1 .. m : k \in 1 .. m + Len(t) /\ W[u[k]] = W[s[k]]
    BY <1>1
  <2>2. \A k \in m + 1 .. m + Len(t) : k \in 1 .. m + Len(t)
    BY <1>1
  <2>3. \A k \in 1 .. m + Len(t) : k \in 1 .. m \/ k \in m + 1 .. m + Len(t)
    BY <1>1
  <2> QED BY <1>3, <1>4, <2>1, <2>2, <2>3
<1>6. A \cap C = {}
  <2>1. \A p \in A : p[1] <= m
    BY <1>1, <1>3
  <2>2. \A p \in C : p[1] > m
    BY <1>1
  <2>3. \A p \in A : p[1] \in Int
    BY <1>3
  <2> HIDE DEF C
  <2> QED BY <1>1, <2>1, <2>2, <2>3
<1>7. f \in Bijection(B, C)
  <2>1. \A p \in B : \E k \in 1 .. Len(t) : \E j \in W[t[k]] : p = <<k, j>>
    BY <1>3
  <2>2. \A p \in B : f[p] \in C
    <3> SUFFICES ASSUME NEW p \in B PROVE f[p] \in C
      OBVIOUS
    <3>1. PICK k \in 1 .. Len(t) : \E j \in W[t[k]] : p = <<k, j>>
      BY <2>1
    <3>2. PICK j \in W[t[k]] : p = <<k, j>>
      BY <3>1
    <3>3. f[p] = <<k + m, j>> /\ k + m \in m + 1 .. m + Len(t) /\ j \in W[u[k + m]]
      BY <1>1, <3>2
    <3> QED BY <3>3
  <2>3. \A p, q \in B : f[p] = f[q] => p = q
    <3> SUFFICES ASSUME NEW p \in B, NEW q \in B, f[p] = f[q] PROVE p = q
      OBVIOUS
    <3>1. PICK k \in 1 .. Len(t) : \E j \in W[t[k]] : p = <<k, j>>
      BY <2>1
    <3>2. PICK l \in 1 .. Len(t) : \E j \in W[t[l]] : q = <<l, j>>
      BY <2>1
    <3>3. k + m = l + m /\ p[2] = q[2]
      BY <3>1, <3>2
    <3>4. k = l
      BY <1>1, <3>3
    <3> QED BY <3>1, <3>2, <3>3, <3>4
  <2>4. \A c \in C : \E p \in B : f[p] = c
    <3> SUFFICES ASSUME NEW c \in C PROVE \E p \in B : f[p] = c
      OBVIOUS
    <3>1. PICK k \in m + 1 .. m + Len(t) : c \in {k} \X W[u[k]]
      OBVIOUS
    <3>2a. c = <<k, c[2]>> /\ c[2] \in W[u[k]]
      BY <3>1
    <3>2. PICK j \in W[u[k]] : c = <<k, j>>
      BY <3>2a
    <3> DEFINE l == k - m
    <3>3. l \in 1 .. Len(t) /\ l + m = k
      BY <1>1
    <3> HIDE DEF l
    <3>4. W[u[k]] = W[t[l]]
      BY <1>1, <3>3
    <3>5. <<l, j>> \in B
      BY <1>3, <3>2, <3>3, <3>4
    <3>6. f[<<l, j>>] = c
      BY <3>2, <3>3, <3>5
    <3> QED BY <3>5, <3>6
  <2> HIDE DEF f, C
  <2>5. f \in [B -> C]
    BY <2>2 DEF f
  <2> QED BY <2>3, <2>4, <2>5, Fun_IsBij
<1>8. IsFiniteSet(C) /\ Cardinality(C) = Cardinality(B)
  <2> HIDE DEF f, C
  <2> QED BY <1>2, <1>7, FS_Bijection DEF ExistsBijection
<1>9. Cardinality(A \cup C) = Cardinality(A) + Cardinality(C)
  <2> HIDE DEF C
  <2>1. Cardinality(A \cap C) = 0 /\ Cardinality(A) \in Nat /\ Cardinality(C) \in Nat
    BY <1>2, <1>6, <1>8, FS_EmptySet, FS_CardinalityType
  <2>2. Cardinality(A \cup C) = Cardinality(A) + Cardinality(C) - Cardinality(A \cap C)
    BY <1>2, <1>8, FS_Union
  <2> QED BY <2>1, <2>2
<1> QED BY <1>5, <1>8, <1>9 DEF Sum, u, A, B

(* A sum with one element is what the element counts; with none it is 0.   *)
LEMMA SumSmall ==
  ASSUME NEW X, NEW x \in X, NEW W \in [X -> SUBSET Nat], IsFiniteSet(W[x])
  PROVE  Sum(<<x>>, W) = Cardinality(W[x]) /\ Sum(<<>>, W) = 0
<1>1. Sum(<<>>, W) = 0
  <2>1. Marks(<<>>, W) = {}
    BY DEF Marks
  <2> QED BY <2>1, FS_EmptySet DEF Sum
<1> DEFINE f == [j \in W[x] |-> <<1, j>>]
           M == Marks(<<x>>, W)
<1>2. M = {1} \X W[x]
  BY DEF Marks
<1>3. f \in Bijection(W[x], M)
  <2>1. f \in [W[x] -> M] /\ \A a, b \in W[x] : f[a] = f[b] => a = b
    BY <1>2
  <2>2. \A m \in M : \E a \in W[x] : f[a] = m
    BY <1>2
  <2> HIDE DEF f, M
  <2> QED BY <2>1, <2>2, Fun_IsBij
<1>4. Cardinality(M) = Cardinality(W[x])
  <2> HIDE DEF f, M
  <2> QED BY <1>3, FS_Bijection DEF ExistsBijection
<1> QED BY <1>1, <1>4 DEF Sum

(* The head's part of a sum.                                               *)
LEMMA SumHead ==
  ASSUME NEW X, NEW s \in Seq(X), s # <<>>,
         NEW W \in [X -> SUBSET Nat], \A x \in X : IsFiniteSet(W[x])
  PROVE  Sum(s, W) = Cardinality(W[Head(s)]) + Sum(Tail(s), W)
<1>1. Head(s) \in X /\ Tail(s) \in Seq(X) /\ s = <<Head(s)>> \o Tail(s) /\ <<Head(s)>> \in Seq(X)
  BY HeadTailProperties
<1>2. Sum(s, W) = Sum(<<Head(s)>>, W) + Sum(Tail(s), W)
  BY <1>1, SumConcat
<1> QED BY <1>1, <1>2, SumSmall

(* A sum is 0 where no element counts, and only there.                     *)
LEMMA SumZero ==
  ASSUME NEW X, NEW s \in Seq(X), NEW W \in [X -> SUBSET Nat], \A x \in X : IsFiniteSet(W[x])
  PROVE  Sum(s, W) = 0 <=> \A i \in DOMAIN s : W[s[i]] = {}
<1>1. Sum(s, W) = 0 <=> Marks(s, W) = {}
  BY MarksFinite, FS_EmptySet DEF Sum
<1>2. Marks(s, W) = {} <=> \A i \in DOMAIN s : W[s[i]] = {}
  <2>1. ASSUME NEW i \in DOMAIN s, NEW j \in W[s[i]] PROVE <<i, j>> \in Marks(s, W)
    BY <2>1 DEF Marks
  <2> QED BY <2>1 DEF Marks
<1> QED BY <1>1, <1>2

(* Elements that each count one.                                           *)
LEMMA SumOnes ==
  ASSUME NEW X, NEW s \in Seq(X), NEW W \in [X -> SUBSET Nat],
         \A i \in DOMAIN s : W[s[i]] = {1}
  PROVE  Sum(s, W) = Len(s)
<1> DEFINE D == 1 .. Len(s)
           M == Marks(s, W)
           f == [k \in D |-> <<k, 1>>]
<1>1. DOMAIN s = D /\ IsFiniteSet(D) /\ Cardinality(D) = Len(s)
  BY FS_Interval, LenProperties
<1>2. M = D \X {1}
  BY <1>1 DEF Marks
<1>3. f \in Bijection(D, M)
  <2>1. f \in [D -> M] /\ \A a, b \in D : f[a] = f[b] => a = b
    BY <1>2
  <2>2. \A m \in M : \E a \in D : f[a] = m
    BY <1>2
  <2> HIDE DEF f, M, D
  <2> QED BY <2>1, <2>2, Fun_IsBij
<1>4. Cardinality(M) = Cardinality(D)
  <2> HIDE DEF f, M, D
  <2> QED BY <1>1, <1>3, FS_Bijection DEF ExistsBijection
<1> QED BY <1>1, <1>4 DEF Sum

----------------------------------------------------------------------------
(* The encoder's agenda.                                                   *)

(* What a task counts for a node is how often its list has the node.       *)
LEMMA OwedCounts ==
  ASSUME NEW n
  PROVE  /\ Owed(n) \in [EncTask -> SUBSET Nat]
         /\ \A t \in EncTask :
              /\ IsFiniteSet(Owed(n)[t])
              /\ Cardinality(Owed(n)[t]) = Times(HeldBy(t), n)
              /\ Times(HeldBy(t), n) \in Nat
              /\ t.do \in {"value", "hook"} => Owed(n)[t] = {}
<1>1. \A t \in EncTask : HeldBy(t) \in Seq(Nat)
  BY DEF EncTask, HeldBy
<1>2. ASSUME NEW t \in EncTask
      PROVE  /\ Owed(n)[t] \in SUBSET Nat /\ IsFiniteSet(Owed(n)[t])
             /\ Owed(n)[t] = {i \in DOMAIN HeldBy(t) : HeldBy(t)[i] = n}
  <2>1. DOMAIN HeldBy(t) = 1 .. Len(HeldBy(t)) /\ Len(HeldBy(t)) \in Nat
    BY <1>1, LenProperties
  <2>2. IsFiniteSet(1 .. Len(HeldBy(t)))
    BY <2>1, FS_Interval
  <2>3. Owed(n)[t] = {i \in DOMAIN HeldBy(t) : HeldBy(t)[i] = n}
    BY DEF Owed
  <2>4. Owed(n)[t] \in SUBSET (1 .. Len(HeldBy(t)))
    BY <2>1, <2>3
  <2>5. 1 .. Len(HeldBy(t)) \subseteq Nat
    BY <2>1
  <2> QED BY <2>2, <2>3, <2>4, <2>5, FS_Subset
<1>3. \A t \in EncTask : t.do \in {"value", "hook"} => HeldBy(t) = <<>>
  BY DEF EncTask, HeldBy
<1>4. Owed(n) \in [EncTask -> SUBSET Nat]
  <2>1. Owed(n) = [t \in EncTask |-> Owed(n)[t]]
    BY DEF Owed
  <2> QED BY <1>2, <2>1
<1>5. ASSUME NEW t \in EncTask, t.do \in {"value", "hook"} PROVE Owed(n)[t] = {}
  BY <1>2, <1>3, <1>5
<1>6. \A t \in EncTask :
        Cardinality(Owed(n)[t]) = Times(HeldBy(t), n) /\ Times(HeldBy(t), n) \in Nat
  BY <1>2, FS_CardinalityType DEF Times
<1> QED BY <1>2, <1>4, <1>5, <1>6

(* Tasks a step puts first: values to encode, then perhaps the end of a    *)
(* walk or of a snapshot that will release what was retained for them.     *)
Values == Nodes(graph) \cup {Scalar}
ValueList(tasks) ==
  tasks \in Seq(EncTask) /\ \A i \in DOMAIN tasks : tasks[i].do = "value" /\ tasks[i].v \in Values
Ending(t) ==
  /\ t \in EncTask /\ t.do \in {"arrayDone", "release"}
  /\ t.do = "arrayDone" => t.n \in Nodes(graph) /\ t.at = Len(body) + 1
Pushes(tasks, held) ==
  \/ ValueList(tasks) /\ held = <<>>
  \/ \E values, t : ValueList(values) /\ Ending(t) /\ tasks = values \o <<t>> /\ held = t.held

(* What such tasks are.                                                    *)
LEMMA PushedTasks ==
  ASSUME NEW tasks, NEW held, Pushes(tasks, held)
  PROVE  /\ tasks \in Seq(EncTask) /\ held \in Seq(Nat)
         /\ \A i \in DOMAIN tasks :
              /\ TaskType(tasks[i])
              /\ tasks[i].do # "hook"
              /\ tasks[i].do = "arrayDone" => i = Len(tasks) /\ tasks[i].at = Len(body) + 1
         /\ \A n : Sum(tasks, Owed(n)) = Times(held, n) /\ Times(held, n) \in Nat
<1>1. ASSUME NEW values, ValueList(values)
      PROVE  /\ values \in Seq(EncTask) /\ Len(values) \in Nat /\ DOMAIN values = 1 .. Len(values)
             /\ \A i \in DOMAIN values : TaskType(values[i]) /\ values[i].do = "value"
             /\ \A n : Sum(values, Owed(n)) = 0
  <2>1. values \in Seq(EncTask) /\ \A i \in DOMAIN values : TaskType(values[i]) /\ values[i].do = "value"
    BY <1>1 DEF ValueList, TaskType, Values
  <2>2. ASSUME NEW n PROVE Sum(values, Owed(n)) = 0
    <3>1. \A i \in DOMAIN values : values[i] \in EncTask
      BY <2>1
    <3>2. \A i \in DOMAIN values : Owed(n)[values[i]] = {}
      BY <2>1, <3>1, OwedCounts
    <3>3. Owed(n) \in [EncTask -> SUBSET Nat] /\ \A t \in EncTask : IsFiniteSet(Owed(n)[t])
      BY OwedCounts
    <3> QED BY <2>1, <3>2, <3>3, SumZero
  <2> QED BY <2>1, <2>2, LenProperties
<1>2. Times(<<>>, 0) = 0 /\ \A n : Times(<<>>, n) = 0
  <2>1. \A n : {i \in DOMAIN <<>> : <<>>[i] = n} = {}
    OBVIOUS
  <2> QED BY <2>1, FS_EmptySet DEF Times
<1>3. CASE ValueList(tasks) /\ held = <<>>
  BY <1>1, <1>2, <1>3
<1>4. ASSUME NEW values, NEW t, ValueList(values), Ending(t), tasks = values \o <<t>>, held = t.held
      PROVE  /\ tasks \in Seq(EncTask) /\ held \in Seq(Nat)
             /\ \A i \in DOMAIN tasks :
                  /\ TaskType(tasks[i])
                  /\ tasks[i].do # "hook"
                  /\ tasks[i].do = "arrayDone" => i = Len(tasks) /\ tasks[i].at = Len(body) + 1
             /\ \A n : Sum(tasks, Owed(n)) = Times(held, n) /\ Times(held, n) \in Nat
  <2>1. t \in EncTask /\ <<t>> \in Seq(EncTask) /\ Len(<<t>>) = 1 /\ <<t>>[1] = t
    BY <1>4 DEF Ending
  <2>2. /\ values \in Seq(EncTask) /\ Len(values) \in Nat
        /\ \A i \in 1 .. Len(values) : TaskType(values[i]) /\ values[i].do = "value"
        /\ \A n : Sum(values, Owed(n)) = 0
    BY <1>1, <1>4
  <2>3. /\ tasks \in Seq(EncTask) /\ Len(tasks) = Len(values) + 1 /\ DOMAIN tasks = 1 .. Len(values) + 1
        /\ \A i \in 1 .. Len(values) : tasks[i] = values[i]
        /\ tasks[Len(values) + 1] = t
    BY <1>4, <2>1, <2>2, ConcatProperties
  <2>4. t.do \in {"arrayDone", "release"} /\ HeldBy(t) = held /\ held \in Seq(Nat)
    BY <1>4 DEF Ending, EncTask, HeldBy
  <2>5. TaskType(t) /\ (t.do = "arrayDone" => t.at = Len(body) + 1)
    BY <1>4 DEF Ending, EncTask, TaskType
  <2>6. ASSUME NEW n PROVE Sum(tasks, Owed(n)) = Times(held, n) /\ Times(held, n) \in Nat
    <3>1. Owed(n) \in [EncTask -> SUBSET Nat] /\ \A x \in EncTask : IsFiniteSet(Owed(n)[x])
      BY OwedCounts
    <3>2. Sum(tasks, Owed(n)) = Sum(values, Owed(n)) + Sum(<<t>>, Owed(n))
      BY <1>4, <2>1, <2>2, <3>1, SumConcat
    <3>3. Sum(<<t>>, Owed(n)) = Cardinality(Owed(n)[t])
      BY <2>1, <3>1, SumSmall
    <3>4. Cardinality(Owed(n)[t]) = Times(held, n) /\ Times(held, n) \in Nat
      BY <2>1, <2>4, OwedCounts
    <3> QED BY <2>2, <3>2, <3>3, <3>4
  <2>7. ASSUME NEW i \in DOMAIN tasks
        PROVE  /\ TaskType(tasks[i]) /\ tasks[i].do # "hook"
               /\ tasks[i].do = "arrayDone" => i = Len(tasks) /\ tasks[i].at = Len(body) + 1
    <3>1. CASE i \in 1 .. Len(values)
      BY <2>2, <2>3, <3>1
    <3>2. CASE i = Len(values) + 1
      BY <2>3, <2>4, <2>5, <3>2
    <3> QED BY <2>2, <2>3, <3>1, <3>2
  <2> QED BY <2>3, <2>4, <2>6, <2>7
<1> QED BY <1>3, <1>4 DEF Pushes

(* The sequence after a step: the new tasks, then the old ones but one.    *)
LEMMA Placed ==
  ASSUME NEW X, NEW new_ \in Seq(X), NEW old \in Seq(X), old # <<>>
  PROVE  /\ new_ \o Tail(old) \in Seq(X)
         /\ Len(new_ \o Tail(old)) = Len(new_) + Len(old) - 1
         /\ \A i \in DOMAIN (new_ \o Tail(old)) :
              \/ i \in DOMAIN new_ /\ i <= Len(new_) /\ (new_ \o Tail(old))[i] = new_[i]
              \/ /\ i > Len(new_) /\ i - Len(new_) + 1 \in 2 .. Len(old)
                 /\ (new_ \o Tail(old))[i] = old[i - Len(new_) + 1]
<1>1. Tail(old) \in Seq(X) /\ Len(Tail(old)) = Len(old) - 1
      /\ \A i \in 1 .. Len(Tail(old)) : Tail(old)[i] = old[i + 1]
  BY HeadTailProperties
<1>2. Len(new_) \in Nat /\ Len(old) \in Nat /\ Len(old) > 0
  BY EmptySeq, LenProperties
<1> DEFINE u == new_ \o Tail(old)
<1>3. /\ u \in Seq(X) /\ Len(u) = Len(new_) + Len(old) - 1 /\ DOMAIN u = 1 .. Len(u)
      /\ \A i \in 1 .. Len(u) : u[i] = IF i <= Len(new_) THEN new_[i] ELSE Tail(old)[i - Len(new_)]
  BY <1>1, <1>2, ConcatProperties
<1>4. DOMAIN new_ = 1 .. Len(new_)
  OBVIOUS
<1> HIDE DEF u
<1>5. ASSUME NEW i \in DOMAIN u
      PROVE  \/ i \in DOMAIN new_ /\ i <= Len(new_) /\ u[i] = new_[i]
             \/ i > Len(new_) /\ i - Len(new_) + 1 \in 2 .. Len(old) /\ u[i] = old[i - Len(new_) + 1]
  <2>1. CASE i <= Len(new_)
    BY <1>2, <1>3, <1>4, <2>1
  <2>2. CASE i > Len(new_)
    <3>0. i \in 1 .. Len(u) /\ i \in Nat /\ ~ (i <= Len(new_))
      BY <1>2, <1>3, <2>2
    <3>1. i - Len(new_) \in 1 .. Len(Tail(old)) /\ u[i] = Tail(old)[i - Len(new_)]
      <4>1. u[i] = Tail(old)[i - Len(new_)]
        BY <1>3, <3>0
      <4>2. i - Len(new_) \in 1 .. Len(Tail(old))
        BY <1>1, <1>2, <1>3, <2>2, <3>0
      <4> QED BY <4>1, <4>2
    <3>2. u[i] = old[i - Len(new_) + 1]
      BY <1>1, <3>1
    <3> QED BY <1>1, <1>2, <1>3, <2>2, <3>1, <3>2
  <2> QED BY <1>2, <1>3, <2>1, <2>2
<1> QED BY <1>3, <1>5 DEF u

(* EncTypeOK but for the agenda and the references held.                   *)
EncRest ==
  /\ claim \in [Nodes(graph) -> {NoEntry, Pending, Unshared} \cup Nat]
  /\ nextId \in Nat /\ refsSeen \in Nat
  /\ pinsActive \in BOOLEAN
  /\ nulled \subseteq Nodes(graph)
  /\ depthExceeded \in BOOLEAN /\ failed \in BOOLEAN
  /\ encoded \in {"no", "ok", "depth", "exception", "none"}

LEMMA RestTyped == EncInv => EncRest
BY DEF EncInv, EncTyped, EncTypeOK, EncRest

(* The head of the agenda and what follows it.                             *)
LEMMA HeadOfAgenda ==
  ASSUME EncInv, agenda # <<>>
  PROVE  /\ agenda \in Seq(EncTask) /\ Len(agenda) \in Nat /\ Len(agenda) > 0
         /\ DOMAIN agenda = 1 .. Len(agenda) /\ 1 \in DOMAIN agenda
         /\ task = agenda[1] /\ task \in EncTask /\ TaskType(task)
         /\ hold \in [Nodes(graph) -> Nat]
<1>1. agenda \in Seq(EncTask) /\ hold \in [Nodes(graph) -> Nat]
      /\ \A i \in DOMAIN agenda : TaskType(agenda[i])
  BY DEF EncInv, EncTyped, EncTypeOK
<1>2. Len(agenda) \in Nat /\ Len(agenda) > 0 /\ DOMAIN agenda = 1 .. Len(agenda)
  BY <1>1, EmptySeq, LenProperties
<1>3. 1 \in DOMAIN agenda /\ task = agenda[1]
  BY <1>1, <1>2 DEF task
<1> QED BY <1>1, <1>2, <1>3

(* What a step does to the references held, in one form.                   *)
HoldsMove(held) ==
  hold' = [n \in Nodes(graph) |-> hold[n] - Times(HeldBy(task), n) + Times(held, n)]

LEMMA HoldForms ==
  ASSUME EncInv, agenda # <<>>, NEW held \in Seq(Nat), \A n : Times(held, n) \in Nat,
         \/ /\ task.do \in {"value", "hook"}
            /\ hold' = Held(held) \/ (held = <<>> /\ hold' = hold)
         \/ /\ task.do \in {"arrayDone", "release"}
            /\ held = <<>> /\ hold' = Released(task.held)
  PROVE  HoldsMove(held)
<1>1. task \in EncTask /\ hold \in [Nodes(graph) -> Nat]
  BY HeadOfAgenda
<1>2. \A n : Times(<<>>, n) = 0
  <2>1. \A n : {i \in DOMAIN <<>> : <<>>[i] = n} = {}
    OBVIOUS
  <2> QED BY <2>1, FS_EmptySet DEF Times
<1>3. \A n : Times(HeldBy(task), n) \in Nat
  BY <1>1, OwedCounts
<1>4. task.do \in {"value", "hook"} => HeldBy(task) = <<>>
  BY DEF HeldBy
<1>5. task.do \in {"arrayDone", "release"} => HeldBy(task) = task.held
  BY DEF HeldBy
<1> DEFINE T(n) == Times(HeldBy(task), n)
           U(n) == Times(held, n)
<1>6. CASE task.do \in {"value", "hook"} /\ hold' = Held(held)
  <2>1. \A n : T(n) = 0 /\ U(n) \in Nat
    BY <1>2, <1>4, <1>6
  <2>2. hold' = [n \in Nodes(graph) |-> hold[n] + U(n)]
    BY <1>1, <1>6 DEF Held
  <2> HIDE DEF T, U
  <2>3. \A n \in Nodes(graph) : hold[n] + U(n) = hold[n] - T(n) + U(n)
    BY <1>1, <2>1
  <2>4. hold' = [n \in Nodes(graph) |-> hold[n] - T(n) + U(n)]
    BY <2>2, <2>3
  <2> QED BY <2>4 DEF T, U, HoldsMove
<1>7. CASE task.do \in {"value", "hook"} /\ held = <<>> /\ hold' = hold
  <2>1. \A n : T(n) = 0 /\ U(n) = 0
    BY <1>2, <1>4, <1>7
  <2> HIDE DEF T, U
  <2>2. \A n \in Nodes(graph) : hold[n] = hold[n] - T(n) + U(n)
    BY <1>1, <2>1
  <2>3. hold' = [n \in Nodes(graph) |-> hold[n] - T(n) + U(n)]
    BY <1>1, <1>7, <2>2
  <2> QED BY <2>3 DEF T, U, HoldsMove
<1>8. CASE task.do \in {"arrayDone", "release"} /\ held = <<>> /\ hold' = Released(task.held)
  <2>1. \A n : T(n) \in Nat /\ U(n) = 0
    BY <1>2, <1>3, <1>8
  <2>2. hold' = [n \in Nodes(graph) |-> hold[n] - T(n)]
    BY <1>1, <1>5, <1>8 DEF Released
  <2> HIDE DEF T, U
  <2>3. \A n \in Nodes(graph) : hold[n] - T(n) = hold[n] - T(n) + U(n)
    BY <1>1, <2>1
  <2>4. hold' = [n \in Nodes(graph) |-> hold[n] - T(n) + U(n)]
    BY <2>2, <2>3
  <2> QED BY <2>4 DEF T, U, HoldsMove
<1> QED BY <1>6, <1>7, <1>8

(* A step that pops the head and pushes values to encode, and perhaps the  *)
(* task that releases what was retained for them, keeps the invariant.     *)
LEMMA StepKeeps ==
  ASSUME EncInv, agenda # <<>>, NEW tasks, NEW held, Pushes(tasks, held), Then(tasks),
         UNCHANGED <<graph, maxDepth>>, EncRest', HoldsMove(held),
         body' \in Seq(AnyToken),
         \A i \in DOMAIN agenda : i > 1 /\ agenda[i].do = "arrayDone" => agenda[i].at <= Len(body'),
         (\E i \in DOMAIN tasks : tasks[i].do = "arrayDone") => Len(body') > Len(body)
  PROVE  EncInv'
<1>1. /\ agenda \in Seq(EncTask) /\ Len(agenda) \in Nat /\ Len(agenda) > 0
      /\ DOMAIN agenda = 1 .. Len(agenda) /\ 1 \in DOMAIN agenda
      /\ task = agenda[1] /\ task \in EncTask /\ hold \in [Nodes(graph) -> Nat]
  BY HeadOfAgenda
<1>2. /\ tasks \in Seq(EncTask) /\ held \in Seq(Nat)
      /\ \A i \in DOMAIN tasks :
           /\ TaskType(tasks[i])
           /\ tasks[i].do # "hook"
           /\ tasks[i].do = "arrayDone" => i = Len(tasks) /\ tasks[i].at = Len(body) + 1
      /\ \A n : Sum(tasks, Owed(n)) = Times(held, n) /\ Times(held, n) \in Nat
  BY PushedTasks
<1>3. agenda' = tasks \o Tail(agenda)
  BY DEF Then
<1> DEFINE p == Len(tasks)
<1>4. /\ agenda' \in Seq(EncTask)
      /\ \A i \in DOMAIN agenda' :
           \/ i \in DOMAIN tasks /\ i <= p /\ agenda'[i] = tasks[i]
           \/ i > p /\ i - p + 1 \in 2 .. Len(agenda) /\ agenda'[i] = agenda[i - p + 1]
  BY <1>1, <1>2, <1>3, Placed
<1>5. p \in Nat /\ Len(body) \in Nat /\ Len(body') \in Nat /\ DOMAIN agenda' = 1 .. Len(agenda')
      /\ Len(agenda') \in Nat /\ DOMAIN tasks = 1 .. p
  BY <1>2, <1>4, LenProperties DEF EncInv, EncTyped
<1> HIDE DEF p
<1>6. \A i \in DOMAIN agenda : TaskType(agenda[i])
  BY DEF EncInv, EncTyped, EncTypeOK
<1>7. \A i \in DOMAIN agenda' : TaskType(agenda[i])'
  <2> SUFFICES ASSUME NEW i \in DOMAIN agenda' PROVE TaskType(agenda[i])'
    OBVIOUS
  <2>1. PICK t : t = agenda'[i]
    OBVIOUS
  <2>2. \/ i \in DOMAIN tasks /\ t = tasks[i]
        \/ i - p + 1 \in 2 .. Len(agenda) /\ t = agenda[i - p + 1]
    BY <1>4, <2>1
  <2>3. \A j \in 2 .. Len(agenda) : j \in DOMAIN agenda
    BY <1>1
  <2>4. TaskType(t)
    BY <1>2, <1>6, <2>2, <2>3
  <2> QED BY <2>1, <2>4 DEF TaskType
<1>8. \A i \in DOMAIN agenda' : agenda'[i].do # "hook"
  <2>1. \A i \in 2 .. Len(agenda) : agenda[i].do # "hook"
    BY <1>1 DEF EncInv, HooksFirst
  <2> QED BY <1>2, <1>4, <2>1
<1>9. WalksNest'
  <2>1. /\ \A i \in 2 .. Len(agenda) : agenda[i].do = "arrayDone" =>
             /\ agenda[i].at \in 1 .. Len(body) /\ agenda[i].at <= Len(body')
             /\ \A j \in 2 .. Len(agenda) :
                  i < j /\ agenda[j].do = "arrayDone" => agenda[j].at < agenda[i].at
    <3>1. \A i \in 2 .. Len(agenda) : i \in DOMAIN agenda /\ i > 1
      BY <1>1
    <3> QED BY <3>1 DEF EncInv, WalksNest
  <2> SUFFICES ASSUME NEW i \in DOMAIN agenda', agenda'[i].do = "arrayDone"
               PROVE  /\ agenda'[i].at \in 1 .. Len(body')
                      /\ \A j \in DOMAIN agenda' :
                           i < j /\ agenda'[j].do = "arrayDone" => agenda'[j].at < agenda'[i].at
    BY DEF WalksNest
  <2>2. CASE i \in DOMAIN tasks /\ i <= p /\ agenda'[i] = tasks[i]
    <3>1. i = p /\ agenda'[i].at = Len(body) + 1 /\ Len(body') > Len(body)
      BY <1>2, <2>2 DEF p
    <3>2. \A j \in DOMAIN agenda' :
            i < j => j - p + 1 \in 2 .. Len(agenda) /\ agenda'[j] = agenda[j - p + 1]
      BY <1>4, <1>5, <3>1
    <3>3. \A j \in DOMAIN agenda' :
            i < j /\ agenda'[j].do = "arrayDone" => agenda'[j].at \in 1 .. Len(body)
      BY <2>1, <3>2
    <3> QED BY <1>5, <3>1, <3>3
  <2>3. CASE i > p /\ i - p + 1 \in 2 .. Len(agenda) /\ agenda'[i] = agenda[i - p + 1]
    <3>1. \A j \in DOMAIN agenda' : i < j =>
            /\ j - p + 1 \in 2 .. Len(agenda) /\ agenda'[j] = agenda[j - p + 1]
            /\ i - p + 1 < j - p + 1
      BY <1>4, <1>5, <2>3
    <3>2. agenda'[i].at \in 1 .. Len(body')
      <4>1. agenda'[i].at \in 1 .. Len(body) /\ agenda'[i].at <= Len(body')
        BY <2>1, <2>3
      <4> QED BY <1>5, <4>1
    <3>3. \A j \in DOMAIN agenda' :
            i < j /\ agenda'[j].do = "arrayDone" => agenda'[j].at < agenda'[i].at
      BY <2>1, <2>3, <3>1
    <3> QED BY <3>2, <3>3
  <2> QED BY <1>4, <2>2, <2>3
<1>10. hold' \in [Nodes(graph) -> Nat] /\ \A n \in Nodes(graph) : hold'[n] = Sum(agenda', Owed(n))
  <2>1. ASSUME NEW n \in Nodes(graph)
        PROVE  hold[n] - Times(HeldBy(task), n) + Times(held, n) \in Nat
               /\ hold[n] - Times(HeldBy(task), n) + Times(held, n) = Sum(agenda', Owed(n))
    <3>1. Owed(n) \in [EncTask -> SUBSET Nat] /\ \A t \in EncTask : IsFiniteSet(Owed(n)[t])
      BY OwedCounts
    <3>2. Tail(agenda) \in Seq(EncTask) /\ task = Head(agenda)
      BY <1>1, HeadTailProperties DEF task
    <3>3. hold[n] = Sum(agenda, Owed(n))
      BY DEF EncInv, HoldsOwed
    <3>4. Sum(agenda, Owed(n)) = Cardinality(Owed(n)[task]) + Sum(Tail(agenda), Owed(n))
      BY <1>1, <3>1, <3>2, SumHead
    <3>5. Cardinality(Owed(n)[task]) = Times(HeldBy(task), n) /\ Times(HeldBy(task), n) \in Nat
      BY <1>1, OwedCounts
    <3>6. Sum(agenda', Owed(n)) = Sum(tasks, Owed(n)) + Sum(Tail(agenda), Owed(n))
      BY <1>2, <1>3, <3>1, <3>2, SumConcat
    <3>7. Sum(Tail(agenda), Owed(n)) \in Nat
      BY <3>1, <3>2, MarksFinite
    <3> DEFINE a == Times(HeldBy(task), n)
               b == Times(held, n)
               c == Sum(Tail(agenda), Owed(n))
    <3>8. hold[n] = a + c /\ Sum(agenda', Owed(n)) = b + c /\ a \in Nat /\ b \in Nat /\ c \in Nat
      BY <1>2, <3>3, <3>4, <3>5, <3>6, <3>7
    <3> HIDE DEF a, b, c
    <3>9. hold[n] - a + b = b + c /\ b + c \in Nat
      BY <3>8
    <3> QED BY <3>8, <3>9 DEF a, b
  <2> QED BY <2>1 DEF HoldsMove
<1>11. EncTypeOK'
  BY <1>7, <1>10 DEF EncRest, EncTypeOK
<1>12. EncTyped'
  BY <1>4, <1>11 DEF EncTyped, EncInv
<1>13. HooksFirst'
  BY <1>8 DEF HooksFirst
<1>14. HoldsOwed'
  BY <1>10 DEF HoldsOwed
<1> QED BY <1>9, <1>12, <1>13, <1>14 DEF EncInv

----------------------------------------------------------------------------
(* The encoder's steps.                                                    *)

(* What a step writes.                                                     *)
LEMMA Written ==
  ASSUME EncInv, NEW tokens \in Seq(AnyToken), tokens # <<>>, Emit(tokens)
  PROVE  /\ body' \in Seq(AnyToken) /\ Len(body') > Len(body)
         /\ \A i \in DOMAIN agenda : agenda[i].do = "arrayDone" => agenda[i].at <= Len(body')
<1>1. body \in Seq(AnyToken) /\ Len(body) \in Nat
  BY LenProperties DEF EncInv, EncTyped
<1>2. Len(tokens) \in Nat /\ Len(tokens) > 0
  BY EmptySeq, LenProperties
<1>3. body' \in Seq(AnyToken) /\ Len(body') = Len(body) + Len(tokens)
  BY <1>1, ConcatProperties DEF Emit
<1>4. \A i \in DOMAIN agenda : agenda[i].do = "arrayDone" => agenda[i].at \in 1 .. Len(body)
  BY DEF EncInv, WalksNest
<1> QED BY <1>1, <1>2, <1>3, <1>4

(* A step on a value or after a hook that writes something.                *)
LEMMA WritesKeep ==
  ASSUME EncInv, agenda # <<>>, task.do \in {"value", "hook"},
         NEW tasks, NEW held, Pushes(tasks, held), Then(tasks),
         NEW tokens \in Seq(AnyToken), tokens # <<>>, Emit(tokens),
         hold' = Held(held) \/ (held = <<>> /\ hold' = hold),
         UNCHANGED <<graph, maxDepth>>, EncRest'
  PROVE  EncInv'
<1>1. held \in Seq(Nat) /\ \A n : Times(held, n) \in Nat
  BY PushedTasks
<1>2. HoldsMove(held)
  BY <1>1, HoldForms
<1>3. /\ body' \in Seq(AnyToken) /\ Len(body') > Len(body)
      /\ \A i \in DOMAIN agenda : agenda[i].do = "arrayDone" => agenda[i].at <= Len(body')
  BY Written
<1> QED BY <1>2, <1>3, StepKeeps

(* Nothing pushed. *)
LEMMA NothingPushed == Pushes(<<>>, <<>>)
BY DEF Pushes, ValueList

(* The graph being walked.                                                 *)
LEMMA GraphTyped ==
  ASSUME EncInv, agenda # <<>>
  PROVE  /\ Nodes(graph) \subseteq Nat /\ Values \subseteq Nat
         /\ \A n \in Nodes(graph) :
              /\ Kids(n) \in Seq(Values)
              /\ Kind(n) = "reference" => Kids(n)[1] \in Values
         /\ maxDepth \in Nat
<1>1. WellFormed(graph) /\ maxDepth \in Nat
  BY DEF EncInv, EncTyped
<1>2. /\ graph.kind \in Seq(Kinds)
      /\ graph.kids \in [Nodes(graph) -> Seq(Nodes(graph) \cup {Scalar})]
      /\ \A n \in Nodes(graph) : KidsFitKind(graph, n)
  BY <1>1 DEF WellFormed
<1>3. Nodes(graph) \subseteq Nat
  BY <1>2, LenProperties DEF Nodes
<1>4. Values \subseteq Nat
  BY <1>3 DEF Values, Scalar
<1>5. ASSUME NEW n \in Nodes(graph)
      PROVE  Kids(n) \in Seq(Values) /\ (Kind(n) = "reference" => Kids(n)[1] \in Values)
  <2>1. Kids(n) \in Seq(Values)
    BY <1>2 DEF Kids, Values
  <2>2. Kind(n) = "reference" => Len(Kids(n)) = 1
    BY <1>2 DEF KidsFitKind, Kids, Kind
  <2> QED BY <2>1, <2>2
<1> QED BY <1>1, <1>3, <1>4, <1>5

(* Lists of tasks for lists of values.                                     *)
LEMMA ListsPushed ==
  ASSUME Values \subseteq Nat, NEW values \in Seq(Values), NEW depth \in Nat,
         NEW rcn \in BOOLEAN, NEW borrowed \in BOOLEAN
  PROVE  /\ ValueList(ValueTasks(values, depth, rcn, borrowed))
         /\ ValueList(ElementTasks(values, depth, rcn, borrowed))
<1>1. DOMAIN values = 1 .. Len(values) /\ Len(values) \in Nat
      /\ \A i \in DOMAIN values : values[i] \in Values /\ values[i] \in Nat
  BY LenProperties
<1> DEFINE t(i) == ValueTask(values[i], depth, rcn, borrowed)
           e(i) == [ValueTask(values[i], depth, rcn, borrowed) EXCEPT !.element = TRUE]
           S == ValueTasks(values, depth, rcn, borrowed)
           E == ElementTasks(values, depth, rcn, borrowed)
<1>2. \A i \in 1 .. Len(values) :
        /\ t(i) \in EncTask /\ t(i).do = "value" /\ t(i).v \in Values
        /\ e(i) \in EncTask /\ e(i).do = "value" /\ e(i).v \in Values
  BY <1>1 DEF ValueTask, EncTask
<1>3. S = [i \in 1 .. Len(values) |-> t(i)]
  BY <1>1 DEF ValueTasks
<1>4. E = [i \in 1 .. Len(values) |-> e(i)]
  BY <1>1 DEF ElementTasks
<1> HIDE DEF t, e, S, E
<1>5. S \in Seq(EncTask) /\ \A i \in DOMAIN S : S[i].do = "value" /\ S[i].v \in Values
  <2>1. S \in [1 .. Len(values) -> EncTask]
    BY <1>2, <1>3
  <2>2. \A i \in 1 .. Len(values) : S[i] = t(i)
    BY <1>3
  <2> QED BY <1>1, <1>2, <2>1, <2>2
<1>6. E \in Seq(EncTask) /\ \A i \in DOMAIN E : E[i].do = "value" /\ E[i].v \in Values
  <2>1. E \in [1 .. Len(values) -> EncTask]
    BY <1>2, <1>4
  <2>2. \A i \in 1 .. Len(values) : E[i] = e(i)
    BY <1>4
  <2> QED BY <1>1, <1>2, <2>1, <2>2
<1> QED BY <1>5, <1>6 DEF ValueList, S, E

(* The tokens written are tokens.                                          *)
LEMMA TokensTyped ==
  /\ \A tag \in WireTags, arg \in Nat, n \in Nat :
       (tag \in {"new_ref", "magic"} => arg = 1) => Token(tag, arg, n) \in AnyToken
  /\ \A n \in Nat : NullFor(n) \in AnyToken
  /\ EncInv /\ agenda # <<>> => \A n \in Nodes(graph) : HasId(n) => RefTo(n) \in AnyToken
<1>1. \A tag \in WireTags, arg \in Nat, n \in Nat :
       (tag \in {"new_ref", "magic"} => arg = 1) => Token(tag, arg, n) \in AnyToken
  BY DEF Token, AnyToken
<1>2. \A n \in Nat : NullFor(n) \in AnyToken
  BY <1>1 DEF NullFor, WireTags, ScalarTags
<1>3. ASSUME EncInv, agenda # <<>>, NEW n \in Nodes(graph), HasId(n) PROVE RefTo(n) \in AnyToken
  <2>1. claim[n] \in Nat /\ n \in Nat
    BY <1>3, GraphTyped, RestTyped DEF EncRest, HasId, NoEntry, Pending, Unshared
  <2> QED BY <1>1, <2>1 DEF RefTo, WireTags, ScalarTags
<1> QED BY <1>1, <1>2, <1>3

(* The head of the agenda, by what it is.                                  *)
LEMMA HeadTyped ==
  ASSUME EncInv, agenda # <<>>
  PROVE  /\ task.do = "value" =>
              /\ task.v \in Values /\ task.v \in Nat /\ task.depth \in Nat
              /\ task.rcn \in BOOLEAN /\ task.borrowed \in BOOLEAN
         /\ task.do = "hook" =>
              task.n \in Nodes(graph) /\ task.depth \in Nat /\ task.tracked \in BOOLEAN /\ nextId > 0
         /\ task.do = "arrayDone" =>
              /\ task.n \in Nodes(graph) /\ task.held \in Seq(Nat)
              /\ task.claimed \in BOOLEAN /\ task.at \in Nat
         /\ task.do = "release" => task.held \in Seq(Nat)
<1>1. task \in EncTask /\ TaskType(task) /\ task = agenda[1] /\ 1 \in DOMAIN agenda
  BY HeadOfAgenda
<1>2. task.do = "hook" => nextId > 0
  BY <1>1 DEF EncInv, HooksFirst
<1>3. task.do = "value" =>
        /\ task.v \in Values /\ task.v \in Nat /\ task.depth \in Nat
        /\ task.rcn \in BOOLEAN /\ task.borrowed \in BOOLEAN
  BY <1>1 DEF EncTask, TaskType, Values
<1>4. task.do = "hook" =>
        task.n \in Nodes(graph) /\ task.depth \in Nat /\ task.tracked \in BOOLEAN
  BY <1>1 DEF EncTask, TaskType
<1>5. task.do = "arrayDone" =>
        /\ task.n \in Nodes(graph) /\ task.held \in Seq(Nat)
        /\ task.claimed \in BOOLEAN /\ task.at \in Nat
  BY <1>1 DEF EncTask, TaskType
<1>6. task.do = "release" => task.held \in Seq(Nat)
  BY <1>1 DEF EncTask
<1> QED BY <1>2, <1>3, <1>4, <1>5, <1>6

LEMMA OneTokenKeeps ==
  ASSUME EncInv, agenda # <<>>, task.do \in {"value", "hook"}, NothingMore,
         NEW t \in AnyToken, Emit(<<t>>), hold' = hold, UNCHANGED <<graph, maxDepth>>, EncRest'
  PROVE  EncInv'
<1>1. <<t>> \in Seq(AnyToken) /\ <<t>> # <<>>
  OBVIOUS
<1>2. Then(<<>>)
  BY DEF NothingMore
<1> QED BY <1>1, <1>2, NothingPushed, WritesKeep

(* Steps that write a token and go on.                                     *)
LEMMA PlainSteps ==
  ASSUME EncInv, maxDepth' = maxDepth,
         \/ FailedPlaceholder \/ TooDeep \/ EncodeScalar
         \/ \E n \in Nodes(graph) :
              \/ ArrayRepeat(n) \/ ReferenceRepeat(n) \/ ObjectRepeat(n) \/ EncodeEnum(n)
              \/ Refuse(n) \/ EncodeLegacy(n) \/ HookYieldsNull(n) \/ HookThrows(n)
  PROVE  EncInv'
<1>1. EncRest
  BY RestTyped
<1>2. ASSUME FailedPlaceholder \/ TooDeep PROVE EncInv'
  <2>1. agenda # <<>> /\ task.do = "value"
    BY <1>2 DEF FailedPlaceholder, TooDeep, IsValue
  <2>2. NullFor(task.v) \in AnyToken
    BY <2>1, HeadTyped, TokensTyped
  <2>3. EncRest'
    BY <1>1, <1>2 DEF EncRest, FailedPlaceholder, TooDeep, table
  <2> QED BY <1>2, <2>1, <2>2, <2>3, OneTokenKeeps DEF FailedPlaceholder, TooDeep
<1>3. ASSUME EncodeScalar PROVE EncInv'
  <2>1. agenda # <<>> /\ task.do = "value"
    BY <1>3 DEF EncodeScalar, IsValue
  <2>2. Token("scalar", 0, Scalar) \in AnyToken
    BY TokensTyped DEF WireTags, ScalarTags, Scalar
  <2>3. EncRest'
    BY <1>1, <1>3 DEF EncRest, EncodeScalar, table
  <2> QED BY <1>3, <2>1, <2>2, <2>3, OneTokenKeeps DEF EncodeScalar
<1>4. ASSUME NEW n \in Nodes(graph), ArrayRepeat(n) \/ ReferenceRepeat(n) \/ ObjectRepeat(n)
      PROVE  EncInv'
  <2>1. agenda # <<>> /\ task.do = "value" /\ HasId(n)
    BY <1>4 DEF ArrayRepeat, ReferenceRepeat, ObjectRepeat, Visiting, IsValue
  <2>2. RefTo(n) \in AnyToken
    BY <2>1, TokensTyped
  <2>3. EncRest'
    BY <1>1, <1>4 DEF EncRest, ArrayRepeat, ReferenceRepeat, ObjectRepeat, table
  <2> QED BY <1>4, <2>1, <2>2, <2>3, OneTokenKeeps DEF ArrayRepeat, ReferenceRepeat, ObjectRepeat
<1>5. ASSUME NEW n \in Nodes(graph), EncodeEnum(n) PROVE EncInv'
  <2>1. agenda # <<>> /\ task.do = "value"
    BY <1>5 DEF EncodeEnum, NewObject, Visiting, IsValue
  <2>2. Token("leaf", 0, n) \in AnyToken
    BY <2>1, GraphTyped, TokensTyped DEF WireTags, ScalarTags
  <2>3. EncRest'
    BY <1>1, <1>5 DEF EncRest, EncodeEnum, ClaimObject
  <2> QED BY <1>5, <2>1, <2>2, <2>3, OneTokenKeeps DEF EncodeEnum
<1>6. ASSUME NEW n \in Nodes(graph), Refuse(n) PROVE EncInv'
  <2>1. agenda # <<>> /\ task.do = "value"
    BY <1>6 DEF Refuse, Visiting, IsValue
  <2>2. NullFor(n) \in AnyToken
    BY <2>1, GraphTyped, TokensTyped
  <2>3. EncRest'
    BY <1>1, <1>6 DEF EncRest, Refuse, table
  <2> QED BY <1>6, <2>1, <2>2, <2>3, OneTokenKeeps DEF Refuse
<1>7. ASSUME NEW n \in Nodes(graph), EncodeLegacy(n) PROVE EncInv'
  <2>1. agenda # <<>> /\ task.do = "hook"
    BY <1>7 DEF EncodeLegacy, HookReturned
  <2>2. Token("leaf", 0, n) \in AnyToken
    BY <2>1, GraphTyped, TokensTyped DEF WireTags, ScalarTags
  <2>3. EncRest'
    BY <1>1, <1>7 DEF EncRest, EncodeLegacy, table
  <2> QED BY <1>7, <2>1, <2>2, <2>3, OneTokenKeeps DEF EncodeLegacy
<1>8. ASSUME NEW n \in Nodes(graph), HookYieldsNull(n) \/ HookThrows(n) PROVE EncInv'
  <2>1. agenda # <<>> /\ task.do = "hook" /\ Unvisit(n, task.tracked)
    BY <1>8 DEF HookYieldsNull, HookThrows, HookReturned
  <2>2. NullFor(n) \in AnyToken
    BY <2>1, GraphTyped, TokensTyped
  <2>3. nextId' \in Nat /\ claim' \in [Nodes(graph) -> {NoEntry, Pending, Unshared} \cup Nat]
    <3>1. nextId \in Nat /\ nextId > 0 /\ nextId' = nextId - 1
      BY <1>1, <2>1, HeadTyped DEF EncRest, Unvisit
    <3>2. claim' \in [Nodes(graph) -> {NoEntry, Pending, Unshared} \cup Nat]
      BY <1>1, <2>1 DEF EncRest, Unvisit
    <3> QED BY <3>1, <3>2
  <2>4. EncRest'
    BY <1>1, <1>8, <2>3 DEF EncRest, HookYieldsNull, HookThrows
  <2>5. NothingMore /\ Emit(<<NullFor(n)>>) /\ hold' = hold /\ graph' = graph
    BY <1>8 DEF HookYieldsNull, HookThrows
  <2> QED BY <2>1, <2>2, <2>4, <2>5, OneTokenKeeps
<1> QED BY <1>2, <1>3, <1>4, <1>5, <1>6, <1>7, <1>8

(* Steps that go on with the values of a node, without or with a snapshot  *)
(* of them to release.                                                     *)
LEMMA ListSteps ==
  ASSUME EncInv, maxDepth' = maxDepth, NEW n \in Nodes(graph),
         ReferenceNew(n) \/ EncodeKeyed(n) \/ EncodeSlots(n) \/ EncodeHooked(n) \/ EncodeMagic(n)
  PROVE  EncInv'
<1>1. EncRest
  BY RestTyped
<1>2. /\ agenda # <<>> /\ task.do \in {"value", "hook"} /\ graph' = graph
  BY DEF ReferenceNew, EncodeKeyed, EncodeSlots, EncodeHooked, EncodeMagic, NewObject,
         Visiting, IsValue, HookReturned
<1>3. n \in Nat /\ Values \subseteq Nat /\ Kids(n) \in Seq(Values) /\ Kids(n) \in Seq(Nat)
      /\ Len(Kids(n)) \in Nat
  <2>1. n \in Nat /\ Values \subseteq Nat /\ Kids(n) \in Seq(Values)
    BY <1>2, GraphTyped
  <2> QED BY <2>1, SeqMonotonic, LenProperties
<1>4. task.depth + 1 \in Nat
  BY <1>2, HeadTyped
<1>5. \A rcn, borrowed \in BOOLEAN : ValueList(ValueTasks(Kids(n), task.depth + 1, rcn, borrowed))
  BY <1>3, <1>4, ListsPushed
<1>6. \A held \in Seq(Nat) : Ending(ReleaseTask(held)) /\ ReleaseTask(held).held = held
  BY DEF Ending, ReleaseTask, EncTask
<1>7. \A rcn, borrowed \in BOOLEAN :
        /\ Pushes(ValueTasks(Kids(n), task.depth + 1, rcn, borrowed), <<>>)
        /\ \A held \in Seq(Nat) :
             Pushes(ValueTasks(Kids(n), task.depth + 1, rcn, borrowed) \o <<ReleaseTask(held)>>, held)
  BY <1>5, <1>6 DEF Pushes
<1>8. \A t \in AnyToken : <<t>> \in Seq(AnyToken) /\ <<t>> # <<>>
  OBVIOUS
<1>9. Token("new_ref", 1, n) \in AnyToken /\ Token("magic", 1, n) \in AnyToken
      /\ Token("object", Len(Kids(n)), n) \in AnyToken
  BY <1>3, TokensTyped DEF WireTags, ScalarTags
<1>10. CASE ReferenceNew(n)
  <2>1. EncRest'
    BY <1>1, <1>10 DEF EncRest, ReferenceNew, Claim
  <2> QED BY <1>2, <1>7, <1>8, <1>9, <1>10, <2>1, WritesKeep DEF ReferenceNew
<1>11. CASE EncodeKeyed(n)
  <2>1. EncRest'
    BY <1>1, <1>11 DEF EncRest, EncodeKeyed, ClaimObject
  <2> QED BY <1>2, <1>7, <1>8, <1>9, <1>11, <2>1, WritesKeep DEF EncodeKeyed
<1>12. CASE EncodeSlots(n)
  <2>1. EncRest'
    BY <1>1, <1>12 DEF EncRest, EncodeSlots, ClaimObject
  <2> QED BY <1>2, <1>3, <1>7, <1>8, <1>9, <1>12, <2>1, WritesKeep DEF EncodeSlots
<1>13. CASE EncodeHooked(n)
  <2>1. EncRest'
    BY <1>1, <1>13 DEF EncRest, EncodeHooked, table
  <2> DEFINE copied == IF Kind(n) = "sleep" THEN Kids(n) ELSE <<>>
             borrowed == Kind(n) = "sleep"
  <2>2. copied \in Seq(Nat) /\ borrowed \in BOOLEAN
    BY <1>3
  <2>3. /\ hold' = Held(copied) /\ Emit(<<Token("object", Len(Kids(n)), n)>>)
        /\ Then(ValueTasks(Kids(n), task.depth + 1, TRUE, borrowed) \o <<ReleaseTask(copied)>>)
    BY <1>13 DEF EncodeHooked
  <2> HIDE DEF copied, borrowed
  <2>4. Pushes(ValueTasks(Kids(n), task.depth + 1, TRUE, borrowed) \o <<ReleaseTask(copied)>>, copied)
    BY <1>7, <2>2
  <2> QED BY <1>2, <1>8, <1>9, <2>1, <2>3, <2>4, WritesKeep
<1>14. CASE EncodeMagic(n)
  <2>1. EncRest'
    BY <1>1, <1>14 DEF EncRest, EncodeMagic, table
  <2> QED BY <1>2, <1>3, <1>7, <1>8, <1>9, <1>14, <2>1, WritesKeep DEF EncodeMagic
<1> QED BY <1>10, <1>11, <1>12, <1>13, <1>14

(* An array that a hook built: values and the release of them, or NULL.    *)
LEMMA FactoryStep ==
  ASSUME EncInv, maxDepth' = maxDepth, NEW n \in Nodes(graph), EncodeFactory(n)
  PROVE  EncInv'
<1>1. EncRest
  BY RestTyped
<1>2. agenda # <<>> /\ task.do = "hook" /\ graph' = graph
  BY DEF EncodeFactory, HookReturned
<1>3. n \in Nat /\ Values \subseteq Nat /\ Kids(n) \in Seq(Values) /\ maxDepth \in Nat
  BY <1>2, GraphTyped
<1>4. task.depth + 2 \in Nat
  BY <1>2, HeadTyped
<1> DEFINE fits == task.depth + 1 < maxDepth
           kids == IF fits THEN Kids(n) ELSE <<>>
           array == IF fits THEN Token("array", Len(kids), n) ELSE NullFor(n)
           tasks == ElementTasks(kids, task.depth + 2, FALSE, FALSE) \o <<ReleaseTask(kids)>>
           tokens == <<Token("magic", 1, n), array>>
<1>5. fits \in BOOLEAN /\ kids \in Seq(Values)
  BY <1>3
<1>6. hold' = Held(kids) /\ Emit(tokens) /\ Then(tasks) /\ depthExceeded' = (depthExceeded \/ ~ fits)
  BY DEF EncodeFactory
<1>7. EncRest'
  <2>1. depthExceeded' \in BOOLEAN
    BY <1>6
  <2> QED BY <1>1, <2>1 DEF EncRest, EncodeFactory, table
<1> HIDE DEF fits, kids
<1>8. kids \in Seq(Nat) /\ Len(kids) \in Nat
  BY <1>3, <1>5, SeqMonotonic, LenProperties
<1>9. array \in AnyToken /\ Token("magic", 1, n) \in AnyToken
  BY <1>3, <1>8, TokensTyped DEF WireTags, ScalarTags
<1> HIDE DEF array
<1>10. tokens \in Seq(AnyToken) /\ tokens # <<>>
  BY <1>9
<1>11. ValueList(ElementTasks(kids, task.depth + 2, FALSE, FALSE))
  BY <1>3, <1>4, <1>5, ListsPushed
<1>12. Ending(ReleaseTask(kids)) /\ ReleaseTask(kids).held = kids
  BY <1>8 DEF Ending, ReleaseTask, EncTask
<1>13. Pushes(tasks, kids)
  BY <1>11, <1>12 DEF Pushes
<1> HIDE DEF tasks, tokens
<1> QED BY <1>2, <1>6, <1>7, <1>10, <1>13, WritesKeep

(* The walk of an array.                                                   *)
LEMMA ArrayStep ==
  ASSUME EncInv, maxDepth' = maxDepth, NEW n \in Nodes(graph), ArrayWalk(n)
  PROVE  EncInv'
<1>1. EncRest
  BY RestTyped
<1>2. agenda # <<>> /\ task.do = "value" /\ graph' = graph
  BY DEF ArrayWalk, Visiting, IsValue
<1>3. /\ n \in Nat /\ Values \subseteq Nat /\ Nodes(graph) \subseteq Nat
      /\ \A k \in Nodes(graph) :
           Kids(k) \in Seq(Values) /\ (Kind(k) = "reference" => Kids(k)[1] \in Values)
  BY <1>2, GraphTyped
<1>4. task.depth + 1 \in Nat /\ task.rcn \in BOOLEAN
  BY <1>2, HeadTyped
<1> DEFINE claiming == WorthClaiming(n) /\ claim[n] \in {NoEntry, Unshared}
           values   == IF WalksDup(n) THEN Dup(n) ELSE Kids(n)
           copied   == IF WalksDup(n) THEN values ELSE <<>>
           locked   == IF IsImmutable(n) THEN copied ELSE copied \o <<n>>
           rcn      == task.rcn \/ IsShared(n)
           borrowed == WalksDup(n)
           end      == ArrayDoneTask(n, locked, claiming)
           elements == ElementTasks(values, task.depth + 1, rcn, borrowed)
           prefix   == IF claiming THEN <<Token("shared", 0, n)>> ELSE <<>>
           tokens   == prefix \o <<Token("array", Len(values), n)>>
<1>5. /\ claim' = IF claiming THEN [claim EXCEPT ![n] = Pending] ELSE claim
      /\ hold' = Held(locked) /\ Emit(tokens) /\ Then(elements \o <<end>>)
  BY DEF ArrayWalk
<1>6. Dup(n) \in Seq(Values)
  <2>1. \A i \in DOMAIN Kids(n) : Kids(n)[i] \in Values
    BY <1>3
  <2>2. \A k \in Values : DupKid(n, k) \in Values
    <3> SUFFICES ASSUME NEW k \in Values PROVE DupKid(n, k) \in Values
      OBVIOUS
    <3>1. CASE IsNode(k) /\ Kind(k) = "reference" /\ Refcount(k) = 1 /\ Kids(k)[1] # n
      <4>1. k \in Nodes(graph)
        BY <3>1 DEF IsNode, Values, Scalar
      <4> QED BY <1>3, <3>1, <4>1 DEF DupKid
    <3>2. CASE ~ (IsNode(k) /\ Kind(k) = "reference" /\ Refcount(k) = 1 /\ Kids(k)[1] # n)
      BY <3>2 DEF DupKid
    <3> QED BY <3>1, <3>2
  <2>3. DOMAIN Kids(n) = 1 .. Len(Kids(n)) /\ Len(Kids(n)) \in Nat
    BY <1>3, LenProperties
  <2>4. Dup(n) \in [1 .. Len(Kids(n)) -> Values]
    BY <2>1, <2>2, <2>3 DEF Dup
  <2> QED BY <2>3, <2>4
<1>7. values \in Seq(Values) /\ values \in Seq(Nat) /\ Len(values) \in Nat
  <2>1. values \in Seq(Values)
    BY <1>3, <1>6
  <2> HIDE DEF values
  <2> QED BY <1>3, <2>1, SeqMonotonic, LenProperties
<1>8. claiming \in BOOLEAN /\ rcn \in BOOLEAN /\ borrowed \in BOOLEAN
  BY <1>4 DEF WorthClaiming, IsShared, WalksDup
<1> HIDE DEF values, claiming, rcn, borrowed
<1>9. locked \in Seq(Nat)
  <2>1. copied \in Seq(Nat) /\ <<n>> \in Seq(Nat)
    BY <1>3, <1>7
  <2> HIDE DEF copied
  <2> QED BY <2>1, ConcatProperties
<1> HIDE DEF locked
<1>10. EncRest'
  BY <1>1, <1>5 DEF EncRest, ArrayWalk
<1>11. tokens \in Seq(AnyToken) /\ tokens # <<>> /\ Len(tokens) > 0
  <2>1. Token("shared", 0, n) \in AnyToken /\ Token("array", Len(values), n) \in AnyToken
    BY <1>3, <1>7, TokensTyped DEF WireTags, ScalarTags
  <2>2. prefix \in Seq(AnyToken) /\ <<Token("array", Len(values), n)>> \in Seq(AnyToken)
        /\ Len(<<Token("array", Len(values), n)>>) = 1 /\ Len(prefix) \in Nat
    BY <1>8, <2>1
  <2> HIDE DEF prefix
  <2>3. tokens \in Seq(AnyToken) /\ Len(tokens) = Len(prefix) + 1
    BY <2>2, ConcatProperties
  <2> HIDE DEF tokens
  <2> QED BY <2>2, <2>3, EmptySeq
<1>12. ValueList(elements)
  BY <1>3, <1>4, <1>7, <1>8, ListsPushed
<1>13. Ending(end) /\ end.held = locked
  <2>1. Len(body) + 1 \in Nat /\ refsSeen \in Nat
    BY <1>1, LenProperties DEF EncRest, EncInv, EncTyped
  <2> QED BY <1>3, <1>8, <1>9, <2>1 DEF Ending, ArrayDoneTask, EncTask
<1>14. Pushes(elements \o <<end>>, locked)
  BY <1>12, <1>13 DEF Pushes
<1> DEFINE tasks == elements \o <<end>>
<1> HIDE DEF elements, end, tokens, tasks
<1>15. Pushes(tasks, locked) /\ Then(tasks)
  BY <1>5, <1>14 DEF tasks
<1> QED BY <1>2, <1>5, <1>10, <1>11, <1>15, WritesKeep

(* The end of a walk or of a snapshot.                                     *)
LEMMA EndSteps ==
  ASSUME EncInv, maxDepth' = maxDepth, ArrayDone \/ ReleaseSnapshot
  PROVE  EncInv'
<1>1. EncRest
  BY RestTyped
<1>2. /\ agenda # <<>> /\ task.do \in {"arrayDone", "release"} /\ graph' = graph
      /\ Then(<<>>) /\ hold' = Released(task.held)
  BY DEF ArrayDone, ReleaseSnapshot, NothingMore
<1>3. Pushes(<<>>, <<>>)
  BY NothingPushed
<1>4. HoldsMove(<<>>)
  <2>1. <<>> \in Seq(Nat) /\ \A n : Times(<<>>, n) \in Nat
    BY <1>3, PushedTasks
  <2> QED BY <1>2, <2>1, HoldForms
<1>5. body \in Seq(AnyToken) /\ Len(body) \in Nat
  BY LenProperties DEF EncInv, EncTyped
<1>6. /\ agenda \in Seq(EncTask) /\ Len(agenda) \in Nat /\ DOMAIN agenda = 1 .. Len(agenda)
      /\ 1 \in DOMAIN agenda /\ task = agenda[1]
  BY <1>2, HeadOfAgenda
<1>7. \A i \in DOMAIN agenda : agenda[i].do = "arrayDone" =>
        /\ agenda[i].at \in 1 .. Len(body)
        /\ \A j \in DOMAIN agenda : i < j /\ agenda[j].do = "arrayDone" => agenda[j].at < agenda[i].at
  BY DEF EncInv, WalksNest
<1>8. CASE body' = body /\ EncRest'
  BY <1>2, <1>3, <1>4, <1>5, <1>7, <1>8, StepKeeps
<1>9. CASE ArrayDone
  <2>1. task.do = "arrayDone" /\ task.n \in Nodes(graph) /\ task.at \in 1 .. Len(body)
    BY <1>2, <1>6, <1>7, <1>9, HeadTyped DEF ArrayDone
  <2>2. nextId \in Nat /\ nextId + 1 \in Nat
        /\ claim \in [Nodes(graph) -> {NoEntry, Pending, Unshared} \cup Nat]
    BY <1>1 DEF EncRest
  <2>3. nextId' \in Nat /\ claim' \in [Nodes(graph) -> {NoEntry, Pending, Unshared} \cup Nat]
    BY <1>9, <2>1, <2>2 DEF ArrayDone, Claim, table
  <2>4. EncRest'
    BY <1>1, <1>9, <2>3 DEF EncRest, ArrayDone
  <2>5. body' = body \/ body' = WithoutToken(task.at)
    BY <1>9 DEF ArrayDone
  <2>6. CASE body' = WithoutToken(task.at)
    <3> DEFINE a == SubSeq(body, 1, task.at - 1)
               b == SubSeq(body, task.at + 1, Len(body))
    <3>1. task.at \in Int /\ task.at >= 1 /\ task.at <= Len(body)
      BY <1>5, <2>1
    <3>2. \A i \in 1 .. Len(body) : body[i] \in AnyToken
      BY <1>5
    <3>3. a \in Seq(AnyToken) /\ Len(a) = task.at - 1
      <4>1. \A i \in 1 .. task.at - 1 : body[i] \in AnyToken
        BY <1>5, <3>1, <3>2
      <4>2. a \in Seq(AnyToken) /\ Len(a) = IF 1 <= task.at - 1 THEN task.at - 1 - 1 + 1 ELSE 0
        BY <3>1, <4>1, SubSeqProperties
      <4> HIDE DEF a
      <4> QED BY <3>1, <4>2
    <3>4. b \in Seq(AnyToken) /\ Len(b) = Len(body) - task.at
      <4>1. \A i \in task.at + 1 .. Len(body) : body[i] \in AnyToken
        BY <1>5, <3>1, <3>2
      <4>2. b \in Seq(AnyToken)
            /\ Len(b) = IF task.at + 1 <= Len(body) THEN Len(body) - (task.at + 1) + 1 ELSE 0
        BY <1>5, <3>1, <4>1, SubSeqProperties
      <4> HIDE DEF b
      <4> QED BY <1>5, <3>1, <4>2
    <3>5. body' = a \o b
      BY <2>6 DEF WithoutToken
    <3> HIDE DEF a, b
    <3>6. body' \in Seq(AnyToken) /\ Len(body') = Len(body) - 1
      <4>1. a \o b \in Seq(AnyToken) /\ Len(a \o b) = Len(a) + Len(b)
        BY <3>3, <3>4, ConcatProperties
      <4> QED BY <1>5, <3>1, <3>3, <3>4, <3>5, <4>1
    <3>7. \A i \in DOMAIN agenda :
            i > 1 /\ agenda[i].do = "arrayDone" => agenda[i].at <= Len(body')
      <4> SUFFICES ASSUME NEW i \in DOMAIN agenda, i > 1, agenda[i].do = "arrayDone"
                   PROVE  agenda[i].at <= Len(body')
        OBVIOUS
      <4>1. agenda[i].at < task.at /\ agenda[i].at \in 1 .. Len(body)
        BY <1>6, <1>7, <2>1
      <4> QED BY <1>5, <2>1, <3>6, <4>1
    <3> QED BY <1>2, <1>3, <1>4, <2>4, <3>6, <3>7, StepKeeps
  <2> QED BY <1>8, <2>4, <2>5, <2>6
<1>10. CASE ReleaseSnapshot
  <2>1. EncRest' /\ body' = body
    BY <1>1, <1>10 DEF EncRest, ReleaseSnapshot, table
  <2> QED BY <1>8, <2>1
<1> QED BY <1>9, <1>10

(* The call of a hook: it is the only hook on the agenda.                  *)
LEMMA HookStep ==
  ASSUME EncInv, maxDepth' = maxDepth, NEW n \in Nodes(graph), CallHook(n)
  PROVE  EncInv'
<1>1. EncRest
  BY RestTyped
<1>2. agenda # <<>> /\ task.do = "value" /\ graph' = graph /\ hold' = hold /\ body' = body
  BY DEF CallHook, NewObject, Visiting, IsValue
<1>3. /\ agenda \in Seq(EncTask) /\ Len(agenda) \in Nat /\ Len(agenda) > 0
      /\ DOMAIN agenda = 1 .. Len(agenda) /\ task = agenda[1] /\ task = Head(agenda)
      /\ task \in EncTask /\ hold \in [Nodes(graph) -> Nat]
  BY <1>2, HeadOfAgenda DEF task
<1> DEFINE t == HookTask(n)
<1>4. t \in EncTask /\ t.do = "hook" /\ TaskType(t)
  <2>1. n \in Nat /\ task.depth \in Nat /\ task.rcn \in BOOLEAN
    BY <1>2, GraphTyped, HeadTyped
  <2> QED BY <2>1 DEF HookTask, EncTask, TaskType, IsTracked
<1>5. agenda' = <<t>> \o Tail(agenda)
  BY DEF CallHook, Then
<1> HIDE DEF t
<1>6. <<t>> \in Seq(EncTask) /\ Len(<<t>>) = 1 /\ <<t>>[1] = t /\ DOMAIN <<t>> = 1 .. 1
  BY <1>4
<1>7. /\ agenda' \in Seq(EncTask)
      /\ \A i \in DOMAIN agenda' :
           \/ i = 1 /\ agenda'[i] = t
           \/ i \in 2 .. Len(agenda) /\ agenda'[i] = agenda[i]
  <2>1. /\ agenda' \in Seq(EncTask)
        /\ \A i \in DOMAIN agenda' :
             \/ i \in DOMAIN <<t>> /\ i <= Len(<<t>>) /\ agenda'[i] = <<t>>[i]
             \/ i > Len(<<t>>) /\ i - Len(<<t>>) + 1 \in 2 .. Len(agenda)
                /\ agenda'[i] = agenda[i - Len(<<t>>) + 1]
    BY <1>3, <1>5, <1>6, Placed
  <2>2. \A i \in DOMAIN agenda' : i \in Int
    BY <2>1, LenProperties
  <2> SUFFICES ASSUME NEW i \in DOMAIN agenda'
               PROVE  \/ i = 1 /\ agenda'[i] = t
                      \/ i \in 2 .. Len(agenda) /\ agenda'[i] = agenda[i]
    BY <2>1
  <2>3. CASE i \in DOMAIN <<t>> /\ agenda'[i] = <<t>>[i]
    BY <1>6, <2>3
  <2>4. CASE i - 1 + 1 \in 2 .. Len(agenda) /\ agenda'[i] = agenda[i - 1 + 1]
    <3>1. i - 1 + 1 = i
      BY <2>2
    <3> QED BY <2>4, <3>1
  <2> QED BY <1>6, <2>1, <2>3, <2>4
<1>8. EncRest'
  BY <1>1, <1>2 DEF EncRest, CallHook, ClaimObject
<1>9. nextId' > 0
  BY <1>1 DEF EncRest, CallHook, ClaimObject
<1>10. \A i \in 2 .. Len(agenda) :
         i \in DOMAIN agenda /\ TaskType(agenda[i]) /\ agenda[i].do # "hook"
  BY <1>3 DEF EncInv, EncTyped, EncTypeOK, HooksFirst
<1>11. \A i \in DOMAIN agenda' : TaskType(agenda[i])'
  <2> SUFFICES ASSUME NEW i \in DOMAIN agenda' PROVE TaskType(agenda[i])'
    OBVIOUS
  <2>1. PICK u : u = agenda'[i]
    OBVIOUS
  <2>2. TaskType(u)
    BY <1>4, <1>7, <1>10, <2>1
  <2> QED BY <1>2, <2>1, <2>2 DEF TaskType
<1>12. HooksFirst'
  BY <1>7, <1>9, <1>10 DEF HooksFirst
<1>13. WalksNest'
  <2>1. \A i \in DOMAIN agenda' : agenda'[i].do = "arrayDone" =>
          i \in DOMAIN agenda /\ agenda'[i] = agenda[i]
    BY <1>4, <1>7, <1>10
  <2> QED BY <1>2, <2>1 DEF WalksNest, EncInv
<1>14. \A n_ \in Nodes(graph) : hold[n_] = Sum(agenda', Owed(n_))
  <2> SUFFICES ASSUME NEW m \in Nodes(graph) PROVE hold[m] = Sum(agenda', Owed(m))
    OBVIOUS
  <2>1. Owed(m) \in [EncTask -> SUBSET Nat] /\ (\A x \in EncTask : IsFiniteSet(Owed(m)[x]))
        /\ Owed(m)[t] = {} /\ Owed(m)[task] = {}
    BY <1>2, <1>3, <1>4, OwedCounts
  <2>2. Tail(agenda) \in Seq(EncTask)
    BY <1>3, HeadTailProperties
  <2>3. hold[m] = Sum(agenda, Owed(m))
    BY DEF EncInv, HoldsOwed
  <2>4. Sum(agenda, Owed(m)) = Cardinality(Owed(m)[task]) + Sum(Tail(agenda), Owed(m))
    BY <1>2, <1>3, <2>1, SumHead
  <2>5. Sum(agenda', Owed(m)) = Sum(<<t>>, Owed(m)) + Sum(Tail(agenda), Owed(m))
    <3>1. PICK u : u = <<t>>
      OBVIOUS
    <3>2. u \in Seq(EncTask) /\ agenda' = u \o Tail(agenda)
      BY <1>5, <1>6, <3>1
    <3>3. Owed(m) \in [EncTask -> SUBSET Nat] /\ \A x \in EncTask : IsFiniteSet(Owed(m)[x])
      BY OwedCounts
    <3>4. Sum(u \o Tail(agenda), Owed(m)) = Sum(u, Owed(m)) + Sum(Tail(agenda), Owed(m))
      BY <2>2, <3>2, <3>3, SumConcat
    <3> QED BY <3>1, <3>2, <3>4
  <2>6. Sum(<<t>>, Owed(m)) = Cardinality(Owed(m)[t])
    BY <1>4, <2>1, SumSmall
  <2> QED BY <2>1, <2>3, <2>4, <2>5, <2>6
<1>15. EncTyped'
  BY <1>2, <1>7, <1>8, <1>11, <1>3 DEF EncTyped, EncTypeOK, EncRest, EncInv
<1>16. HoldsOwed'
  BY <1>2, <1>14 DEF HoldsOwed
<1> QED BY <1>12, <1>13, <1>15, <1>16 DEF EncInv

(* The encoder's steps keep its invariant.                                 *)
LEMMA EncoderKeeps ==
  ASSUME EncInv, EncNext, maxDepth' = maxDepth
  PROVE  EncInv'
<1>1. CASE EncFinish
  <2>1. UNCHANGED <<graph, agenda, body, hold, nextId>>
    BY <1>1 DEF EncFinish, table
  <2>2. EncRest /\ EncRest'
    <3>1. EncRest
      BY RestTyped
    <3>2. encoded' \in {"no", "ok", "depth", "exception", "none"}
      BY <1>1 DEF EncFinish, Outcome
    <3> QED BY <1>1, <3>1, <3>2 DEF EncRest, EncFinish, table
  <2>3. EncTypeOK'
    <3>1. \A i \in DOMAIN agenda' : TaskType(agenda[i])'
      BY <2>1 DEF EncInv, EncTyped, EncTypeOK, TaskType
    <3>2. hold' \in [Nodes(graph) -> Nat]'
      BY <2>1 DEF EncInv, EncTyped, EncTypeOK
    <3> QED BY <2>2, <3>1, <3>2 DEF EncRest, EncTypeOK
  <2>4. EncTyped'
    BY <2>1, <2>3 DEF EncInv, EncTyped
  <2>5. HooksFirst' /\ WalksNest' /\ HoldsOwed'
    BY <2>1 DEF EncInv, HooksFirst, WalksNest, HoldsOwed
  <2> QED BY <2>4, <2>5 DEF EncInv
<1> QED BY <1>1, PlainSteps, ListSteps, FactoryStep, ArrayStep, EndSteps, HookStep
        DEF EncNext, EncodeValue, AfterHook

(* The invariant holds where an encode begins, and where there is none.    *)
LEMMA EncoderBegins ==
  ASSUME Init
  PROVE  EncInv
<1>1. \A n : Sum(<<>>, Owed(n)) = 0
  <2> SUFFICES ASSUME NEW n PROVE Sum(<<>>, Owed(n)) = 0
    OBVIOUS
  <2>1. Marks(<<>>, Owed(n)) = {}
    BY DEF Marks
  <2> QED BY <2>1, FS_EmptySet DEF Sum
<1>2. <<>> \in Seq(AnyToken)
  OBVIOUS
<1>3. maxDepth \in Nat
  BY DepthAssumption DEF Init, EncInit, Idle
<1>4. CASE EncInit
  <2> DEFINE t == ValueTask(1, 0, FALSE, FALSE)
  <2>1. WellFormed(graph) /\ agenda = <<t>>
    BY <1>4, EncoderAssumption DEF EncInit
  <2>2. 1 \in Nodes(graph)
    BY <2>1 DEF WellFormed
  <2>3. t \in EncTask /\ t.do = "value" /\ TaskType(t)
    BY <2>2 DEF ValueTask, EncTask, TaskType
  <2> HIDE DEF t
  <2>4. agenda \in Seq(EncTask) /\ DOMAIN agenda = {1} /\ agenda[1] = t
    BY <2>1, <2>3
  <2>5. \A n : Sum(<<t>>, Owed(n)) = 0
    <3> SUFFICES ASSUME NEW n PROVE Sum(<<t>>, Owed(n)) = 0
      OBVIOUS
    <3>1. Owed(n) \in [EncTask -> SUBSET Nat] /\ Owed(n)[t] = {} /\ IsFiniteSet(Owed(n)[t])
      BY <2>3, OwedCounts
    <3>2. Sum(<<t>>, Owed(n)) = Cardinality(Owed(n)[t])
      BY <2>3, <3>1, SumSmall
    <3> QED BY <3>1, <3>2, FS_EmptySet
  <2>6. EncTypeOK
    BY <1>4, <2>3, <2>4 DEF EncInit, EncTypeOK
  <2>7. HooksFirst /\ WalksNest
    BY <2>3, <2>4 DEF HooksFirst, WalksNest
  <2>8. HoldsOwed
    BY <1>4, <2>1, <2>5 DEF EncInit, HoldsOwed
  <2> QED BY <1>2, <1>3, <1>4, <2>1, <2>4, <2>6, <2>7, <2>8 DEF EncInit, EncInv, EncTyped
<1>5. CASE Idle
  <2>1. Nodes(graph) = {} /\ agenda = <<>> /\ claim = <<>> /\ hold = <<>>
    BY <1>5 DEF Idle, Nodes
  <2>2. EncTypeOK
    <3>1. claim \in [Nodes(graph) -> {NoEntry, Pending, Unshared} \cup Nat]
          /\ hold \in [Nodes(graph) -> Nat]
      BY <2>1
    <3> QED BY <1>5, <2>1, <3>1 DEF Idle, EncTypeOK
  <2>3. agenda \in Seq(EncTask) /\ DOMAIN agenda = {}
    BY <2>1
  <2>4. HooksFirst /\ WalksNest /\ HoldsOwed
    BY <2>1, <2>3 DEF HooksFirst, WalksNest, HoldsOwed
  <2> QED BY <1>2, <1>3, <1>5, <2>1, <2>2, <2>3, <2>4 DEF Idle, EncInv, EncTyped
<1> QED BY <1>4, <1>5 DEF Init

----------------------------------------------------------------------------
(* What arrays contain, and how it grows.                                  *)

Inside(m) == \A e \in DOMAIN m : KidsOf(m, e) \subseteq DOMAIN m

(* The contents are closed, and the least such set.                        *)
LEMMA ContentsLeast ==
  ASSUME NEW m, Inside(m), NEW e \in DOMAIN m
  PROVE  /\ ArrayContents(m, e) \subseteq DOMAIN m
         /\ ClosedFor(m, e, ArrayContents(m, e))
         /\ \A s \in SUBSET DOMAIN m : ClosedFor(m, e, s) => ArrayContents(m, e) \subseteq s
<1> DEFINE C == ArrayContents(m, e)
<1>1. C \subseteq DOMAIN m
  BY DEF ArrayContents
<1>2. \A s \in SUBSET DOMAIN m : ClosedFor(m, e, s) => C \subseteq s
  BY DEF ArrayContents
<1>3. \A x \in DOMAIN m : (\A s \in SUBSET DOMAIN m : ClosedFor(m, e, s) => x \in s) => x \in C
  BY DEF ArrayContents
<1> HIDE DEF C
<1>4. KidsOf(m, e) \subseteq C
  <2> SUFFICES ASSUME NEW x \in KidsOf(m, e) PROVE x \in C
    OBVIOUS
  <2>1. x \in DOMAIN m
    BY DEF Inside
  <2>2. \A s \in SUBSET DOMAIN m : ClosedFor(m, e, s) => x \in s
    BY DEF ClosedFor
  <2> QED BY <1>3, <2>1, <2>2
<1>5. ASSUME NEW a \in C, m[a].kind = "array" PROVE KidsOf(m, a) \subseteq C
  <2> SUFFICES ASSUME NEW x \in KidsOf(m, a) PROVE x \in C
    OBVIOUS
  <2>1. x \in DOMAIN m
    BY <1>1 DEF Inside
  <2>2. ASSUME NEW s \in SUBSET DOMAIN m, ClosedFor(m, e, s) PROVE x \in s
    <3>1. a \in s
      BY <1>2, <2>2
    <3> QED BY <1>5, <2>2, <3>1 DEF ClosedFor
  <2> QED BY <1>3, <2>1, <2>2
<1>6. ClosedFor(m, e, C)
  BY <1>4, <1>5 DEF ClosedFor
<1> QED BY <1>1, <1>2, <1>6 DEF C

(* What an array inside contains is inside.                                *)
LEMMA ContentsNested ==
  ASSUME NEW m, Inside(m), NEW e \in DOMAIN m, NEW a \in ArrayContents(m, e), m[a].kind = "array"
  PROVE  a \in DOMAIN m /\ ArrayContents(m, a) \subseteq ArrayContents(m, e)
<1>1. /\ ArrayContents(m, e) \subseteq DOMAIN m
      /\ ClosedFor(m, e, ArrayContents(m, e))
  BY ContentsLeast
<1>2. a \in DOMAIN m /\ ClosedFor(m, a, ArrayContents(m, e))
  BY <1>1 DEF ClosedFor
<1> QED BY <1>1, <1>2, ContentsLeast

(* Entities m become m2: value v is put into entity p, if p is not 0, and  *)
(* new entities are empty.                                                 *)
Grown(m, m2, p, v) ==
  /\ m \in Seq(EntityRec) /\ m2 \in Seq(EntityRec) /\ Len(m) <= Len(m2)
  /\ p \in 0 .. Len(m)
  /\ v \in {DScalar, DNull} \cup 1 .. Len(m2)
  /\ \A e \in 1 .. Len(m) :
       /\ m2[e].kind = m[e].kind /\ m2[e].from = m[e].from
       /\ m2[e].kids = IF e = p THEN Append(m[e].kids, v) ELSE m[e].kids
  /\ \A e \in Len(m) + 1 .. Len(m2) : m2[e].kids = <<>>

LEMMA GrownDomains ==
  ASSUME NEW m, NEW m2, NEW p, NEW v, Grown(m, m2, p, v)
  PROVE  /\ DOMAIN m = 1 .. Len(m) /\ DOMAIN m2 = 1 .. Len(m2)
         /\ Len(m) \in Nat /\ Len(m2) \in Nat /\ DOMAIN m \subseteq DOMAIN m2
         /\ \A e \in DOMAIN m2 : e \in DOMAIN m \/ e \in Len(m) + 1 .. Len(m2)
BY LenProperties DEF Grown

LEMMA GrownKids ==
  ASSUME NEW m, NEW m2, NEW p, NEW v, Grown(m, m2, p, v), Inside(m)
  PROVE  /\ \A e \in DOMAIN m :
              /\ e # p \/ v \in {DScalar, DNull} => KidsOf(m2, e) = KidsOf(m, e)
              /\ KidsOf(m2, e) \subseteq KidsOf(m, e) \cup {v}
         /\ \A e \in DOMAIN m2 : e \notin DOMAIN m => KidsOf(m2, e) = {}
         /\ Inside(m2)
<1>1. /\ DOMAIN m = 1 .. Len(m) /\ DOMAIN m2 = 1 .. Len(m2)
      /\ Len(m) \in Nat /\ Len(m2) \in Nat /\ DOMAIN m \subseteq DOMAIN m2
      /\ \A e \in DOMAIN m2 : e \in DOMAIN m \/ e \in Len(m) + 1 .. Len(m2)
  BY GrownDomains
<1>2. ASSUME NEW e \in DOMAIN m
      PROVE  /\ e # p \/ v \in {DScalar, DNull} => KidsOf(m2, e) = KidsOf(m, e)
             /\ KidsOf(m2, e) \subseteq KidsOf(m, e) \cup {v}
             /\ KidsOf(m2, e) \subseteq DOMAIN m2
  <2>1. m[e].kids \in Seq(Int) /\ m2[e].kids = IF e = p THEN Append(m[e].kids, v) ELSE m[e].kids
    <3>1. m[e] \in EntityRec
      BY <1>1 DEF Grown
    <3> QED BY <1>1, <3>1 DEF Grown, EntityRec
  <2> DEFINE k == m[e].kids
             k2 == m2[e].kids
  <2>2. KidsOf(m, e) = {k[i] : i \in DOMAIN k} \ {DScalar, DNull}
        /\ KidsOf(m2, e) = {k2[i] : i \in DOMAIN k2} \ {DScalar, DNull}
    BY DEF KidsOf
  <2>3. v \in Int /\ (v \in {DScalar, DNull} \/ v \in DOMAIN m2)
    BY <1>1 DEF Grown, DScalar, DNull
  <2>4. k \in Seq(Int) /\ k2 = IF e = p THEN Append(k, v) ELSE k
    BY <2>1
  <2>5. KidsOf(m, e) \subseteq DOMAIN m2
    BY <1>1 DEF Inside
  <2> HIDE DEF k, k2
  <2>6. CASE e # p
    BY <2>2, <2>4, <2>5, <2>6
  <2>7. CASE e = p
    <3>1. DOMAIN k2 = DOMAIN k \cup {Len(k) + 1} /\ k2[Len(k) + 1] = v
          /\ \A i \in DOMAIN k : k2[i] = k[i]
      BY <2>3, <2>4, <2>7
    <3>2. {k2[i] : i \in DOMAIN k2} = {k[i] : i \in DOMAIN k} \cup {v}
      BY <3>1
    <3> QED BY <2>2, <2>3, <2>5, <2>7, <3>2
  <2> QED BY <2>6, <2>7
<1>3. ASSUME NEW e \in DOMAIN m2, e \notin DOMAIN m PROVE KidsOf(m2, e) = {}
  <2>1. m2[e].kids = <<>>
    BY <1>1, <1>3 DEF Grown
  <2> QED BY <2>1 DEF KidsOf
<1>4. Inside(m2)
  BY <1>2, <1>3 DEF Inside
<1> QED BY <1>2, <1>3, <1>4

(* What v brings with it.                                                  *)
Under(m, v) == IF v \in DOMAIN m /\ m[v].kind = "array" THEN ArrayContents(m, v) ELSE {}

(* The contents grow by v and what it brings, and only where p is an array *)
(* inside.  A new entity contains nothing.                                 *)
LEMMA ContentsGrow ==
  ASSUME NEW m, NEW m2, NEW p, NEW v, Grown(m, m2, p, v), Inside(m)
  PROVE  /\ Inside(m2)
         /\ \A e \in DOMAIN m :
              /\ v \in {DScalar, DNull} => ArrayContents(m2, e) \subseteq ArrayContents(m, e)
              /\ p # e /\ ~ (p \in ArrayContents(m, e) /\ m[p].kind = "array")
                   => ArrayContents(m2, e) \subseteq ArrayContents(m, e)
              /\ ArrayContents(m2, e) \subseteq ArrayContents(m, e) \cup {v} \cup Under(m, v)
         /\ \A e \in DOMAIN m2 : e \notin DOMAIN m => ArrayContents(m2, e) = {}
<1>1. /\ DOMAIN m = 1 .. Len(m) /\ DOMAIN m2 = 1 .. Len(m2)
      /\ Len(m) \in Nat /\ Len(m2) \in Nat /\ DOMAIN m \subseteq DOMAIN m2
  BY GrownDomains
<1>2. /\ \A e \in DOMAIN m :
           /\ e # p \/ v \in {DScalar, DNull} => KidsOf(m2, e) = KidsOf(m, e)
           /\ KidsOf(m2, e) \subseteq KidsOf(m, e) \cup {v}
      /\ \A e \in DOMAIN m2 : e \notin DOMAIN m => KidsOf(m2, e) = {}
      /\ Inside(m2)
  BY GrownKids
<1>3. \A e \in DOMAIN m : m2[e].kind = m[e].kind
  BY <1>1 DEF Grown
<1>4. ASSUME NEW e \in DOMAIN m
      PROVE  /\ ArrayContents(m, e) \subseteq DOMAIN m
             /\ KidsOf(m, e) \subseteq ArrayContents(m, e)
             /\ \A a \in ArrayContents(m, e) :
                  m[a].kind = "array" => KidsOf(m, a) \subseteq ArrayContents(m, e)
  <2>1. ArrayContents(m, e) \subseteq DOMAIN m /\ ClosedFor(m, e, ArrayContents(m, e))
    BY ContentsLeast
  <2> QED BY <2>1 DEF ClosedFor
<1>5. ASSUME NEW e \in DOMAIN m2, NEW s \in SUBSET DOMAIN m2, ClosedFor(m2, e, s)
      PROVE  ArrayContents(m2, e) \subseteq s
  BY <1>2, <1>5, ContentsLeast
<1>6. ASSUME NEW e \in DOMAIN m,
             \/ v \in {DScalar, DNull}
             \/ p # e /\ ~ (p \in ArrayContents(m, e) /\ m[p].kind = "array")
      PROVE  ArrayContents(m2, e) \subseteq ArrayContents(m, e)
  <2> DEFINE C == ArrayContents(m, e)
  <2>1. /\ C \subseteq DOMAIN m /\ KidsOf(m, e) \subseteq C
        /\ \A a \in C : m[a].kind = "array" => KidsOf(m, a) \subseteq C
        /\ v \in {DScalar, DNull} \/ (p # e /\ ~ (p \in C /\ m[p].kind = "array"))
    BY <1>4, <1>6
  <2> HIDE DEF C
  <2>2. KidsOf(m2, e) \subseteq C
    BY <1>2, <2>1
  <2>3. \A a \in C : m2[a].kind = "array" => KidsOf(m2, a) \subseteq C
    <3> SUFFICES ASSUME NEW a \in C, m2[a].kind = "array" PROVE KidsOf(m2, a) \subseteq C
      OBVIOUS
    <3>1. a \in DOMAIN m /\ m[a].kind = "array"
      BY <1>3, <2>1
    <3>2. a # p \/ v \in {DScalar, DNull}
      BY <2>1, <3>1
    <3> QED BY <1>2, <2>1, <3>1, <3>2
  <2>4. C \in SUBSET DOMAIN m2 /\ ClosedFor(m2, e, C)
    BY <1>1, <2>1, <2>2, <2>3 DEF ClosedFor
  <2>5. ArrayContents(m2, e) \subseteq C
    BY <1>1, <1>5, <2>4
  <2> QED BY <2>5 DEF C
<1>7. ASSUME NEW e \in DOMAIN m
      PROVE  ArrayContents(m2, e) \subseteq ArrayContents(m, e) \cup {v} \cup Under(m, v)
  <2>1. CASE v \in {DScalar, DNull}
    BY <1>6, <2>1
  <2>2. CASE v \notin {DScalar, DNull}
    <3> DEFINE C == ArrayContents(m, e)
               U == Under(m, v)
               S == C \cup {v} \cup U
    <3>1. v \in DOMAIN m2
      BY <1>1, <2>2 DEF Grown
    <3>2. /\ C \subseteq DOMAIN m /\ KidsOf(m, e) \subseteq C
          /\ \A a \in C : m[a].kind = "array" => KidsOf(m, a) \subseteq C
      BY <1>4
    <3>3. /\ U \subseteq DOMAIN m
          /\ \A a \in U : m[a].kind = "array" => KidsOf(m, a) \subseteq U
          /\ v \in DOMAIN m /\ m[v].kind = "array" => KidsOf(m, v) \subseteq U
      BY <1>4 DEF Under
    <3> HIDE DEF C, U
    <3>4. KidsOf(m2, e) \subseteq S
      BY <1>2, <3>2
    <3>5. ASSUME NEW a \in S, m2[a].kind = "array" PROVE KidsOf(m2, a) \subseteq S
      <4>1. CASE a \in DOMAIN m
        <5>1. m[a].kind = "array" /\ KidsOf(m2, a) \subseteq KidsOf(m, a) \cup {v}
          BY <1>2, <1>3, <3>5, <4>1
        <5>2. KidsOf(m, a) \subseteq C \/ KidsOf(m, a) \subseteq U
          BY <3>2, <3>3, <4>1, <5>1
        <5> QED BY <5>1, <5>2
      <4>2. CASE a \notin DOMAIN m
        <5>1. a \in DOMAIN m2
          BY <3>1, <3>2, <3>3, <4>2
        <5> QED BY <1>2, <4>2, <5>1
      <4> QED BY <4>1, <4>2
    <3>6. S \in SUBSET DOMAIN m2
      BY <1>1, <3>1, <3>2, <3>3
    <3> HIDE DEF S
    <3>7. ClosedFor(m2, e, S)
      BY <3>4, <3>5 DEF ClosedFor
    <3>8. ArrayContents(m2, e) \subseteq S
      BY <1>1, <1>5, <3>6, <3>7
    <3> QED BY <3>8 DEF S, C, U
  <2> QED BY <2>1, <2>2
<1>8. ASSUME NEW e \in DOMAIN m2, e \notin DOMAIN m PROVE ArrayContents(m2, e) = {}
  <2>1. ClosedFor(m2, e, {})
    BY <1>2, <1>8 DEF ClosedFor
  <2> QED BY <1>5, <2>1
<1> QED BY <1>2, <1>6, <1>7, <1>8

----------------------------------------------------------------------------
(* The decoder's agenda.                                                   *)

(* A task counts one for the entity it fills, and nothing for another.     *)
LEMMA ReadsCounts ==
  ASSUME NEW e
  PROVE  /\ Reads(e) \in [DecTask -> SUBSET Nat]
         /\ \A t \in DecTask :
              /\ IsFiniteSet(Reads(e)[t])
              /\ Fills(t, e) => Reads(e)[t] = {1} /\ Cardinality(Reads(e)[t]) = 1
              /\ ~ Fills(t, e) => Reads(e)[t] = {} /\ Cardinality(Reads(e)[t]) = 0
<1>1. \A t \in DecTask : Reads(e)[t] = IF Fills(t, e) THEN {1} ELSE {}
  BY DEF Reads
<1>2. Reads(e) = [t \in DecTask |-> Reads(e)[t]]
  BY DEF Reads
<1>3. Reads(e) \in [DecTask -> SUBSET Nat]
  BY <1>1, <1>2
<1> QED BY <1>1, <1>3, FS_EmptySet, FS_Singleton

(* Where the old tasks but the first are after a step.                     *)
LEMMA Moved ==
  ASSUME NEW X, NEW new_ \in Seq(X), NEW old \in Seq(X), old # <<>>
  PROVE  \A i \in 2 .. Len(old) :
           /\ i - 1 + Len(new_) \in DOMAIN (new_ \o Tail(old))
           /\ (new_ \o Tail(old))[i - 1 + Len(new_)] = old[i]
<1>1. Tail(old) \in Seq(X) /\ Len(Tail(old)) = Len(old) - 1
      /\ \A i \in 1 .. Len(Tail(old)) : Tail(old)[i] = old[i + 1]
  BY HeadTailProperties
<1>2. Len(new_) \in Nat /\ Len(old) \in Nat /\ Len(old) > 0
  BY EmptySeq, LenProperties
<1> DEFINE u == new_ \o Tail(old)
<1>3. /\ Len(u) = Len(new_) + Len(old) - 1 /\ DOMAIN u = 1 .. Len(u)
      /\ \A i \in 1 .. Len(u) : u[i] = IF i <= Len(new_) THEN new_[i] ELSE Tail(old)[i - Len(new_)]
  BY <1>1, <1>2, ConcatProperties
<1> HIDE DEF u
<1> SUFFICES ASSUME NEW i \in 2 .. Len(old)
             PROVE  i - 1 + Len(new_) \in DOMAIN u /\ u[i - 1 + Len(new_)] = old[i]
  BY DEF u
<1> DEFINE k == i - 1 + Len(new_)
<1>4. k \in 1 .. Len(u) /\ ~ (k <= Len(new_)) /\ k - Len(new_) = i - 1 /\ i - 1 \in 1 .. Len(Tail(old))
      /\ (i - 1) + 1 = i
  BY <1>1, <1>2, <1>3
<1> HIDE DEF k
<1>5. u[k] = Tail(old)[i - 1] /\ Tail(old)[i - 1] = old[i]
  BY <1>1, <1>3, <1>4
<1> QED BY <1>3, <1>4, <1>5 DEF k

(* The head of the agenda, and what there is to refer to.                  *)
LEMMA HeadOfTodo ==
  ASSUME DecInv, todo # <<>>
  PROVE  /\ todo \in Seq(DecTask) /\ Len(todo) \in Nat /\ Len(todo) > 0
         /\ DOMAIN todo = 1 .. Len(todo) /\ 1 \in DOMAIN todo
         /\ todoHead = todo[1] /\ todoHead \in DecTask
         /\ todoHead.do = "read" => todoHead.into \in {0} \cup Entities
         /\ todoHead.do # "read" => todoHead.entity \in Entities
<1>1. todo \in Seq(DecTask)
      /\ \A i \in DOMAIN todo :
           IF todo[i].do = "read" THEN todo[i].into \in {0} \cup Entities
           ELSE todo[i].entity \in Entities
  BY DEF DecInv, DecTyped, DecTypeOK
<1>2. Len(todo) \in Nat /\ Len(todo) > 0 /\ DOMAIN todo = 1 .. Len(todo)
  BY <1>1, EmptySeq, LenProperties
<1>3. 1 \in DOMAIN todo /\ todoHead = todo[1] /\ todo[1] \in DecTask
  BY <1>1, <1>2 DEF todoHead
<1> QED BY <1>1, <1>2, <1>3

LEMMA MadeTyped ==
  ASSUME DecInv
  PROVE  /\ made \in Seq(EntityRec) /\ Len(made) \in Nat /\ Entities = 1 .. Len(made)
         /\ DOMAIN made = Entities /\ Inside(made)
         /\ ids \in Seq(Nat) /\ \A i \in DOMAIN ids : ids[i] \in Entities
         /\ dRefsSeen \in Nat
         /\ \A i \in DOMAIN todo :
              IF todo[i].do = "read" THEN todo[i].into \in {0} \cup Entities
              ELSE todo[i].entity \in Entities
         /\ \A e \in Entities :
              /\ made[e] \in EntityRec /\ made[e].kids \in Seq(Int)
              /\ \A i \in DOMAIN made[e].kids : made[e].kids[i] \in {DScalar, DNull} \cup Entities
<1>1. /\ made \in Seq(EntityRec) /\ ids \in Seq(Nat) /\ \A i \in DOMAIN ids : ids[i] \in Entities
      /\ dRefsSeen \in Nat
      /\ \A i \in DOMAIN todo :
           IF todo[i].do = "read" THEN todo[i].into \in {0} \cup Entities
           ELSE todo[i].entity \in Entities
      /\ \A e \in Entities : \A i \in DOMAIN made[e].kids : made[e].kids[i] \in {DScalar, DNull} \cup Entities
  BY DEF DecInv, DecTyped, DecTypeOK
<1>2. Len(made) \in Nat /\ Entities = 1 .. Len(made) /\ DOMAIN made = Entities
      /\ \A e \in Entities : made[e] \in EntityRec
  BY <1>1, LenProperties DEF Entities
<1>3. \A e \in Entities : made[e].kids \in Seq(Int)
  BY <1>2 DEF EntityRec
<1>4. Inside(made)
  BY <1>1, <1>2 DEF Inside, KidsOf
<1> QED BY <1>1, <1>2, <1>3, <1>4

----------------------------------------------------------------------------
(* A step that reads a value: what it is, and what is to be read for it.   *)

TakesValue(v, tasks) ==
  /\ decoded = "running" /\ todo # <<>> /\ todoHead.do = "read"
  /\ tasks \in Seq(DecTask) /\ todo' = tasks \o Tail(todo)
  /\ Grown(made, made', todoHead.into, v)
  /\ result' = IF todoHead.into = 0 THEN v ELSE result
  /\ pos' \in 0 .. Len(frame)
  /\ UNCHANGED <<maxDepth, frame, decoded>>

KnownValue(v, tasks) ==
  /\ tasks = <<>> /\ Len(made') = Len(made) /\ ids' = ids
  /\ v \in {DScalar, DNull} \/ \E k \in DOMAIN ids : v = ids[k]
  /\ dRefsSeen' = dRefsSeen + (IF v \in Entities /\ made[v].kind = "reference" THEN 1 ELSE 0)

NewEntity(v, tasks) ==
  /\ v = new /\ Len(made') = v
  /\ made'[v].from.arg = Sum(tasks, Reads(v))
  /\ \A i \in DOMAIN tasks :
       /\ IF tasks[i].do = "read" THEN tasks[i].into = v
          ELSE tasks[i].entity = v /\ i = Len(tasks)
       /\ tasks[i].do = "shared" => made'[v].kind = "array" /\ tasks[i].refs = dRefsSeen
  /\ made'[v].kind = "reference" =>
       made'[v].from.arg = 1 /\ \E i \in DOMAIN tasks : tasks[i].do = "reference"
  /\ dRefsSeen' = dRefsSeen + (IF made'[v].kind = "reference" THEN 1 ELSE 0)
  /\ ids' = ids \/ (ids' = Append(ids, v) /\ made'[v].kind # "array")

ReadStep(v, tasks) == TakesValue(v, tasks) /\ (KnownValue(v, tasks) \/ NewEntity(v, tasks))

(* Where the tasks of such a step come from.                               *)
LEMMA TasksMove ==
  ASSUME DecInv, NEW v, NEW tasks, ReadStep(v, tasks)
  PROVE  /\ todo' \in Seq(DecTask) /\ Tail(todo) \in Seq(DecTask) /\ tasks \in Seq(DecTask)
         /\ \A i \in DOMAIN todo' :
              \/ i \in DOMAIN tasks /\ i <= Len(tasks) /\ todo'[i] = tasks[i]
              \/ /\ i > Len(tasks) /\ i - Len(tasks) + 1 \in 2 .. Len(todo)
                 /\ todo'[i] = todo[i - Len(tasks) + 1]
         /\ \A i \in 2 .. Len(todo) :
              i - 1 + Len(tasks) \in DOMAIN todo' /\ todo'[i - 1 + Len(tasks)] = todo[i]
         /\ \A i \in 2 .. Len(todo) : i \in DOMAIN todo /\ 1 < i
         /\ \A i \in DOMAIN todo : i = 1 \/ i \in 2 .. Len(todo)
         /\ \A i \in DOMAIN tasks :
              v = Len(made) + 1 /\ IF tasks[i].do = "read" THEN tasks[i].into = v
                                   ELSE tasks[i].entity = v /\ i = Len(tasks)
<1>1. /\ todo \in Seq(DecTask) /\ Len(todo) \in Nat /\ todo # <<>>
      /\ DOMAIN todo = 1 .. Len(todo)
  BY HeadOfTodo DEF ReadStep, TakesValue
<1>2. tasks \in Seq(DecTask) /\ todo' = tasks \o Tail(todo)
  BY DEF ReadStep, TakesValue
<1>3. Tail(todo) \in Seq(DecTask)
  BY <1>1, HeadTailProperties
<1> DEFINE u == tasks \o Tail(todo)
<1>4. /\ u \in Seq(DecTask)
      /\ \A i \in DOMAIN u :
           \/ i \in DOMAIN tasks /\ i <= Len(tasks) /\ u[i] = tasks[i]
           \/ /\ i > Len(tasks) /\ i - Len(tasks) + 1 \in 2 .. Len(todo)
              /\ u[i] = todo[i - Len(tasks) + 1]
  BY <1>1, <1>2, Placed
<1>5. \A i \in 2 .. Len(todo) :
        i - 1 + Len(tasks) \in DOMAIN u /\ u[i - 1 + Len(tasks)] = todo[i]
  BY <1>1, <1>2, Moved
<1>6. \A i \in DOMAIN tasks :
        v = Len(made) + 1 /\ IF tasks[i].do = "read" THEN tasks[i].into = v
                             ELSE tasks[i].entity = v /\ i = Len(tasks)
  <2>1. CASE KnownValue(v, tasks)
    BY <2>1 DEF KnownValue
  <2>2. CASE NewEntity(v, tasks)
    BY <2>2 DEF NewEntity, new
  <2> QED BY <2>1, <2>2 DEF ReadStep
<1>7. todo' = u
  BY <1>2
<1> HIDE DEF u
<1> QED BY <1>1, <1>2, <1>3, <1>4, <1>5, <1>6, <1>7

(* The entities of such a step.                                            *)
LEMMA EntitiesMove ==
  ASSUME DecInv, NEW v, NEW tasks, ReadStep(v, tasks)
  PROVE  /\ Entities = 1 .. Len(made) /\ Len(made) \in Nat
         /\ Entities' = 1 .. Len(made') /\ Len(made') \in Nat /\ Entities \subseteq Entities'
         /\ todoHead = todo[1] /\ todoHead \in DecTask /\ todoHead.do = "read"
         /\ todoHead.into \in {0} \cup Entities
         /\ v \in {DScalar, DNull} \cup Entities'
         /\ \A e \in Entities :
              /\ made'[e].kind = made[e].kind /\ made'[e].from = made[e].from
              /\ e # todoHead.into => made'[e].kids = made[e].kids
              /\ e = todoHead.into => made'[e].kids = Append(made[e].kids, v)
         /\ \A e \in Entities' : e \notin Entities =>
              e = v /\ v = Len(made) + 1 /\ NewEntity(v, tasks) /\ made'[e].kids = <<>>
<1>1. /\ Entities = 1 .. Len(made) /\ Len(made) \in Nat /\ DOMAIN made = Entities
  BY MadeTyped
<1>2. /\ todoHead = todo[1] /\ todoHead \in DecTask /\ todoHead.do = "read"
      /\ todoHead.into \in {0} \cup Entities
  BY HeadOfTodo DEF ReadStep, TakesValue
<1>3. Grown(made, made', todoHead.into, v)
  BY DEF ReadStep, TakesValue
<1>4. /\ DOMAIN made' = 1 .. Len(made') /\ Len(made') \in Nat /\ DOMAIN made \subseteq DOMAIN made'
      /\ \A e \in DOMAIN made' : e \in DOMAIN made \/ e \in Len(made) + 1 .. Len(made')
  BY <1>3, GrownDomains
<1>5. ASSUME NEW e \in Entities', e \notin Entities
      PROVE  e = v /\ v = Len(made) + 1 /\ NewEntity(v, tasks) /\ made'[e].kids = <<>>
  <2>1. e \in Len(made) + 1 .. Len(made') /\ made'[e].kids = <<>>
    BY <1>1, <1>3, <1>4, <1>5 DEF Entities, Grown
  <2>a. Len(made') # Len(made)
    BY <1>1, <2>1
  <2>2. NewEntity(v, tasks)
    BY <2>a DEF ReadStep, KnownValue
  <2>3. v = Len(made) + 1 /\ Len(made') = v
    BY <2>2 DEF NewEntity, new
  <2> QED BY <1>1, <2>1, <2>2, <2>3
<1> QED BY <1>1, <1>2, <1>3, <1>4, <1>5 DEF Entities, Grown

(* What is to be read for an entity of before, and for a new one.          *)
LEMMA ReadsMove ==
  ASSUME DecInv, NEW v, NEW tasks, ReadStep(v, tasks)
  PROVE  /\ \A e \in Entities :
              Sum(todo, Reads(e)) = Sum(todo', Reads(e)) + (IF e = todoHead.into THEN 1 ELSE 0)
         /\ NewEntity(v, tasks) => Sum(todo', Reads(v)) = made'[v].from.arg
         /\ \A e : Sum(todo, Reads(e)) \in Nat /\ Sum(todo', Reads(e)) \in Nat
<1>1. /\ todo' \in Seq(DecTask) /\ Tail(todo) \in Seq(DecTask) /\ tasks \in Seq(DecTask)
      /\ \A i \in DOMAIN tasks :
           v = Len(made) + 1 /\ IF tasks[i].do = "read" THEN tasks[i].into = v
                                ELSE tasks[i].entity = v /\ i = Len(tasks)
  BY TasksMove
<1>2. /\ todo \in Seq(DecTask) /\ todo # <<>> /\ todo' = tasks \o Tail(todo)
      /\ DOMAIN todo = 1 .. Len(todo) /\ Len(todo) \in Nat
      /\ todoHead = Head(todo) /\ todoHead \in DecTask /\ todoHead.do = "read"
  BY HeadOfTodo DEF ReadStep, TakesValue, todoHead
<1>3. ASSUME NEW e
      PROVE  /\ Reads(e) \in [DecTask -> SUBSET Nat]
             /\ \A t \in DecTask : IsFiniteSet(Reads(e)[t])
  BY ReadsCounts
<1>4. ASSUME NEW e
      PROVE  /\ Sum(todo, Reads(e)) \in Nat /\ Sum(todo', Reads(e)) \in Nat
             /\ Sum(tasks, Reads(e)) \in Nat /\ Sum(Tail(todo), Reads(e)) \in Nat
             /\ Sum(todo', Reads(e)) = Sum(tasks, Reads(e)) + Sum(Tail(todo), Reads(e))
             /\ Sum(todo, Reads(e)) = Cardinality(Reads(e)[todoHead]) + Sum(Tail(todo), Reads(e))
  <2>1. /\ Sum(todo, Reads(e)) \in Nat /\ Sum(todo', Reads(e)) \in Nat
        /\ Sum(tasks, Reads(e)) \in Nat /\ Sum(Tail(todo), Reads(e)) \in Nat
    BY <1>1, <1>2, <1>3, MarksFinite
  <2>2. Sum(tasks \o Tail(todo), Reads(e)) = Sum(tasks, Reads(e)) + Sum(Tail(todo), Reads(e))
    BY <1>1, <1>3, SumConcat
  <2>3. Sum(todo, Reads(e)) = Cardinality(Reads(e)[todoHead]) + Sum(Tail(todo), Reads(e))
    BY <1>2, <1>3, SumHead
  <2> QED BY <1>2, <2>1, <2>2, <2>3
<1>5. Len(made) \in Nat /\ Entities = 1 .. Len(made)
  BY MadeTyped
<1>6. ASSUME NEW e \in Entities
      PROVE  Sum(todo, Reads(e)) = Sum(todo', Reads(e)) + (IF e = todoHead.into THEN 1 ELSE 0)
  <2>1. Sum(tasks, Reads(e)) = 0
    <3>1. \A i \in DOMAIN tasks : tasks[i] \in DecTask /\ ~ Fills(tasks[i], e)
      BY <1>1, <1>5 DEF Fills
    <3>2. \A i \in DOMAIN tasks : Reads(e)[tasks[i]] = {}
      BY <3>1, ReadsCounts
    <3> QED BY <1>1, <1>3, <3>2, SumZero
  <2>2. Cardinality(Reads(e)[todoHead]) = IF e = todoHead.into THEN 1 ELSE 0
    <3>1. Fills(todoHead, e) <=> e = todoHead.into
      BY <1>2 DEF Fills
    <3> QED BY <1>2, <3>1, ReadsCounts
  <2> HIDE DEF Sum
  <2> QED BY <1>4, <2>1, <2>2
<1>7. ASSUME NewEntity(v, tasks) PROVE Sum(todo', Reads(v)) = made'[v].from.arg
  <2>1. v = Len(made) + 1 /\ made'[v].from.arg = Sum(tasks, Reads(v))
    BY <1>7 DEF NewEntity, new
  <2>2. Sum(Tail(todo), Reads(v)) = 0
    <3>1. Len(Tail(todo)) = Len(todo) - 1 /\ \A i \in 1 .. Len(Tail(todo)) : Tail(todo)[i] = todo[i + 1]
      BY <1>2, HeadTailProperties
    <3>2. \A i \in DOMAIN todo : todo[i].do = "read" => todo[i].into # v
      BY <1>5, <2>1, MadeTyped
    <3>3. DOMAIN Tail(todo) = 1 .. Len(Tail(todo))
      BY <1>1
    <3>4. \A i \in DOMAIN Tail(todo) : Tail(todo)[i] \in DecTask /\ ~ Fills(Tail(todo)[i], v)
      <4> SUFFICES ASSUME NEW i \in DOMAIN Tail(todo)
                   PROVE  Tail(todo)[i] \in DecTask /\ ~ Fills(Tail(todo)[i], v)
        OBVIOUS
      <4>1. i + 1 \in DOMAIN todo /\ Tail(todo)[i] = todo[i + 1]
        BY <1>2, <3>1, <3>3
      <4> QED BY <1>2, <3>2, <4>1 DEF Fills
    <3>5. \A i \in DOMAIN Tail(todo) : Reads(v)[Tail(todo)[i]] = {}
      BY <3>4, ReadsCounts
    <3>6. PICK tl : tl = Tail(todo)
      OBVIOUS
    <3>7. /\ tl \in Seq(DecTask) /\ \A i \in DOMAIN tl : Reads(v)[tl[i]] = {}
          /\ Reads(v) \in [DecTask -> SUBSET Nat] /\ \A t \in DecTask : IsFiniteSet(Reads(v)[t])
      BY <1>1, <1>3, <3>5, <3>6
    <3>8. Sum(tl, Reads(v)) = 0
      BY <3>7, SumZero
    <3> QED BY <3>6, <3>8
  <2> QED BY <1>4, <2>1, <2>2
<1> QED BY <1>4, <1>6, <1>7

(* MissingIsComing is kept.                                                *)
LEMMA ReadStepMissing ==
  ASSUME DecInv, NEW v, NEW tasks, ReadStep(v, tasks)
  PROVE  MissingIsComing'
<1>1. /\ \A e \in Entities : Len(made[e].kids) + Sum(todo, Reads(e)) = made[e].from.arg
      /\ result = NoValue /\ decoded # "no" => \E i \in DOMAIN todo : Fills(todo[i], 0)
      /\ decoded = "running" /\ decoded' = decoded
      /\ result' = IF todoHead.into = 0 THEN v ELSE result
  BY DEF DecInv, MissingIsComing, ReadStep, TakesValue
<1>2. /\ \A e \in Entities :
           Sum(todo, Reads(e)) = Sum(todo', Reads(e)) + (IF e = todoHead.into THEN 1 ELSE 0)
      /\ NewEntity(v, tasks) => Sum(todo', Reads(v)) = made'[v].from.arg
      /\ \A e : Sum(todo, Reads(e)) \in Nat /\ Sum(todo', Reads(e)) \in Nat
  BY ReadsMove
<1>3. /\ todoHead = todo[1] /\ todoHead.do = "read"
      /\ v \in {DScalar, DNull} \cup Entities'
      /\ Entities' = 1 .. Len(made') /\ Len(made') \in Nat
      /\ \A e \in Entities :
           /\ made'[e].kind = made[e].kind /\ made'[e].from = made[e].from
           /\ e # todoHead.into => made'[e].kids = made[e].kids
           /\ e = todoHead.into => made'[e].kids = Append(made[e].kids, v)
      /\ \A e \in Entities' : e \notin Entities =>
           e = v /\ v = Len(made) + 1 /\ NewEntity(v, tasks) /\ made'[e].kids = <<>>
  BY EntitiesMove
<1>4. \A e \in Entities : made[e].kids \in Seq(Int)
  BY MadeTyped
<1>5. ASSUME NEW e \in Entities' PROVE Len(made'[e].kids) + Sum(todo', Reads(e)) = made'[e].from.arg
  <2>1. CASE e \in Entities
    <3>1. made[e].kids \in Seq(Int) /\ Len(made[e].kids) \in Nat /\ v \in Int
      BY <1>3, <1>4, <2>1, LenProperties DEF DScalar, DNull
    <3>2. Len(made[e].kids) + Sum(todo, Reads(e)) = made'[e].from.arg
      BY <1>1, <1>3, <2>1
    <3>3. Sum(todo', Reads(e)) \in Nat
      BY <1>2
    <3>4. CASE e = todoHead.into
      <4>1. Sum(todo, Reads(e)) = Sum(todo', Reads(e)) + 1
        BY <1>2, <2>1, <3>4
      <4>2. made'[e].kids = Append(made[e].kids, v)
        BY <1>3, <2>1, <3>4
      <4>3. Len(made'[e].kids) = Len(made[e].kids) + 1
        BY <3>1, <4>2, AppendProperties
      <4>4. PICK a, b, c : a = Len(made[e].kids) /\ b = Sum(todo', Reads(e)) /\ c = made'[e].from.arg
        OBVIOUS
      <4>5. a \in Nat /\ b \in Nat /\ a + (b + 1) = c
        BY <3>1, <3>2, <3>3, <4>1, <4>4
      <4>6. (a + 1) + b = c
        BY <4>5
      <4> QED BY <4>3, <4>4, <4>6
    <3>5. CASE e # todoHead.into
      <4>1. Sum(todo, Reads(e)) = Sum(todo', Reads(e))
        BY <1>2, <2>1, <3>5
      <4>2. made'[e].kids = made[e].kids
        BY <1>3, <2>1, <3>5
      <4> QED BY <3>1, <3>2, <3>3, <4>1, <4>2
    <3> QED BY <3>4, <3>5
  <2>2. CASE e \notin Entities
    <3>1. e = v /\ NewEntity(v, tasks) /\ made'[e].kids = <<>>
      BY <1>3, <2>2
    <3>2. Sum(todo', Reads(e)) = made'[e].from.arg /\ Sum(todo', Reads(e)) \in Nat
      BY <1>2, <3>1
    <3> QED BY <3>1, <3>2
  <2> QED BY <2>1, <2>2
<1>6. ASSUME result' = NoValue PROVE \E i \in DOMAIN todo' : Fills(todo'[i], 0)
  <2>1. v # NoValue
    BY <1>3 DEF NoValue, DScalar, DNull
  <2>2. todoHead.into # 0 /\ result = NoValue
    BY <1>1, <1>6, <2>1
  <2>3. PICK i \in DOMAIN todo : Fills(todo[i], 0)
    BY <1>1, <2>2
  <2>4. i # 1
    BY <1>3, <2>2, <2>3 DEF Fills
  <2>5. i - 1 + Len(tasks) \in DOMAIN todo' /\ todo'[i - 1 + Len(tasks)] = todo[i]
    BY <2>4, TasksMove
  <2> QED BY <2>3, <2>5
<1> QED BY <1>1, <1>5, <1>6 DEF MissingIsComing

(* ReferencesChecked is kept.                                              *)
LEMMA ReadStepReferences ==
  ASSUME DecInv, NEW v, NEW tasks, ReadStep(v, tasks)
  PROVE  ReferencesChecked'
<1>1. /\ \A e \in Entities : made[e].kind = "reference" =>
           /\ made[e].from.arg = 1
           /\ Checked(e) \/ \E i \in DOMAIN todo : todo[i].do = "reference" /\ todo[i].entity = e
      /\ \A i, j \in DOMAIN todo :
           todo[i].do = "reference" /\ i < j => ~ Fills(todo[j], todo[i].entity)
  BY DEF DecInv, ReferencesChecked
<1>2. /\ todo' \in Seq(DecTask) /\ tasks \in Seq(DecTask)
      /\ \A i \in DOMAIN todo' :
           \/ i \in DOMAIN tasks /\ i <= Len(tasks) /\ todo'[i] = tasks[i]
           \/ /\ i > Len(tasks) /\ i - Len(tasks) + 1 \in 2 .. Len(todo)
              /\ todo'[i] = todo[i - Len(tasks) + 1]
      /\ \A i \in 2 .. Len(todo) :
           i - 1 + Len(tasks) \in DOMAIN todo' /\ todo'[i - 1 + Len(tasks)] = todo[i]
      /\ \A i \in 2 .. Len(todo) : i \in DOMAIN todo /\ 1 < i
      /\ \A i \in DOMAIN todo : i = 1 \/ i \in 2 .. Len(todo)
      /\ \A i \in DOMAIN tasks :
           v = Len(made) + 1 /\ IF tasks[i].do = "read" THEN tasks[i].into = v
                                ELSE tasks[i].entity = v /\ i = Len(tasks)
  BY TasksMove
<1>3. /\ todoHead = todo[1] /\ todoHead.do = "read"
      /\ Entities = 1 .. Len(made) /\ Len(made) \in Nat
      /\ Entities' = 1 .. Len(made') /\ Len(made') \in Nat /\ Entities \subseteq Entities'
      /\ \A e \in Entities :
           /\ made'[e].kind = made[e].kind /\ made'[e].from = made[e].from
           /\ e # todoHead.into => made'[e].kids = made[e].kids
           /\ e = todoHead.into => made'[e].kids = Append(made[e].kids, v)
      /\ \A e \in Entities' : e \notin Entities =>
           e = v /\ v = Len(made) + 1 /\ NewEntity(v, tasks) /\ made'[e].kids = <<>>
  BY EntitiesMove
<1>4. /\ \A e \in Entities :
           Sum(todo, Reads(e)) = Sum(todo', Reads(e)) + (IF e = todoHead.into THEN 1 ELSE 0)
      /\ \A e : Sum(todo, Reads(e)) \in Nat /\ Sum(todo', Reads(e)) \in Nat
  BY ReadsMove
<1>5. ASSUME NEW e \in Entities', made'[e].kind = "reference"
      PROVE  /\ made'[e].from.arg = 1
             /\ Checked(e)' \/ \E i \in DOMAIN todo' : todo'[i].do = "reference" /\ todo'[i].entity = e
  <2>1. CASE e \notin Entities
    <3>1. e = v /\ NewEntity(v, tasks)
      BY <1>3, <2>1
    <3>2. /\ made'[e].from.arg = 1 /\ todo' = tasks \o Tail(todo)
      BY <1>5, <3>1 DEF NewEntity, ReadStep, TakesValue
    <3>3. PICK i \in DOMAIN tasks : tasks[i].do = "reference"
      BY <1>5, <3>1 DEF NewEntity
    <3>4. tasks[i].entity = e
      BY <1>2, <3>1, <3>3
    <3>5. i \in DOMAIN todo' /\ todo'[i] = tasks[i]
      <4>1. todo \in Seq(DecTask) /\ todo # <<>> /\ Len(todo) \in Nat /\ Len(todo) > 0
        BY HeadOfTodo DEF ReadStep, TakesValue
      <4>2. Tail(todo) \in Seq(DecTask)
        BY TasksMove
      <4> QED BY <1>2, <3>2, <3>3, <4>1, <4>2, ConcatProperties
    <3> QED BY <3>2, <3>3, <3>4, <3>5
  <2>2. CASE e \in Entities
    <3>1. made[e].kind = "reference" /\ made[e].from.arg = 1 /\ made'[e].from.arg = 1
      BY <1>1, <1>3, <1>5, <2>2
    <3>2. CASE Checked(e)
      <4>1. e # todoHead.into
        <5>1. ASSUME e = todoHead.into PROVE Sum(todo, Reads(e)) = Sum(todo', Reads(e)) + 1
          BY <1>4, <2>2, <5>1
        <5>2. Sum(todo, Reads(e)) = 0 /\ Sum(todo', Reads(e)) \in Nat
          BY <1>4, <3>2 DEF Checked
        <5> QED BY <5>1, <5>2
      <4>2. Sum(todo', Reads(e)) = 0
        <5>1. Sum(todo, Reads(e)) = Sum(todo', Reads(e)) + 0
          BY <1>4, <2>2, <4>1
        <5>2. Sum(todo, Reads(e)) = 0 /\ Sum(todo', Reads(e)) \in Nat
          BY <1>4, <3>2 DEF Checked
        <5> QED BY <5>1, <5>2
      <4>3. made'[e].kids = made[e].kids /\ made[e].kids # <<>>
        BY <1>3, <2>2, <3>2, <4>1 DEF Checked
      <4>4. Inner(e) \in {DScalar, DNull} \cup Entities
        <5>1. made[e].kids \in Seq(Int)
              /\ \A i \in DOMAIN made[e].kids : made[e].kids[i] \in {DScalar, DNull} \cup Entities
          BY <2>2, MadeTyped
        <5>2. 1 \in DOMAIN made[e].kids
          BY <4>3, <5>1, EmptySeq, LenProperties
        <5> QED BY <5>1, <5>2 DEF Inner
      <4>5. Inner(e)' = Inner(e) /\ (Inner(e) \in Entities => made'[Inner(e)].kind = made[Inner(e)].kind)
        BY <1>3, <4>3 DEF Inner
      <4>6. Inner(e) > 0 <=> Inner(e) \in Entities
        BY <1>3, <4>4 DEF DScalar, DNull
      <4>7. InnerKindIs(e, "reference")' <=> InnerKindIs(e, "reference")
        <5>1. InnerKindIs(e, "reference") <=> Inner(e) > 0 /\ made[Inner(e)].kind = "reference"
          BY DEF InnerKindIs
        <5>2. InnerKindIs(e, "reference")' <=> Inner(e)' > 0 /\ made'[Inner(e)'].kind = "reference"
          BY DEF InnerKindIs
        <5> QED BY <4>5, <4>6, <5>1, <5>2
      <4>8. Checked(e)'
        BY <3>2, <4>2, <4>3, <4>7 DEF Checked
      <4> QED BY <3>1, <4>8
    <3>3. CASE \E i \in DOMAIN todo : todo[i].do = "reference" /\ todo[i].entity = e
      <4>1. PICK i \in DOMAIN todo : todo[i].do = "reference" /\ todo[i].entity = e
        BY <3>3
      <4>2. i \in 2 .. Len(todo)
        BY <1>2, <1>3, <4>1
      <4>3. i - 1 + Len(tasks) \in DOMAIN todo' /\ todo'[i - 1 + Len(tasks)] = todo[i]
        BY <1>2, <4>2
      <4> QED BY <3>1, <4>1, <4>3
    <3> QED BY <1>1, <2>2, <3>1, <3>2, <3>3
  <2> QED BY <2>1, <2>2
<1>6. ASSUME NEW i \in DOMAIN todo', NEW j \in DOMAIN todo', todo'[i].do = "reference", i < j
      PROVE  ~ Fills(todo'[j], todo'[i].entity)
  <2>0. Len(tasks) \in Nat /\ Len(todo) \in Nat /\ i \in Nat /\ j \in Nat
    BY <1>2, HeadOfTodo, LenProperties DEF ReadStep, TakesValue
  <2>1. CASE i \in DOMAIN tasks /\ i <= Len(tasks) /\ todo'[i] = tasks[i]
    <3>1. todo'[i].entity = v /\ i = Len(tasks) /\ v = Len(made) + 1
      BY <1>2, <1>6, <2>1
    <3>2. j > Len(tasks) /\ j - Len(tasks) + 1 \in DOMAIN todo /\ todo'[j] = todo[j - Len(tasks) + 1]
      BY <1>2, <1>6, <2>0, <3>1
    <3>3. todo'[j].do = "read" => todo'[j].into \in {0} \cup Entities
      BY <3>2, MadeTyped
    <3> QED BY <1>3, <3>1, <3>3 DEF Fills
  <2>2. CASE /\ i > Len(tasks) /\ i - Len(tasks) + 1 \in 2 .. Len(todo)
             /\ todo'[i] = todo[i - Len(tasks) + 1]
    <3>1. j > Len(tasks) /\ ~ (j <= Len(tasks))
      BY <1>6, <2>0, <2>2
    <3>2. j - Len(tasks) + 1 \in DOMAIN todo /\ todo'[j] = todo[j - Len(tasks) + 1]
      BY <1>2, <3>1
    <3>3. i - Len(tasks) + 1 \in DOMAIN todo /\ i - Len(tasks) + 1 < j - Len(tasks) + 1
      BY <1>2, <1>6, <2>0, <2>2
    <3> QED BY <1>1, <1>6, <2>2, <3>2, <3>3
  <2> QED BY <1>2, <2>1, <2>2
<1> QED BY <1>5, <1>6 DEF ReferencesChecked

(* What a step that reads a value puts where.                              *)
LEMMA ContentsMove ==
  ASSUME DecInv, NEW v, NEW tasks, ReadStep(v, tasks)
  PROVE  /\ \A e \in Entities :
              /\ ArrayContents(made, e) \subseteq Entities
              /\ todoHead.into # e /\ ~ (todoHead.into \in ArrayContents(made, e)
                                           /\ made[todoHead.into].kind = "array")
                   => ArrayContents(made', e) \subseteq ArrayContents(made, e)
              /\ ArrayContents(made', e) \subseteq ArrayContents(made, e) \cup {v} \cup Under(made, v)
         /\ \A e \in Entities' : ArrayContents(made', e) \subseteq Entities'
         /\ \A e \in Entities' : e \notin Entities => ArrayContents(made', e) = {}
         /\ v \in Entities => \E k \in DOMAIN ids : v = ids[k]
         /\ \A i \in DOMAIN ids : made[ids[i]].kind = "array" =>
              ArrayContents(made', ids[i]) \subseteq ArrayContents(made, ids[i])
<1>1. /\ Entities = DOMAIN made /\ Entities' = DOMAIN made' /\ Inside(made)
      /\ Entities = 1 .. Len(made) /\ Len(made) \in Nat
      /\ \A i \in DOMAIN ids : ids[i] \in Entities
  BY MadeTyped DEF Entities
<1>2. Grown(made, made', todoHead.into, v)
  BY DEF ReadStep, TakesValue
<1>3. /\ Inside(made')
      /\ \A e \in DOMAIN made :
           /\ v \in {DScalar, DNull} => ArrayContents(made', e) \subseteq ArrayContents(made, e)
           /\ todoHead.into # e /\ ~ (todoHead.into \in ArrayContents(made, e)
                                        /\ made[todoHead.into].kind = "array")
                => ArrayContents(made', e) \subseteq ArrayContents(made, e)
           /\ ArrayContents(made', e) \subseteq ArrayContents(made, e) \cup {v} \cup Under(made, v)
      /\ \A e \in DOMAIN made' : e \notin DOMAIN made => ArrayContents(made', e) = {}
  BY <1>1, <1>2, ContentsGrow
<1>4. \A e \in DOMAIN made : ArrayContents(made, e) \subseteq DOMAIN made
  BY <1>1, ContentsLeast
<1>5. \A e \in DOMAIN made' : ArrayContents(made', e) \subseteq DOMAIN made'
  BY <1>3, ContentsLeast
<1>6. ASSUME v \in Entities PROVE \E k \in DOMAIN ids : v = ids[k]
  <2>1. CASE KnownValue(v, tasks)
    BY <1>1, <1>6, <2>1 DEF KnownValue, DScalar, DNull
  <2>2. CASE NewEntity(v, tasks)
    BY <1>1, <1>6, <2>2 DEF NewEntity, new
  <2> QED BY <2>1, <2>2 DEF ReadStep
<1>7. ASSUME NEW i \in DOMAIN ids, made[ids[i]].kind = "array"
      PROVE  ArrayContents(made', ids[i]) \subseteq ArrayContents(made, ids[i])
  <2>1. Sealed(made, ids[i], todo[1])
    BY <1>7, HeadOfTodo DEF DecInv, SharedSealed, ReadStep, TakesValue
  <2>2. todo[1].do = "read" /\ todo[1] = todoHead
    BY EntitiesMove
  <2>3. ids[i] \in DOMAIN made /\ ids[i] # 0 /\ 0 \notin DOMAIN made
    BY <1>1
  <2>4. todoHead.into # ids[i]
    BY <1>7, <2>1, <2>2, <2>3 DEF Sealed
  <2>5. ~ (todoHead.into \in ArrayContents(made, ids[i]) /\ made[todoHead.into].kind = "array")
    BY <1>4, <2>1, <2>2, <2>3 DEF Sealed
  <2> QED BY <1>3, <2>3, <2>4, <2>5
<1> QED BY <1>1, <1>3, <1>4, <1>5, <1>6, <1>7

(* SharedArraysHoldNoReference and ArraysAcyclic are kept.                 *)
LEMMA ReadStepArrays ==
  ASSUME DecInv, NEW v, NEW tasks, ReadStep(v, tasks)
  PROVE  /\ \A i \in DOMAIN ids' : made'[ids'[i]].kind = "array" =>
              \E k \in DOMAIN ids : ids'[i] = ids[k] /\ made[ids[k]].kind = "array"
         /\ SharedArraysHoldNoReference' /\ ArraysAcyclic'
<1>1. /\ \A e \in Entities :
           /\ ArrayContents(made, e) \subseteq Entities
           /\ todoHead.into # e /\ ~ (todoHead.into \in ArrayContents(made, e)
                                        /\ made[todoHead.into].kind = "array")
                => ArrayContents(made', e) \subseteq ArrayContents(made, e)
           /\ ArrayContents(made', e) \subseteq ArrayContents(made, e) \cup {v} \cup Under(made, v)
      /\ \A e \in Entities' : e \notin Entities => ArrayContents(made', e) = {}
      /\ v \in Entities => \E k \in DOMAIN ids : v = ids[k]
      /\ \A i \in DOMAIN ids : made[ids[i]].kind = "array" =>
           ArrayContents(made', ids[i]) \subseteq ArrayContents(made, ids[i])
  BY ContentsMove
<1>2. \A e \in Entities : made'[e].kind = made[e].kind
  BY EntitiesMove
<1>3. ids \in Seq(Nat) /\ \A i \in DOMAIN ids : ids[i] \in Entities
  BY MadeTyped
<1>4. ASSUME NEW i \in DOMAIN ids', made'[ids'[i]].kind = "array"
      PROVE  \E k \in DOMAIN ids : ids'[i] = ids[k] /\ made[ids[k]].kind = "array"
  <2>1. CASE ids' = ids
    BY <1>2, <1>3, <1>4, <2>1
  <2>2. CASE ids' = Append(ids, v) /\ made'[v].kind # "array" /\ v \in Nat
    <3>1. i \in DOMAIN ids \/ ids'[i] = v
      BY <1>3, <2>2
    <3>2. i \in DOMAIN ids /\ ids'[i] = ids[i]
      BY <1>3, <1>4, <2>2, <3>1
    <3> QED BY <1>2, <1>3, <1>4, <3>2
  <2>3. v = Len(made) + 1 => v \in Nat
    BY MadeTyped
  <2> QED BY <2>1, <2>2, <2>3 DEF ReadStep, KnownValue, NewEntity, new
<1>5. SharedArraysHoldNoReference'
  <2> SUFFICES ASSUME NEW i \in DOMAIN ids', made'[ids'[i]].kind = "array",
                      NEW e \in ArrayContents(made', ids'[i])
               PROVE  made'[e].kind # "reference"
    BY DEF SharedArraysHoldNoReference
  <2>1. PICK k \in DOMAIN ids : ids'[i] = ids[k] /\ made[ids[k]].kind = "array"
    BY <1>4
  <2>2. e \in ArrayContents(made, ids[k]) /\ e \in Entities
    BY <1>1, <1>3, <2>1
  <2>3. made[e].kind # "reference"
    BY <2>1, <2>2 DEF DecInv, SharedArraysHoldNoReference
  <2> QED BY <1>2, <2>2, <2>3
<1>6. ArraysAcyclic'
  <2> SUFFICES ASSUME NEW e \in Entities', made'[e].kind = "array", e \in ArrayContents(made', e)
               PROVE  FALSE
    BY DEF ArraysAcyclic
  <2>1. e \in Entities /\ made[e].kind = "array"
    BY <1>1, <1>2
  <2>2. e \notin ArrayContents(made, e)
    BY <2>1 DEF DecInv, ArraysAcyclic
  <2>3. /\ e = v \/ e \in Under(made, v)
        /\ todoHead.into = e \/ (todoHead.into \in ArrayContents(made, e)
                                   /\ made[todoHead.into].kind = "array")
    BY <1>1, <2>1, <2>2
  <2>4. v \in Entities /\ made[v].kind = "array"
        /\ (e = v \/ e \in ArrayContents(made, v))
    BY <2>1, <2>3 DEF Under, Entities
  <2>5. PICK k \in DOMAIN ids : v = ids[k]
    BY <1>1, <2>4
  <2>6. Sealed(made, v, todo[1])
    BY <2>4, <2>5, HeadOfTodo DEF DecInv, SharedSealed, ReadStep, TakesValue
  <2>7. ArrayContents(made, e) \subseteq ArrayContents(made, v)
    BY <2>1, <2>4, MadeTyped, ContentsNested
  <2>8. todoHead.into \in Entities /\ todoHead.into # 0 /\ made[todoHead.into].kind = "array"
        /\ todoHead.into \in {v} \cup ArrayContents(made, v)
    BY <1>1, <2>1, <2>3, <2>4, <2>7, MadeTyped
  <2>9. todo[1] = todoHead /\ todo[1].do = "read"
    BY EntitiesMove
  <2> QED BY <2>6, <2>8, <2>9 DEF Sealed
<1> QED BY <1>4, <1>5, <1>6

(* SharedSealed is kept: the tasks of before.                              *)
LEMMA OldTaskSealed ==
  ASSUME DecInv, NEW v, NEW tasks, ReadStep(v, tasks),
         NEW a \in Entities, NEW k \in DOMAIN todo, Sealed(made, a, todo[k])
  PROVE  Sealed(made', a, todo[k])
<1>1. /\ ArrayContents(made', a) \subseteq ArrayContents(made, a) \cup {v} \cup Under(made, v)
      /\ v \in Entities => \E i \in DOMAIN ids : v = ids[i]
  BY ContentsMove
<1>2. \A e \in Entities : made'[e].kind = made[e].kind
  BY EntitiesMove
<1>3. DOMAIN made = Entities /\ (todo[k].do = "read" => todo[k].into \in {0} \cup Entities)
  BY MadeTyped
<1> SUFFICES ASSUME todo[k].do = "read", todo[k].into # 0, made'[todo[k].into].kind = "array",
                    todo[k].into \in {a} \cup ArrayContents(made', a)
             PROVE  FALSE
  BY DEF Sealed
<1>4. todo[k].into \in Entities /\ made[todo[k].into].kind = "array"
  BY <1>2, <1>3
<1>5. todo[k].into \notin {a} \cup ArrayContents(made, a)
  BY <1>4 DEF Sealed
<1>6. todo[k].into = v \/ todo[k].into \in Under(made, v)
  BY <1>1, <1>5
<1>7. v \in Entities /\ made[v].kind = "array"
      /\ todo[k].into \in {v} \cup ArrayContents(made, v)
  BY <1>3, <1>4, <1>6 DEF Under
<1>8. PICK i \in DOMAIN ids : v = ids[i]
  BY <1>1, <1>7
<1>9. Sealed(made, v, todo[k])
  BY <1>7, <1>8 DEF DecInv, SharedSealed
<1> QED BY <1>4, <1>7, <1>9 DEF Sealed

(* SharedSealed is kept.                                                   *)
LEMMA ReadStepSealed ==
  ASSUME DecInv, NEW v, NEW tasks, ReadStep(v, tasks)
  PROVE  SharedSealed'
<1>1. /\ \A e \in Entities :
           /\ ArrayContents(made, e) \subseteq Entities
           /\ ArrayContents(made', e) \subseteq ArrayContents(made, e) \cup {v} \cup Under(made, v)
      /\ \A e \in Entities' : ArrayContents(made', e) \subseteq Entities'
      /\ \A e \in Entities' : e \notin Entities => ArrayContents(made', e) = {}
      /\ v \in Entities => \E k \in DOMAIN ids : v = ids[k]
      /\ \A i \in DOMAIN ids : made[ids[i]].kind = "array" =>
           ArrayContents(made', ids[i]) \subseteq ArrayContents(made, ids[i])
  BY ContentsMove
<1>2. /\ Entities = 1 .. Len(made) /\ Len(made) \in Nat
      /\ Entities' = 1 .. Len(made') /\ Len(made') \in Nat /\ Entities \subseteq Entities'
      /\ v \in {DScalar, DNull} \cup Entities'
      /\ \A e \in Entities : made'[e].kind = made[e].kind
      /\ \A e \in Entities' : e \notin Entities =>
           e = v /\ v = Len(made) + 1 /\ NewEntity(v, tasks) /\ made'[e].kids = <<>>
  BY EntitiesMove
<1>3. /\ todo' \in Seq(DecTask) /\ tasks \in Seq(DecTask)
      /\ \A i \in DOMAIN todo' :
           \/ i \in DOMAIN tasks /\ i <= Len(tasks) /\ todo'[i] = tasks[i]
           \/ /\ i > Len(tasks) /\ i - Len(tasks) + 1 \in 2 .. Len(todo)
              /\ todo'[i] = todo[i - Len(tasks) + 1]
      /\ \A i \in 2 .. Len(todo) : i \in DOMAIN todo /\ 1 < i
      /\ \A i \in DOMAIN tasks :
           v = Len(made) + 1 /\ IF tasks[i].do = "read" THEN tasks[i].into = v
                                ELSE tasks[i].entity = v /\ i = Len(tasks)
  BY TasksMove
<1>4. /\ ids \in Seq(Nat) /\ \A i \in DOMAIN ids : ids[i] \in Entities
      /\ DOMAIN made = Entities /\ dRefsSeen \in Nat
      /\ \A i \in DOMAIN todo :
           IF todo[i].do = "read" THEN todo[i].into \in {0} \cup Entities
           ELSE todo[i].entity \in Entities
  BY MadeTyped
<1>5. \A i \in DOMAIN ids' : made'[ids'[i]].kind = "array" =>
        \E k \in DOMAIN ids : ids'[i] = ids[k] /\ made[ids[k]].kind = "array"
  BY ReadStepArrays
<1>6. /\ \A i \in DOMAIN ids : made[ids[i]].kind = "array" =>
           \A j \in DOMAIN todo : Sealed(made, ids[i], todo[j])
      /\ \A i \in DOMAIN todo : todo[i].do = "shared" =>
           /\ made[todo[i].entity].kind = "array"
           /\ todo[i].refs <= dRefsSeen
           /\ todo[i].refs = dRefsSeen => HoldsNoReference(made, todo[i].entity)
           /\ \A j \in DOMAIN todo : i < j => Sealed(made, todo[i].entity, todo[j])
  BY DEF DecInv, SharedSealed
<1>7. ASSUME NEW i \in DOMAIN ids', made'[ids'[i]].kind = "array", NEW j \in DOMAIN todo'
      PROVE  Sealed(made', ids'[i], todo'[j])
  <2>1. PICK k \in DOMAIN ids : ids'[i] = ids[k] /\ made[ids[k]].kind = "array"
    BY <1>5, <1>7
  <2>2. CASE j \in DOMAIN tasks /\ todo'[j] = tasks[j]
    <3>1. v \notin Entities /\ (todo'[j].do = "read" => todo'[j].into = v)
      BY <1>2, <1>3, <2>2
    <3>2. {ids[k]} \cup ArrayContents(made', ids[k]) \subseteq Entities
      BY <1>1, <1>4, <2>1
    <3> QED BY <2>1, <3>1, <3>2 DEF Sealed
  <2>3. ASSUME NEW l \in 2 .. Len(todo), todo'[j] = todo[l]
        PROVE  Sealed(made', ids'[i], todo'[j])
    <3>1. l \in DOMAIN todo /\ Sealed(made, ids[k], todo[l])
      BY <1>3, <1>6, <2>1
    <3>2. Sealed(made', ids[k], todo[l])
      BY <1>4, <3>1, OldTaskSealed
    <3> QED BY <2>1, <2>3, <3>2
  <2> QED BY <1>3, <2>2, <2>3
<1>8. ASSUME NEW i \in DOMAIN todo', todo'[i].do = "shared"
      PROVE  /\ made'[todo'[i].entity].kind = "array"
             /\ todo'[i].refs <= dRefsSeen'
             /\ todo'[i].refs = dRefsSeen' => HoldsNoReference(made', todo'[i].entity)
             /\ \A j \in DOMAIN todo' : i < j => Sealed(made', todo'[i].entity, todo'[j])
  <2>0. Len(tasks) \in Nat /\ Len(todo) \in Nat /\ DOMAIN todo' = 1 .. Len(todo') /\ Len(todo') \in Nat
    BY <1>3, HeadOfTodo, LenProperties DEF ReadStep, TakesValue
  <2>1. CASE i \in DOMAIN tasks /\ i <= Len(tasks) /\ todo'[i] = tasks[i]
    <3>1. /\ todo'[i].entity = v /\ i = Len(tasks) /\ v = Len(made) + 1 /\ v \notin Entities
      BY <1>2, <1>3, <1>8, <2>1
    <3>2. tasks # <<>>
      BY <2>1
    <3>3. NewEntity(v, tasks)
      BY <3>2 DEF ReadStep, KnownValue
    <3>4. made'[v].kind = "array" /\ todo'[i].refs = dRefsSeen /\ dRefsSeen' = dRefsSeen
          /\ v \in Entities'
      <4>1. made'[v].kind = "array" /\ tasks[i].refs = dRefsSeen /\ Len(made') = v
        BY <1>8, <2>1, <3>3 DEF NewEntity
      <4>2. dRefsSeen' = dRefsSeen + 0
        BY <3>3, <4>1 DEF NewEntity
      <4> QED BY <1>2, <1>4, <2>1, <3>1, <4>1, <4>2
    <3>5. ArrayContents(made', v) = {}
      BY <1>1, <3>1, <3>4
    <3>6. ASSUME NEW j \in DOMAIN todo', i < j PROVE Sealed(made', v, todo'[j])
      <4>1. ~ (j <= Len(tasks))
        BY <2>0, <3>1, <3>6
      <4>2. PICK l \in DOMAIN todo : todo'[j] = todo[l]
        BY <1>3, <4>1
      <4>3. todo'[j].do = "read" /\ todo'[j].into # 0 => todo'[j].into # v
        BY <1>4, <3>1, <4>2
      <4> QED BY <3>5, <4>3 DEF Sealed
    <3> QED BY <1>4, <3>1, <3>4, <3>5, <3>6 DEF HoldsNoReference
  <2>2. CASE /\ i > Len(tasks) /\ i - Len(tasks) + 1 \in 2 .. Len(todo)
             /\ todo'[i] = todo[i - Len(tasks) + 1]
    <3>0. PICK k : k = i - Len(tasks) + 1
      OBVIOUS
    <3>1. k \in DOMAIN todo /\ todo'[i] = todo[k] /\ todo[k].do = "shared"
      BY <1>3, <1>8, <2>2, <3>0
    <3>2. PICK s : s = todo[k].entity
      OBVIOUS
    <3>3. /\ s \in Entities /\ made[s].kind = "array" /\ made'[s].kind = "array"
          /\ todo[k].refs <= dRefsSeen
          /\ todo[k].refs = dRefsSeen => HoldsNoReference(made, s)
          /\ \A j \in DOMAIN todo : k < j => Sealed(made, s, todo[j])
      BY <1>2, <1>4, <1>6, <3>1, <3>2
    <3>4. todo[k].refs \in Nat /\ dRefsSeen' \in Nat /\ dRefsSeen <= dRefsSeen'
          /\ (dRefsSeen' = dRefsSeen =>
                 \/ KnownValue(v, tasks) /\ (v \in Entities => made[v].kind # "reference")
                 \/ NewEntity(v, tasks) /\ made'[v].kind # "reference")
      <4>1. todo[k] \in DecTask
        BY <3>1, HeadOfTodo DEF ReadStep, TakesValue
      <4>2. todo[k].refs \in Nat
        BY <3>1, <4>1 DEF DecTask
      <4>3. CASE KnownValue(v, tasks)
        BY <1>4, <4>2, <4>3 DEF KnownValue
      <4>4. CASE NewEntity(v, tasks)
        BY <1>4, <4>2, <4>4 DEF NewEntity
      <4> QED BY <4>3, <4>4 DEF ReadStep
    <3>5. ASSUME todo[k].refs = dRefsSeen' PROVE HoldsNoReference(made', s)
      <4>1. dRefsSeen' = dRefsSeen /\ HoldsNoReference(made, s)
        BY <1>4, <3>3, <3>4, <3>5
      <4>2. v \in Entities' => made'[v].kind # "reference"
        <5>1. CASE KnownValue(v, tasks) /\ (v \in Entities => made[v].kind # "reference")
          <6>1. Entities' = Entities
            BY <1>2, <5>1 DEF KnownValue
          <6> QED BY <1>2, <5>1, <6>1
        <5>2. CASE made'[v].kind # "reference"
          BY <5>2
        <5> QED BY <3>4, <4>1, <5>1, <5>2
      <4>3. \A x \in Under(made, v) : x \in Entities /\ made[x].kind # "reference"
        <5> SUFFICES ASSUME NEW x \in Under(made, v)
                     PROVE  x \in Entities /\ made[x].kind # "reference"
          OBVIOUS
        <5>1. v \in Entities /\ made[v].kind = "array" /\ x \in ArrayContents(made, v)
          BY <1>4 DEF Under
        <5>2. PICK l \in DOMAIN ids : v = ids[l]
          BY <1>1, <5>1
        <5>3. made[x].kind # "reference"
          BY <5>1, <5>2 DEF DecInv, SharedArraysHoldNoReference
        <5> QED BY <1>1, <5>1, <5>3
      <4> SUFFICES ASSUME NEW x \in ArrayContents(made', s) PROVE made'[x].kind # "reference"
        BY DEF HoldsNoReference
      <4>4. x \in Entities'
        BY <1>1, <1>2, <3>3
      <4>5. x \in ArrayContents(made, s) \/ x = v \/ x \in Under(made, v)
        BY <1>1, <3>3
      <4>6. CASE x \in ArrayContents(made, s)
        <5>1. x \in Entities /\ made[x].kind # "reference"
          BY <1>1, <3>3, <4>1, <4>6 DEF HoldsNoReference
        <5> QED BY <1>2, <5>1
      <4>7. CASE x = v
        BY <4>2, <4>4, <4>7
      <4>8. CASE x \in Under(made, v)
        BY <1>2, <4>3, <4>8
      <4> QED BY <4>5, <4>6, <4>7, <4>8
    <3>6. ASSUME NEW j \in DOMAIN todo', i < j PROVE Sealed(made', s, todo'[j])
      <4>1. ~ (j <= Len(tasks)) /\ j \in Nat /\ i \in Nat
        BY <2>0, <2>2, <3>6
      <4>2. j - Len(tasks) + 1 \in DOMAIN todo /\ todo'[j] = todo[j - Len(tasks) + 1]
        BY <1>3, <4>1
      <4>3. k < j - Len(tasks) + 1
        BY <2>0, <3>0, <3>6, <4>1
      <4>4. Sealed(made, s, todo[j - Len(tasks) + 1])
        BY <3>3, <4>2, <4>3
      <4>5. Sealed(made', s, todo[j - Len(tasks) + 1])
        BY <3>3, <4>2, <4>4, OldTaskSealed
      <4> QED BY <4>2, <4>5
    <3>7. todo[k].refs <= dRefsSeen'
      BY <1>4, <3>3, <3>4
    <3> QED BY <3>1, <3>2, <3>3, <3>5, <3>6, <3>7
  <2> QED BY <1>3, <2>1, <2>2
<1> QED BY <1>7, <1>8 DEF SharedSealed

(* DecTyped is kept.                                                       *)
LEMMA ReadStepTyped ==
  ASSUME DecInv, NEW v, NEW tasks, ReadStep(v, tasks)
  PROVE  DecTyped'
<1>1. /\ DecTyped /\ DecTypeOK
  BY DEF DecInv, DecTyped
<1>2. /\ decoded = "running" /\ decoded' = decoded
      /\ Grown(made, made', todoHead.into, v)
      /\ result' = IF todoHead.into = 0 THEN v ELSE result
      /\ pos' \in 0 .. Len(frame) /\ maxDepth' = maxDepth /\ frame' = frame
  BY DEF ReadStep, TakesValue
<1>3. /\ Entities = 1 .. Len(made) /\ Len(made) \in Nat
      /\ Entities' = 1 .. Len(made') /\ Len(made') \in Nat /\ Entities \subseteq Entities'
      /\ v \in {DScalar, DNull} \cup Entities'
      /\ \A e \in Entities :
           /\ made'[e].kind = made[e].kind /\ made'[e].from = made[e].from
           /\ e # todoHead.into => made'[e].kids = made[e].kids
           /\ e = todoHead.into => made'[e].kids = Append(made[e].kids, v)
      /\ \A e \in Entities' : e \notin Entities =>
           e = v /\ v = Len(made) + 1 /\ NewEntity(v, tasks) /\ made'[e].kids = <<>>
  BY EntitiesMove
<1>4. /\ todo' \in Seq(DecTask)
      /\ \A i \in DOMAIN todo' :
           \/ i \in DOMAIN tasks /\ todo'[i] = tasks[i]
           \/ i - Len(tasks) + 1 \in DOMAIN todo /\ todo'[i] = todo[i - Len(tasks) + 1]
      /\ \A i \in DOMAIN tasks :
           v = Len(made) + 1 /\ IF tasks[i].do = "read" THEN tasks[i].into = v
                                ELSE tasks[i].entity = v /\ i = Len(tasks)
  BY TasksMove
<1>5. /\ ids \in Seq(Nat) /\ \A i \in DOMAIN ids : ids[i] \in Entities
      /\ dRefsSeen \in Nat
      /\ \A i \in DOMAIN todo :
           IF todo[i].do = "read" THEN todo[i].into \in {0} \cup Entities
           ELSE todo[i].entity \in Entities
      /\ \A e \in Entities :
           /\ made[e] \in EntityRec /\ made[e].kids \in Seq(Int)
           /\ \A i \in DOMAIN made[e].kids : made[e].kids[i] \in {DScalar, DNull} \cup Entities
  BY MadeTyped
<1>6. made' \in Seq(EntityRec)
  BY <1>2 DEF Grown
<1>7. ASSUME NEW e \in Entities'
      PROVE  /\ made'[e].kind \in {"array", "reference", "object"}
             /\ \A i \in DOMAIN made'[e].kids : made'[e].kids[i] \in {DScalar, DNull} \cup Entities'
  <2>1. made'[e] \in EntityRec
    <3>1. Entities' = DOMAIN made'
      BY DEF Entities
    <3> QED BY <1>6, <3>1
  <2>2. made'[e].kind \in {"array", "reference", "object"}
    BY <2>1 DEF EntityRec
  <2>3. ASSUME NEW i \in DOMAIN made'[e].kids
        PROVE  made'[e].kids[i] \in {DScalar, DNull} \cup Entities'
    <3>1. CASE e \notin Entities
      BY <1>3, <2>3, <3>1
    <3>2. CASE e \in Entities /\ e # todoHead.into
      BY <1>3, <1>5, <2>3, <3>2
    <3>3. CASE e \in Entities /\ e = todoHead.into
      <4>1. made[e].kids \in Seq(Int) /\ v \in Int /\ made'[e].kids = Append(made[e].kids, v)
        BY <1>3, <1>5, <3>3 DEF DScalar, DNull
      <4>2. \/ i \in DOMAIN made[e].kids /\ made'[e].kids[i] = made[e].kids[i]
            \/ made'[e].kids[i] = v
        BY <2>3, <4>1
      <4> QED BY <1>3, <1>5, <3>3, <4>2
    <3> QED BY <3>1, <3>2, <3>3
  <2> QED BY <2>2, <2>3
<1>8. v = Len(made) + 1 => (tasks = <<>> \/ NewEntity(v, tasks)) /\ (NewEntity(v, tasks) => v \in Entities')
  BY <1>3 DEF ReadStep, KnownValue, NewEntity
<1>9. ASSUME NEW i \in DOMAIN todo'
      PROVE  IF todo'[i].do = "read" THEN todo'[i].into \in {0} \cup Entities'
             ELSE todo'[i].entity \in Entities'
  <2>1. CASE i \in DOMAIN tasks /\ todo'[i] = tasks[i]
    <3>1. v \in Entities'
      BY <1>4, <1>8, <2>1
    <3> QED BY <1>4, <2>1, <3>1
  <2>2. ASSUME NEW k \in DOMAIN todo, todo'[i] = todo[k]
        PROVE  IF todo'[i].do = "read" THEN todo'[i].into \in {0} \cup Entities'
               ELSE todo'[i].entity \in Entities'
    BY <1>3, <1>5, <2>2
  <2> QED BY <1>4, <2>1, <2>2
<1>10. ids' \in Seq(Nat) /\ \A i \in DOMAIN ids' : ids'[i] \in Entities'
  <2>1. CASE ids' = ids
    BY <1>3, <1>5, <2>1
  <2>2. CASE ids' = Append(ids, v) /\ v \in Entities'
    <3>1. v \in Nat
      BY <1>3, <2>2
    <3>2. \A i \in DOMAIN ids' : (i \in DOMAIN ids /\ ids'[i] = ids[i]) \/ ids'[i] = v
      BY <1>5, <2>2, <3>1
    <3> QED BY <1>3, <1>5, <2>2, <3>1, <3>2
  <2>3. NewEntity(v, tasks) => v \in Entities'
    BY <1>3 DEF NewEntity, new
  <2> QED BY <2>1, <2>2, <2>3 DEF ReadStep, KnownValue, NewEntity
<1>11. dRefsSeen' \in Nat
  <2>1. CASE KnownValue(v, tasks)
    BY <1>5, <2>1 DEF KnownValue
  <2>2. CASE NewEntity(v, tasks)
    BY <1>5, <2>2 DEF NewEntity
  <2> QED BY <2>1, <2>2 DEF ReadStep
<1>12. result' \in {NoValue, DScalar, DNull} \cup Entities'
  BY <1>1, <1>2, <1>3 DEF DecTypeOK
<1>13. DecTypeOK'
  BY <1>2, <1>7, <1>9, <1>10, <1>11, <1>12 DEF DecTypeOK
<1> QED BY <1>1, <1>2, <1>4, <1>6, <1>10, <1>13 DEF DecTyped

(* A step that reads a value keeps the decoder's invariant.                *)
LEMMA ReadStepKeeps ==
  ASSUME DecInv, NEW v, NEW tasks, ReadStep(v, tasks)
  PROVE  DecInv'
BY ReadStepTyped, ReadStepMissing, ReadStepReferences, ReadStepSealed, ReadStepArrays DEF DecInv

----------------------------------------------------------------------------
(* The decoder's actions.                                                  *)

(* What a value is read from, and where it goes.                           *)
LEMMA ReadingTyped ==
  ASSUME DecInv, NEW tags, Reading(tags)
  PROVE  /\ decoded = "running" /\ todo # <<>> /\ todoHead.do = "read"
         /\ todoHead \in DecTask /\ todoHead.depth \in Nat /\ todoHead.into \in {0} \cup Entities
         /\ frame \in Seq(AnyToken) /\ Len(frame) \in Nat /\ pos \in Nat /\ pos < Len(frame)
         /\ pos + 1 \in 0 .. Len(frame) /\ token.tag \in tags
         /\ token \in AnyToken /\ token.arg \in Nat
         /\ token.tag \in {"new_ref", "magic"} => token.arg = 1
         /\ pos + 1 < Len(frame) =>
              frame[pos + 2] \in AnyToken /\ frame[pos + 2].arg \in Nat /\ pos + 2 \in 0 .. Len(frame)
<1>1. decoded = "running" /\ todo # <<>> /\ todoHead.do = "read" /\ pos < Len(frame) /\ token.tag \in tags
  BY DEF Reading
<1>2. todoHead \in DecTask /\ todoHead.into \in {0} \cup Entities
  BY <1>1, HeadOfTodo
<1>3. todoHead.depth \in Nat
  BY <1>1, <1>2 DEF DecTask
<1>4. frame \in Seq(AnyToken) /\ pos \in 0 .. Len(frame)
  BY DEF DecInv, DecTyped, DecTypeOK
<1>5. Len(frame) \in Nat /\ DOMAIN frame = 1 .. Len(frame)
  BY <1>4, LenProperties
<1>6. pos \in Nat /\ pos + 1 \in 1 .. Len(frame)
  BY <1>1, <1>4, <1>5
<1>7. token \in AnyToken
  BY <1>4, <1>5, <1>6 DEF token
<1>8. \A t \in AnyToken : t.arg \in Nat /\ (t.tag \in {"new_ref", "magic"} => t.arg = 1)
  BY DEF AnyToken
<1>9. ASSUME pos + 1 < Len(frame)
      PROVE  frame[pos + 2] \in AnyToken /\ frame[pos + 2].arg \in Nat /\ pos + 2 \in 0 .. Len(frame)
  <2>1. pos + 2 \in 1 .. Len(frame)
    BY <1>5, <1>6, <1>9
  <2>2. frame[pos + 2] \in AnyToken
    BY <1>4, <1>5, <2>1
  <2> QED BY <1>8, <2>1, <2>2
<1> QED BY <1>1, <1>2, <1>3, <1>4, <1>5, <1>6, <1>7, <1>8, <1>9

(* A value is stored in entities that are those of before, with others     *)
(* that are empty.                                                         *)
LEMMA StoreGrows ==
  ASSUME DecInv, todo # <<>>, todoHead.do = "read",
         NEW base \in Seq(EntityRec), Len(made) <= Len(base),
         \A e \in 1 .. Len(made) : base[e] = made[e],
         \A e \in Len(made) + 1 .. Len(base) : base[e].kids = <<>>,
         NEW v \in {DScalar, DNull} \cup 1 .. Len(base), Store(base, v)
  PROVE  /\ Grown(made, made', todoHead.into, v)
         /\ Len(made') = Len(base)
         /\ \A e \in 1 .. Len(base) : made'[e].kind = base[e].kind /\ made'[e].from = base[e].from
         /\ result' = IF todoHead.into = 0 THEN v ELSE result
<1>1. /\ made \in Seq(EntityRec) /\ Len(made) \in Nat /\ Entities = 1 .. Len(made)
  BY MadeTyped
<1>2. todoHead.into \in {0} \cup Entities
  BY HeadOfTodo
<1>3. result' = IF todoHead.into = 0 THEN v ELSE result
  BY DEF Store
<1>4. Len(base) \in Nat /\ DOMAIN base = 1 .. Len(base) /\ \A e \in 1 .. Len(base) : base[e] \in EntityRec
  BY LenProperties
<1>5. v \in Int
  BY <1>4 DEF DScalar, DNull
<1>6. CASE todoHead.into = 0
  <2>1. made' = base
    BY <1>6 DEF Store, StoreIn
  <2> QED BY <1>1, <1>3, <1>4, <1>6, <2>1 DEF Grown
<1>7. CASE todoHead.into # 0
  <2>1. PICK p : p = todoHead.into
    OBVIOUS
  <2>2. p \in 1 .. Len(made) /\ p \in 1 .. Len(base)
    BY <1>1, <1>2, <1>4, <1>7, <2>1
  <2>3. made' = [base EXCEPT ![p].kids = Append(@, v)]
    BY <1>7, <2>1 DEF Store, StoreIn
  <2>4. PICK r : r = [base[p] EXCEPT !.kids = Append(@, v)]
    OBVIOUS
  <2>5. made' = [base EXCEPT ![p] = r]
    BY <2>3, <2>4
  <2>6. base[p] \in EntityRec
    BY <1>4, <2>2
  <2>7. r \in EntityRec /\ r.kind = base[p].kind /\ r.from = base[p].from
        /\ r.kids = Append(base[p].kids, v)
    <3>1. PICK b : b = base[p]
      OBVIOUS
    <3>2. b \in [kind : {"array", "reference", "object"}, kids : Seq(Int), from : AnyToken]
      BY <2>6, <3>1 DEF EntityRec
    <3>3. b.kids \in Seq(Int) /\ Append(b.kids, v) \in Seq(Int)
      BY <1>5, <3>2
    <3>4. r = [b EXCEPT !.kids = Append(b.kids, v)]
      BY <2>4, <3>1
    <3>5. PICK k : k = Append(b.kids, v)
      OBVIOUS
    <3>6. r = [b EXCEPT !.kids = k] /\ k \in Seq(Int)
      BY <3>3, <3>4, <3>5
    <3>7. /\ r \in [kind : {"array", "reference", "object"}, kids : Seq(Int), from : AnyToken]
          /\ r.kind = b.kind /\ r.from = b.from /\ r.kids = k
      BY <3>2, <3>6
    <3> QED BY <3>1, <3>5, <3>7 DEF EntityRec
  <2>8. /\ made' \in Seq(EntityRec) /\ Len(made') = Len(base)
        /\ \A e \in 1 .. Len(base) : made'[e] = IF e = p THEN r ELSE base[e]
    BY <1>4, <2>2, <2>5, <2>7
  <2>9. \A e \in 1 .. Len(base) : made'[e].kind = base[e].kind /\ made'[e].from = base[e].from
    BY <2>7, <2>8
  <2>10. \A e \in 1 .. Len(made) :
           made'[e].kids = IF e = p THEN Append(made[e].kids, v) ELSE made[e].kids
    <3> SUFFICES ASSUME NEW e \in 1 .. Len(made)
                 PROVE  made'[e].kids = IF e = p THEN Append(made[e].kids, v) ELSE made[e].kids
      OBVIOUS
    <3>1. e \in 1 .. Len(base) /\ base[e] = made[e]
      BY <1>1, <1>4
    <3>2. made'[e] = IF e = p THEN r ELSE base[e]
      BY <2>8, <3>1
    <3>3. CASE e = p
      <4>1. made'[e].kids = Append(base[p].kids, v) /\ base[p].kids = made[e].kids
        BY <2>7, <3>1, <3>2, <3>3
      <4> QED BY <3>3, <4>1
    <3>4. CASE e # p
      BY <3>1, <3>2, <3>4
    <3> QED BY <3>3, <3>4
  <2>11. \A e \in Len(made) + 1 .. Len(made') : made'[e].kids = <<>>
    BY <1>1, <1>4, <2>2, <2>8
  <2>12. \A e \in 1 .. Len(made) : made'[e].kind = made[e].kind /\ made'[e].from = made[e].from
    BY <1>1, <1>4, <2>9
  <2>13. Grown(made, made', p, v)
    BY <1>1, <1>4, <2>2, <2>8, <2>10, <2>11, <2>12 DEF Grown
  <2> QED BY <1>3, <2>1, <2>8, <2>9, <2>13
<1> QED BY <1>6, <1>7

(* Tasks that read n values into e, alone or before the end of a wrapper.  *)
LEMMA TasksFor ==
  ASSUME NEW reads \in Seq(DecTask), NEW e, \A i \in DOMAIN reads : Fills(reads[i], e)
  PROVE  /\ Sum(reads, Reads(e)) = Len(reads)
         /\ \A w \in DecTask : w.do # "read" =>
              /\ reads \o <<w>> \in Seq(DecTask) /\ Sum(reads \o <<w>>, Reads(e)) = Len(reads)
              /\ \A i \in DOMAIN (reads \o <<w>>) :
                   \/ Fills((reads \o <<w>>)[i], e)
                   \/ i = Len(reads \o <<w>>) /\ (reads \o <<w>>)[i] = w
              /\ \E i \in DOMAIN (reads \o <<w>>) : (reads \o <<w>>)[i] = w
<1>1. Reads(e) \in [DecTask -> SUBSET Nat] /\ \A t \in DecTask : IsFiniteSet(Reads(e)[t])
  BY ReadsCounts
<1>2. \A i \in DOMAIN reads : Reads(e)[reads[i]] = {1}
  BY ReadsCounts
<1>3. Sum(reads, Reads(e)) = Len(reads)
  BY <1>1, <1>2, SumOnes
<1>4. ASSUME NEW w \in DecTask, w.do # "read"
      PROVE  /\ reads \o <<w>> \in Seq(DecTask) /\ Sum(reads \o <<w>>, Reads(e)) = Len(reads)
             /\ \A i \in DOMAIN (reads \o <<w>>) :
                  \/ Fills((reads \o <<w>>)[i], e)
                  \/ i = Len(reads \o <<w>>) /\ (reads \o <<w>>)[i] = w
             /\ \E i \in DOMAIN (reads \o <<w>>) : (reads \o <<w>>)[i] = w
  <2>1. <<w>> \in Seq(DecTask) /\ Len(<<w>>) = 1 /\ <<w>>[1] = w
    OBVIOUS
  <2>2. Len(reads) \in Nat /\ DOMAIN reads = 1 .. Len(reads)
    BY LenProperties
  <2>3. ~ Fills(w, e)
    BY <1>4 DEF Fills
  <2>4. Sum(<<w>>, Reads(e)) = 0
    BY <1>1, <2>3, ReadsCounts, SumSmall
  <2>5. Sum(reads \o <<w>>, Reads(e)) = Len(reads)
    <3>1. PICK one : one = <<w>>
      OBVIOUS
    <3>2. one \in Seq(DecTask) /\ Sum(one, Reads(e)) = 0
      BY <2>1, <2>4, <3>1
    <3>3. Sum(reads \o one, Reads(e)) = Sum(reads, Reads(e)) + Sum(one, Reads(e))
      BY <1>1, <3>2, SumConcat
    <3>4. Sum(reads \o one, Reads(e)) = Len(reads)
      BY <1>3, <2>2, <3>2, <3>3
    <3> QED BY <3>1, <3>4
  <2>6. /\ reads \o <<w>> \in Seq(DecTask) /\ Len(reads \o <<w>>) = Len(reads) + 1
        /\ DOMAIN (reads \o <<w>>) = 1 .. Len(reads) + 1
        /\ \A i \in 1 .. Len(reads) : (reads \o <<w>>)[i] = reads[i]
        /\ (reads \o <<w>>)[Len(reads) + 1] = w
    BY <2>1, <2>2, ConcatProperties
  <2>7. \A i \in 1 .. Len(reads) + 1 : i \in 1 .. Len(reads) \/ i = Len(reads) + 1
    BY <2>2
  <2> QED BY <2>2, <2>5, <2>6, <2>7
<1> QED BY <1>3, <1>4

(* An action that creates an entity: the list of its tasks.                *)
Wrapper(w, v, kind) ==
  /\ w \in DecTask /\ w.do # "read" /\ w.entity = v
  /\ w.do = "shared" => kind = "array" /\ w.refs = dRefsSeen

TaskList(tasks, v, kind, count) ==
  \E reads \in Seq(DecTask) :
    /\ Len(reads) = count /\ \A i \in DOMAIN reads : Fills(reads[i], v)
    /\ \/ tasks = reads /\ kind # "reference"
       \/ \E w : Wrapper(w, v, kind) /\ tasks = reads \o <<w>> /\ (kind = "reference" => w.do = "reference")

(* Such an action is a ReadStep.                                           *)
LEMMA Creates ==
  ASSUME DecInv, decoded = "running", todo # <<>>, todoHead.do = "read",
         NEW kind \in {"array", "reference", "object"}, NEW from \in AnyToken, NEW tasks,
         kind = "reference" => from.arg = 1,
         Store(Append(made, [kind |-> kind, kids |-> <<>>, from |-> from]), new),
         ThenRead(tasks), TaskList(tasks, new, kind, from.arg),
         ids' = ids \/ (Register(new) /\ kind # "array"),
         dRefsSeen' = IF kind = "reference" THEN dRefsSeen + 1 ELSE dRefsSeen,
         pos' \in 0 .. Len(frame), UNCHANGED <<maxDepth, frame, decoded>>
  PROVE  ReadStep(new, tasks)
<1> DEFINE rec == [kind |-> kind, kids |-> <<>>, from |-> from]
           base == Append(made, rec)
<1>1. made \in Seq(EntityRec) /\ Len(made) \in Nat /\ new = Len(made) + 1 /\ dRefsSeen \in Nat
  BY MadeTyped DEF new
<1>2. rec \in EntityRec /\ rec.kind = kind /\ rec.from = from /\ rec.kids = <<>>
  BY DEF EntityRec
<1> HIDE DEF rec
<1>3. /\ base \in Seq(EntityRec) /\ Len(base) = Len(made) + 1
      /\ \A e \in 1 .. Len(made) : base[e] = made[e]
      /\ base[Len(made) + 1] = rec
  BY <1>1, <1>2, AppendProperties
<1>4. Store(base, new)
  BY DEF rec
<1> HIDE DEF base
<1>5. /\ Grown(made, made', todoHead.into, new)
      /\ Len(made') = Len(base)
      /\ \A e \in 1 .. Len(base) : made'[e].kind = base[e].kind /\ made'[e].from = base[e].from
      /\ result' = IF todoHead.into = 0 THEN new ELSE result
  <2>1. new \in {DScalar, DNull} \cup 1 .. Len(base) /\ Len(made) <= Len(base)
    BY <1>1, <1>3
  <2>2. \A e \in Len(made) + 1 .. Len(base) : base[e].kids = <<>>
    BY <1>1, <1>2, <1>3
  <2> QED BY <1>3, <1>4, <2>1, <2>2, StoreGrows
<1>6. Len(made') = new /\ made'[new].kind = kind /\ made'[new].from = from
  BY <1>1, <1>2, <1>3, <1>5
<1>7. PICK reads \in Seq(DecTask) :
        /\ Len(reads) = from.arg /\ \A i \in DOMAIN reads : Fills(reads[i], new)
        /\ \/ tasks = reads /\ kind # "reference"
           \/ \E w : Wrapper(w, new, kind) /\ tasks = reads \o <<w>> /\ (kind = "reference" => w.do = "reference")
  BY DEF TaskList
<1>8. /\ tasks \in Seq(DecTask) /\ from.arg = Sum(tasks, Reads(new))
      /\ \A i \in DOMAIN tasks :
           /\ IF tasks[i].do = "read" THEN tasks[i].into = new
              ELSE tasks[i].entity = new /\ i = Len(tasks)
           /\ tasks[i].do = "shared" => kind = "array" /\ tasks[i].refs = dRefsSeen
      /\ kind = "reference" => \E i \in DOMAIN tasks : tasks[i].do = "reference"
  <2>1. CASE tasks = reads /\ kind # "reference"
    <3>1. Sum(reads, Reads(new)) = Len(reads)
      BY <1>7, TasksFor
    <3>2. \A i \in DOMAIN reads : reads[i].do = "read" /\ reads[i].into = new
      BY <1>7 DEF Fills
    <3> QED BY <1>7, <2>1, <3>1, <3>2
  <2>2. ASSUME NEW w, Wrapper(w, new, kind), tasks = reads \o <<w>>, kind = "reference" => w.do = "reference"
        PROVE  /\ tasks \in Seq(DecTask) /\ from.arg = Sum(tasks, Reads(new))
               /\ \A i \in DOMAIN tasks :
                    /\ IF tasks[i].do = "read" THEN tasks[i].into = new
                       ELSE tasks[i].entity = new /\ i = Len(tasks)
                    /\ tasks[i].do = "shared" => kind = "array" /\ tasks[i].refs = dRefsSeen
               /\ kind = "reference" => \E i \in DOMAIN tasks : tasks[i].do = "reference"
    <3>1. /\ tasks \in Seq(DecTask) /\ Sum(tasks, Reads(new)) = Len(reads)
          /\ \A i \in DOMAIN tasks :
               \/ Fills(tasks[i], new)
               \/ i = Len(tasks) /\ tasks[i] = w
          /\ \E i \in DOMAIN tasks : tasks[i] = w
      <4>1. w \in DecTask /\ w.do # "read"
        BY <2>2 DEF Wrapper
      <4>2. /\ reads \o <<w>> \in Seq(DecTask) /\ Sum(reads \o <<w>>, Reads(new)) = Len(reads)
            /\ \A i \in DOMAIN (reads \o <<w>>) :
                 \/ Fills((reads \o <<w>>)[i], new)
                 \/ i = Len(reads \o <<w>>) /\ (reads \o <<w>>)[i] = w
            /\ \E i \in DOMAIN (reads \o <<w>>) : (reads \o <<w>>)[i] = w
        BY <1>7, <4>1, TasksFor
      <4> QED BY <2>2, <4>2
    <3> QED BY <1>7, <2>2, <3>1 DEF Fills, Wrapper
  <2> QED BY <1>7, <2>1, <2>2
<1>9. TakesValue(new, tasks)
  BY <1>5, <1>8 DEF TakesValue, ThenRead
<1>10. NewEntity(new, tasks)
  <2>1. kind = "reference" => made'[new].from.arg = 1
    BY <1>6
  <2>2. dRefsSeen' = dRefsSeen + (IF made'[new].kind = "reference" THEN 1 ELSE 0)
    BY <1>1, <1>6
  <2>3. ids' = ids \/ (ids' = Append(ids, new) /\ made'[new].kind # "array")
    BY <1>6 DEF Register
  <2> QED BY <1>6, <1>8, <2>1, <2>2, <2>3 DEF NewEntity
<1> QED BY <1>9, <1>10 DEF ReadStep

(* The tasks that read what a token announces.                             *)
LEMMA ReadTasksTyped ==
  ASSUME NEW count \in Nat, NEW v \in Nat, NEW depth \in Nat
  PROVE  /\ ReadTasks(count, v, depth) \in Seq(DecTask) /\ Len(ReadTasks(count, v, depth)) = count
         /\ \A i \in DOMAIN ReadTasks(count, v, depth) : Fills(ReadTasks(count, v, depth)[i], v)
         /\ <<ReadTask(v, depth, FALSE)>> \in Seq(DecTask) /\ Len(<<ReadTask(v, depth, FALSE)>>) = 1
         /\ \A i \in DOMAIN <<ReadTask(v, depth, FALSE)>> : Fills(<<ReadTask(v, depth, FALSE)>>[i], v)
<1>1. ASSUME NEW hot \in BOOLEAN
      PROVE  ReadTask(v, depth, hot) \in DecTask /\ Fills(ReadTask(v, depth, hot), v)
  BY DEF ReadTask, DecTask, Fills
<1>2. PICK t, h : t = ReadTask(v, depth, FALSE) /\ h = ReadTask(v, depth, TRUE)
  OBVIOUS
<1>3. t \in DecTask /\ Fills(t, v) /\ h \in DecTask /\ Fills(h, v)
  BY <1>1, <1>2
<1>4. ReadTasks(count, v, depth) = [i \in 1 .. count |-> h]
  BY <1>2 DEF ReadTasks
<1>5. PICK r : r = [i \in 1 .. count |-> h]
  OBVIOUS
<1>6. r \in Seq(DecTask) /\ Len(r) = count /\ DOMAIN r = 1 .. count /\ \A i \in DOMAIN r : r[i] = h
  BY <1>3, <1>5
<1>7. <<t>> \in Seq(DecTask) /\ Len(<<t>>) = 1 /\ \A i \in DOMAIN <<t>> : <<t>>[i] = t
  BY <1>3
<1> QED BY <1>2, <1>3, <1>4, <1>5, <1>6, <1>7

(* The values that need no entity of their own.                            *)
LEMMA KnownSteps ==
  ASSUME DecInv, ReadScalar \/ ReadBackReference, maxDepth' = maxDepth
  PROVE  DecInv'
<1>1. ASSUME NEW tags, Reading(tags), NEW v, Store(made, v), Advance, ThenRead(<<>>),
             v \in {DScalar, DNull} \/ \E k \in DOMAIN ids : v = ids[k],
             dRefsSeen' = dRefsSeen + (IF v \in Entities /\ made[v].kind = "reference" THEN 1 ELSE 0),
             UNCHANGED <<frame, ids, decoded>>
      PROVE  DecInv'
  <2>1. /\ decoded = "running" /\ todo # <<>> /\ todoHead.do = "read"
        /\ pos + 1 \in 0 .. Len(frame)
    BY <1>1, ReadingTyped
  <2>2. /\ made \in Seq(EntityRec) /\ Len(made) \in Nat /\ Entities = 1 .. Len(made)
        /\ \A i \in DOMAIN ids : ids[i] \in Entities
    BY MadeTyped
  <2>3. v \in {DScalar, DNull} \cup 1 .. Len(made)
    BY <1>1, <2>2
  <2>4. \A e \in Len(made) + 1 .. Len(made) : made[e].kids = <<>>
    BY <2>2
  <2>5. /\ Grown(made, made', todoHead.into, v)
        /\ Len(made') = Len(made)
        /\ result' = IF todoHead.into = 0 THEN v ELSE result
    BY <1>1, <2>1, <2>2, <2>3, <2>4, StoreGrows
  <2>6. TakesValue(v, <<>>)
    BY <1>1, <2>1, <2>5 DEF TakesValue, Advance, ThenRead
  <2>7. KnownValue(v, <<>>)
    BY <1>1, <2>5 DEF KnownValue
  <2> QED BY <2>6, <2>7, ReadStepKeeps DEF ReadStep
<1>2. dRefsSeen \in Nat /\ 0 \notin Entities /\ -1 \notin Entities
  BY MadeTyped
<1>3. CASE ReadScalar
  <2>1. PICK v : v = IF token.tag = "null" THEN DNull ELSE DScalar
    OBVIOUS
  <2>2. v \in {DScalar, DNull} /\ v \notin Entities
    BY <1>2, <2>1 DEF DScalar, DNull
  <2>3. Reading(ScalarTags) /\ Store(made, v) /\ Advance /\ ThenRead(<<>>)
        /\ UNCHANGED <<frame, ids, dRefsSeen, decoded>>
    BY <1>3, <2>1 DEF ReadScalar
  <2>4. dRefsSeen' = dRefsSeen + (IF v \in Entities /\ made[v].kind = "reference" THEN 1 ELSE 0)
    BY <1>2, <2>2, <2>3
  <2> QED BY <1>1, <2>2, <2>3, <2>4
<1>4. CASE ReadBackReference
  <2>1. Reading({"ref"}) /\ InTable(token.arg) /\ Advance /\ ThenRead(<<>>) /\ UNCHANGED <<frame, ids, decoded>>
    BY <1>4 DEF ReadBackReference
  <2>2. PICK v : v = ids[token.arg + 1]
    OBVIOUS
  <2>3. Store(made, v) /\ dRefsSeen' = dRefsSeen + (IF made[v].kind = "reference" THEN 1 ELSE 0)
    BY <1>4, <2>2 DEF ReadBackReference
  <2>4. token.arg \in Nat
    BY <2>1, ReadingTyped
  <2>5. ids \in Seq(Nat) /\ \A i \in DOMAIN ids : ids[i] \in Entities
    BY MadeTyped
  <2>6. token.arg + 1 \in DOMAIN ids
    BY <2>1, <2>4, <2>5, LenProperties DEF InTable
  <2>7. v \in Entities /\ \E k \in DOMAIN ids : v = ids[k]
    BY <2>2, <2>5, <2>6
  <2>8. dRefsSeen' = dRefsSeen + (IF v \in Entities /\ made[v].kind = "reference" THEN 1 ELSE 0)
    BY <2>3, <2>7
  <2> QED BY <1>1, <2>1, <2>3, <2>7, <2>8
<1> QED BY <1>3, <1>4

(* The values that make an entity.                                         *)
LEMMA CreateSteps ==
  ASSUME DecInv, maxDepth' = maxDepth,
         ReadArray \/ ReadSharedArray \/ ReadNewReference \/ ReadObject \/ ReadMagicObject
  PROVE  DecInv'
<1>1. ASSUME NEW tags, Reading(tags), NEW kind \in {"array", "reference", "object"}, NEW from \in AnyToken,
             NEW tasks, kind = "reference" => from.arg = 1,
             Store(Append(made, [kind |-> kind, kids |-> <<>>, from |-> from]), new),
             ThenRead(tasks), TaskList(tasks, new, kind, from.arg),
             ids' = ids \/ (Register(new) /\ kind # "array"),
             dRefsSeen' = IF kind = "reference" THEN dRefsSeen + 1 ELSE dRefsSeen,
             pos' \in 0 .. Len(frame), UNCHANGED <<frame, decoded>>
      PROVE  DecInv'
  <2>1. decoded = "running" /\ todo # <<>> /\ todoHead.do = "read"
    BY <1>1, ReadingTyped
  <2>2. UNCHANGED <<maxDepth, frame, decoded>>
    BY <1>1
  <2>3. ReadStep(new, tasks)
    BY <1>1, <2>1, <2>2, Creates
  <2>4. PICK v : v = new
    OBVIOUS
  <2> QED BY <2>3, <2>4, ReadStepKeeps
<1>2. new \in Nat
  BY MadeTyped DEF new
<1>3. ASSUME NEW tags, Reading(tags)
      PROVE  /\ token \in AnyToken /\ token.tag \in tags /\ token.arg \in Nat /\ todoHead.depth + 1 \in Nat
             /\ token.tag \in {"new_ref", "magic"} => token.arg = 1
             /\ pos + 1 \in 0 .. Len(frame)
             /\ pos + 1 < Len(frame) =>
                  frame[pos + 2] \in AnyToken /\ frame[pos + 2].arg \in Nat /\ pos + 2 \in 0 .. Len(frame)
  BY <1>3, ReadingTyped
<1>4. ASSUME NEW count \in Nat, NEW kind, kind # "reference", todoHead.depth + 1 \in Nat
      PROVE  TaskList(ReadTasks(count, new, todoHead.depth + 1), new, kind, count)
  BY <1>2, <1>4, ReadTasksTyped DEF TaskList
<1>5. CASE ReadArray
  <2>1. /\ Reading({"array"}) /\ Store(Create("array"), new)
        /\ Advance /\ ThenRead(ReadTasks(token.arg, new, todoHead.depth + 1))
        /\ UNCHANGED <<frame, ids, dRefsSeen, decoded>>
    BY <1>5 DEF ReadArray
  <2>2. TaskList(ReadTasks(token.arg, new, todoHead.depth + 1), new, "array", token.arg)
    BY <1>3, <1>4, <2>1
  <2>3. token \in AnyToken /\ pos' \in 0 .. Len(frame)
    BY <1>3, <2>1 DEF Advance
  <2>4. Store(Append(made, [kind |-> "array", kids |-> <<>>, from |-> token]), new)
    BY <2>1 DEF Create
  <2>5. PICK f, tasks : f = token /\ tasks = ReadTasks(token.arg, new, todoHead.depth + 1)
    OBVIOUS
  <2> QED BY <1>1, <2>1, <2>2, <2>3, <2>4, <2>5
<1>6. CASE ReadObject
  <2>1. /\ Reading({"object", "leaf"}) /\ Store(Create("object"), new) /\ Register(new)
        /\ Advance /\ ThenRead(ReadTasks(token.arg, new, todoHead.depth + 1))
        /\ UNCHANGED <<frame, dRefsSeen, decoded>>
    BY <1>6 DEF ReadObject
  <2>2. TaskList(ReadTasks(token.arg, new, todoHead.depth + 1), new, "object", token.arg)
    BY <1>3, <1>4, <2>1
  <2>3. token \in AnyToken /\ pos' \in 0 .. Len(frame)
    BY <1>3, <2>1 DEF Advance
  <2>4. Store(Append(made, [kind |-> "object", kids |-> <<>>, from |-> token]), new)
    BY <2>1 DEF Create
  <2>5. PICK f, tasks : f = token /\ tasks = ReadTasks(token.arg, new, todoHead.depth + 1)
    OBVIOUS
  <2> QED BY <1>1, <2>1, <2>2, <2>3, <2>4, <2>5
<1>7. CASE ReadSharedArray
  <2>1. PICK f : f = frame[pos + 2]
    OBVIOUS
  <2>2. PICK w : w = [do |-> "shared", entity |-> new, refs |-> dRefsSeen]
    OBVIOUS
  <2>3. /\ Reading({"shared"}) /\ NextTagIs("array") /\ pos' = pos + 2
        /\ Store(Append(made, [kind |-> "array", kids |-> <<>>, from |-> f]), new)
        /\ ThenRead(ReadTasks(f.arg, new, todoHead.depth + 1) \o <<w>>)
        /\ UNCHANGED <<frame, ids, dRefsSeen, decoded>>
    BY <1>7, <2>1, <2>2 DEF ReadSharedArray
  <2>4. f \in AnyToken /\ f.arg \in Nat /\ pos' \in 0 .. Len(frame) /\ todoHead.depth + 1 \in Nat
    BY <1>3, <2>1, <2>3 DEF NextTagIs
  <2>5. Wrapper(w, new, "array")
    BY <1>2, <2>2, MadeTyped DEF Wrapper, DecTask
  <2>6. TaskList(ReadTasks(f.arg, new, todoHead.depth + 1) \o <<w>>, new, "array", f.arg)
    BY <1>2, <2>4, <2>5, ReadTasksTyped DEF TaskList
  <2>7. PICK tasks : tasks = ReadTasks(f.arg, new, todoHead.depth + 1) \o <<w>>
    OBVIOUS
  <2> QED BY <1>1, <2>3, <2>4, <2>6, <2>7
<1>8. ASSUME NEW kind, NEW w, Wrapper(w, new, kind), kind = "reference" => w.do = "reference",
             todoHead.depth + 1 \in Nat
      PROVE  TaskList(<<ReadTask(new, todoHead.depth + 1, FALSE), w>>, new, kind, 1)
  <2>1. PICK r : r = ReadTask(new, todoHead.depth + 1, FALSE)
    OBVIOUS
  <2>2. <<r>> \in Seq(DecTask) /\ Len(<<r>>) = 1 /\ \A i \in DOMAIN <<r>> : Fills(<<r>>[i], new)
    <3>1. 1 \in Nat
      OBVIOUS
    <3> QED BY <1>2, <1>8, <2>1, <3>1, ReadTasksTyped
  <2>3. <<r, w>> = <<r>> \o <<w>>
    OBVIOUS
  <2>4. TaskList(<<r, w>>, new, kind, 1)
    BY <1>8, <2>2, <2>3 DEF TaskList
  <2> QED BY <2>1, <2>4
<1>9. CASE ReadNewReference
  <2>1. PICK f : f = token
    OBVIOUS
  <2>2. PICK w : w = [do |-> "reference", entity |-> new]
    OBVIOUS
  <2>3. PICK tasks : tasks = <<ReadTask(new, todoHead.depth + 1, FALSE), w>>
    OBVIOUS
  <2>4. /\ Reading({"new_ref"}) /\ Store(Append(made, [kind |-> "reference", kids |-> <<>>, from |-> f]), new)
        /\ Register(new) /\ dRefsSeen' = dRefsSeen + 1 /\ Advance /\ ThenRead(tasks)
        /\ UNCHANGED <<frame, decoded>>
    BY <1>9, <2>1, <2>2, <2>3 DEF ReadNewReference, Create
  <2>5. f \in AnyToken /\ f.arg = 1 /\ pos' \in 0 .. Len(frame) /\ todoHead.depth + 1 \in Nat
    BY <1>3, <2>1, <2>4 DEF Advance
  <2>6. Wrapper(w, new, "reference") /\ w.do = "reference"
    BY <1>2, <2>2 DEF Wrapper, DecTask
  <2>7. TaskList(tasks, new, "reference", f.arg)
    BY <1>8, <2>3, <2>5, <2>6
  <2> QED BY <1>1, <2>4, <2>5, <2>7
<1>10. CASE ReadMagicObject
  <2>1. PICK f : f = token
    OBVIOUS
  <2>2. PICK w : w = [do |-> "magic", entity |-> new]
    OBVIOUS
  <2>3. PICK tasks : tasks = <<ReadTask(new, todoHead.depth + 1, FALSE), w>>
    OBVIOUS
  <2>4. /\ Reading({"magic"}) /\ Store(Append(made, [kind |-> "object", kids |-> <<>>, from |-> f]), new)
        /\ Register(new) /\ Advance /\ ThenRead(tasks)
        /\ UNCHANGED <<frame, dRefsSeen, decoded>>
    BY <1>10, <2>1, <2>2, <2>3 DEF ReadMagicObject, Create
  <2>5. f \in AnyToken /\ f.arg = 1 /\ pos' \in 0 .. Len(frame) /\ todoHead.depth + 1 \in Nat
    BY <1>3, <2>1, <2>4 DEF Advance
  <2>6. Wrapper(w, new, "object")
    BY <1>2, <2>2 DEF Wrapper, DecTask
  <2>7. TaskList(tasks, new, "object", f.arg)
    BY <1>8, <2>3, <2>5, <2>6
  <2> QED BY <1>1, <2>4, <2>5, <2>7
<1> QED BY <1>5, <1>6, <1>7, <1>9, <1>10

(* The end of a wrapper: nothing is stored, an id may be registered.       *)
EndStep ==
  /\ decoded = "running" /\ todo # <<>> /\ todoHead.do # "read"
  /\ todo' = <<>> \o Tail(todo)
  /\ ids' = ids \/ Register(todoHead.entity)
  /\ UNCHANGED <<maxDepth, frame, pos, made, dRefsSeen, result, decoded>>

LEMMA EndMoves ==
  ASSUME DecInv, EndStep
  PROVE  /\ todo' \in Seq(DecTask)
         /\ \A i \in DOMAIN todo' : i \in Nat /\ i + 1 \in 2 .. Len(todo) /\ i + 1 \in DOMAIN todo
                                    /\ todo'[i] = todo[i + 1]
         /\ \A i \in DOMAIN todo : i = 1 \/ (i - 1 \in DOMAIN todo' /\ todo'[i - 1] = todo[i])
         /\ \A e : Sum(todo', Reads(e)) = Sum(todo, Reads(e)) /\ Sum(todo, Reads(e)) \in Nat
<1>1. /\ todo \in Seq(DecTask) /\ Len(todo) \in Nat /\ Len(todo) > 0 /\ todo # <<>>
      /\ DOMAIN todo = 1 .. Len(todo) /\ todoHead = Head(todo) /\ todoHead \in DecTask
      /\ todoHead.do # "read"
  BY HeadOfTodo DEF EndStep, todoHead
<1>2. /\ Tail(todo) \in Seq(DecTask) /\ Len(Tail(todo)) = Len(todo) - 1
      /\ \A i \in 1 .. Len(Tail(todo)) : Tail(todo)[i] = todo[i + 1]
  BY <1>1, HeadTailProperties
<1>3. PICK tl : tl = Tail(todo)
  OBVIOUS
<1>4. /\ tl \in Seq(DecTask) /\ Len(tl) = Len(todo) - 1 /\ DOMAIN tl = 1 .. Len(todo) - 1
      /\ \A i \in 1 .. Len(todo) - 1 : tl[i] = todo[i + 1]
  BY <1>2, <1>3
<1>5. todo' = tl
  BY <1>3, <1>4 DEF EndStep
<1>6. ASSUME NEW e
      PROVE  Sum(tl, Reads(e)) = Sum(todo, Reads(e)) /\ Sum(todo, Reads(e)) \in Nat
  <2>1. Reads(e) \in [DecTask -> SUBSET Nat] /\ \A t \in DecTask : IsFiniteSet(Reads(e)[t])
    BY ReadsCounts
  <2>2. ~ Fills(todoHead, e)
    BY <1>1 DEF Fills
  <2>3. Cardinality(Reads(e)[todoHead]) = 0
    BY <1>1, <2>2, ReadsCounts
  <2>4. Sum(todo, Reads(e)) = Cardinality(Reads(e)[Head(todo)]) + Sum(Tail(todo), Reads(e))
    BY <1>1, <2>1, SumHead
  <2>5. Sum(todo, Reads(e)) \in Nat /\ Sum(tl, Reads(e)) \in Nat
    BY <1>1, <1>4, <2>1, MarksFinite
  <2>6. Sum(todo, Reads(e)) = 0 + Sum(tl, Reads(e))
    BY <1>1, <1>3, <2>3, <2>4
  <2> QED BY <2>5, <2>6
<1>7. \A i \in DOMAIN tl : i \in Nat /\ i + 1 \in 2 .. Len(todo) /\ i + 1 \in DOMAIN todo
                           /\ tl[i] = todo[i + 1]
  BY <1>1, <1>4
<1>8. ASSUME NEW i \in DOMAIN todo PROVE i = 1 \/ (i - 1 \in DOMAIN tl /\ tl[i - 1] = todo[i])
  <2>1. i # 1 => i - 1 \in 1 .. Len(todo) - 1 /\ (i - 1) + 1 = i
    BY <1>1
  <2> QED BY <1>4, <2>1
<1> QED BY <1>4, <1>5, <1>6, <1>7, <1>8

(* What such a step keeps whatever it ends.                                *)
LEMMA EndStepTyped ==
  ASSUME DecInv, EndStep
  PROVE  DecTyped' /\ MissingIsComing' /\ ArraysAcyclic'
<1>1. /\ decoded = "running" /\ decoded' = decoded /\ made' = made /\ result' = result
      /\ pos' = pos /\ frame' = frame /\ dRefsSeen' = dRefsSeen /\ maxDepth' = maxDepth
      /\ todo # <<>> /\ todoHead.do # "read"
  BY DEF EndStep
<1>2. /\ todo' \in Seq(DecTask)
      /\ \A i \in DOMAIN todo' : i + 1 \in DOMAIN todo /\ todo'[i] = todo[i + 1]
      /\ \A i \in DOMAIN todo : i = 1 \/ (i - 1 \in DOMAIN todo' /\ todo'[i - 1] = todo[i])
      /\ \A e : Sum(todo', Reads(e)) = Sum(todo, Reads(e))
  BY EndMoves
<1>3. todoHead.entity \in Entities /\ todoHead = todo[1] /\ Entities \subseteq Nat
  BY <1>1, HeadOfTodo, MadeTyped
<1>4. ids' \in Seq(Nat) /\ \A i \in DOMAIN ids' : ids'[i] \in Entities
  <2>1. ids \in Seq(Nat) /\ \A i \in DOMAIN ids : ids[i] \in Entities
    BY MadeTyped
  <2>2. CASE ids' = Append(ids, todoHead.entity)
    <3>1. PICK v : v = todoHead.entity
      OBVIOUS
    <3>2. v \in Nat /\ v \in Entities /\ ids' = Append(ids, v)
      BY <1>3, <2>2, <3>1
    <3>3. ids' \in Seq(Nat) /\ \A i \in DOMAIN ids' : (i \in DOMAIN ids /\ ids'[i] = ids[i]) \/ ids'[i] = v
      BY <2>1, <3>2
    <3> QED BY <2>1, <3>2, <3>3
  <2> QED BY <2>1, <2>2 DEF EndStep, Register
<1>5. DecTypeOK'
  <2>1. DecTypeOK /\ Entities' = Entities
    BY <1>1 DEF DecInv, DecTyped, Entities
  <2>2. \A i \in DOMAIN todo' :
          IF todo'[i].do = "read" THEN todo'[i].into \in {0} \cup Entities
          ELSE todo'[i].entity \in Entities
    BY <1>2, <2>1 DEF DecTypeOK
  <2> QED BY <1>1, <1>4, <2>1, <2>2 DEF DecTypeOK
<1>6. DecTyped'
  BY <1>1, <1>2, <1>4, <1>5 DEF DecInv, DecTyped
<1>7. MissingIsComing'
  <2>1. MissingIsComing /\ Entities' = Entities
    BY <1>1 DEF DecInv, Entities
  <2>2. \A e \in Entities : Len(made[e].kids) + Sum(todo', Reads(e)) = made[e].from.arg
    BY <1>2, <2>1 DEF MissingIsComing
  <2>3. ASSUME NEW i \in DOMAIN todo, Fills(todo[i], 0) PROVE \E j \in DOMAIN todo' : Fills(todo'[j], 0)
    <3>1. i # 1
      BY <1>1, <1>3, <2>3 DEF Fills
    <3> QED BY <1>2, <2>3, <3>1
  <2> QED BY <1>1, <2>1, <2>2, <2>3 DEF MissingIsComing
<1>8. ArraysAcyclic'
  BY <1>1 DEF DecInv, ArraysAcyclic, Entities
<1> QED BY <1>6, <1>7, <1>8

(* References to come, when another wrapper or a checked reference ends.   *)
LEMMA EndStepReferences ==
  ASSUME DecInv, EndStep,
         todoHead.do = "reference" => ~ InnerKindIs(todoHead.entity, "reference")
  PROVE  ReferencesChecked'
<1>1. made' = made /\ todo # <<>> /\ todoHead.do # "read"
  BY DEF EndStep
<1>2. /\ todo' \in Seq(DecTask)
      /\ \A i \in DOMAIN todo' : i \in Nat /\ i + 1 \in DOMAIN todo /\ todo'[i] = todo[i + 1]
      /\ \A i \in DOMAIN todo : i = 1 \/ (i - 1 \in DOMAIN todo' /\ todo'[i - 1] = todo[i])
      /\ \A e : Sum(todo', Reads(e)) = Sum(todo, Reads(e)) /\ Sum(todo, Reads(e)) \in Nat
  BY EndMoves
<1>3. /\ todo \in Seq(DecTask) /\ todoHead.entity \in Entities /\ todoHead = todo[1] /\ 1 \in DOMAIN todo
      /\ DOMAIN todo = 1 .. Len(todo) /\ Len(todo) \in Nat
  BY <1>1, HeadOfTodo
<1>4. /\ \A e \in Entities : made[e].kind = "reference" =>
           /\ made[e].from.arg = 1
           /\ Checked(e) \/ \E i \in DOMAIN todo : todo[i].do = "reference" /\ todo[i].entity = e
      /\ \A i, j \in DOMAIN todo :
           todo[i].do = "reference" /\ i < j => ~ Fills(todo[j], todo[i].entity)
      /\ \A e \in Entities : Len(made[e].kids) + Sum(todo, Reads(e)) = made[e].from.arg
  BY DEF DecInv, ReferencesChecked, MissingIsComing
<1>5. \A e : Checked(e) => Checked(e)'
  BY <1>1, <1>2 DEF Checked, InnerKindIs, Inner
<1>6. ASSUME NEW e \in Entities, made[e].kind = "reference"
      PROVE  /\ made[e].from.arg = 1
             /\ Checked(e)' \/ \E i \in DOMAIN todo' : todo'[i].do = "reference" /\ todo'[i].entity = e
  <2>1. CASE Checked(e)
    BY <1>4, <1>5, <1>6, <2>1
  <2>2. ASSUME NEW i \in DOMAIN todo, i # 1, todo[i].do = "reference", todo[i].entity = e
        PROVE  \E j \in DOMAIN todo' : todo'[j].do = "reference" /\ todo'[j].entity = e
    BY <1>2, <2>2
  <2>3. ASSUME todo[1].do = "reference", todo[1].entity = e
        PROVE  Checked(e)
    <3>1. \A j \in DOMAIN todo : ~ Fills(todo[j], e)
      <4>1. ~ Fills(todo[1], e)
        BY <2>3 DEF Fills
      <4>2. \A j \in DOMAIN todo : j = 1 \/ 1 < j
        BY <1>3
      <4> QED BY <1>3, <1>4, <2>3, <4>1, <4>2
    <3>2. Sum(todo, Reads(e)) = 0
      <4>1. Reads(e) \in [DecTask -> SUBSET Nat] /\ \A t \in DecTask : IsFiniteSet(Reads(e)[t])
        BY ReadsCounts
      <4>2. \A j \in DOMAIN todo : Reads(e)[todo[j]] = {}
        BY <1>3, <3>1, ReadsCounts
      <4> QED BY <1>3, <4>1, <4>2, SumZero
    <3>3. Len(made[e].kids) + 0 = 1
      BY <1>4, <1>6, <3>2
    <3>4. made[e].kids # <<>>
      <4>1. made[e].kids \in Seq(Int)
        BY MadeTyped
      <4> QED BY <3>3, <4>1
    <3>5. ~ InnerKindIs(e, "reference")
      BY <1>3, <2>3
    <3> QED BY <3>2, <3>4, <3>5 DEF Checked
  <2> QED BY <1>4, <1>5, <1>6, <2>1, <2>2, <2>3
<1>7. \A i, j \in DOMAIN todo' :
        todo'[i].do = "reference" /\ i < j => ~ Fills(todo'[j], todo'[i].entity)
  <2> SUFFICES ASSUME NEW i \in DOMAIN todo', NEW j \in DOMAIN todo', todo'[i].do = "reference", i < j
               PROVE  ~ Fills(todo'[j], todo'[i].entity)
    OBVIOUS
  <2>1. i + 1 < j + 1 /\ i + 1 \in DOMAIN todo /\ j + 1 \in DOMAIN todo
    BY <1>2
  <2> QED BY <1>2, <1>4, <2>1
<1> QED BY <1>1, <1>6, <1>7 DEF ReferencesChecked, Entities

(* Shared arrays, when a wrapper ends: the array it registers was sealed.  *)
LEMMA EndStepShared ==
  ASSUME DecInv, EndStep,
         ids' = ids \/ (todoHead.do = "shared" /\ dRefsSeen = todoHead.refs /\ Register(todoHead.entity))
  PROVE  SharedSealed' /\ SharedArraysHoldNoReference'
<1>1. made' = made /\ dRefsSeen' = dRefsSeen /\ todo # <<>>
  BY DEF EndStep
<1>2. /\ todo' \in Seq(DecTask)
      /\ \A i \in DOMAIN todo' : i \in Nat /\ i + 1 \in DOMAIN todo /\ i + 1 \in 2 .. Len(todo)
                                 /\ todo'[i] = todo[i + 1]
  BY EndMoves
<1>3. PICK v : v = todoHead.entity
  OBVIOUS
<1>4. /\ todoHead = todo[1] /\ 1 \in DOMAIN todo /\ v \in Nat /\ v = todo[1].entity
      /\ DOMAIN todo = 1 .. Len(todo) /\ Len(todo) \in Nat
  <2>1. v \in Entities /\ Entities \subseteq Nat
    BY <1>3, HeadOfTodo, MadeTyped DEF EndStep
  <2> QED BY <1>1, <1>3, <2>1, HeadOfTodo
<1>5. /\ \A i \in DOMAIN ids : made[ids[i]].kind = "array" =>
           \A j \in DOMAIN todo : Sealed(made, ids[i], todo[j])
      /\ \A i \in DOMAIN todo : todo[i].do = "shared" =>
           /\ made[todo[i].entity].kind = "array"
           /\ todo[i].refs <= dRefsSeen
           /\ todo[i].refs = dRefsSeen => HoldsNoReference(made, todo[i].entity)
           /\ \A j \in DOMAIN todo : i < j => Sealed(made, todo[i].entity, todo[j])
  BY DEF DecInv, SharedSealed
<1>6. \A i \in DOMAIN ids : made[ids[i]].kind = "array" => HoldsNoReference(made, ids[i])
  BY DEF DecInv, SharedArraysHoldNoReference, HoldsNoReference
<1>7. ASSUME NEW i \in DOMAIN ids', made[ids'[i]].kind = "array"
      PROVE  /\ HoldsNoReference(made, ids'[i])
             /\ \A j \in 2 .. Len(todo) : Sealed(made, ids'[i], todo[j])
  <2>1. ASSUME NEW k \in DOMAIN ids, ids'[i] = ids[k]
        PROVE  /\ HoldsNoReference(made, ids'[i])
               /\ \A j \in 2 .. Len(todo) : Sealed(made, ids'[i], todo[j])
    <3>1. \A j \in 2 .. Len(todo) : j \in DOMAIN todo
      BY <1>4
    <3> QED BY <1>5, <1>6, <1>7, <2>1, <3>1
  <2>2. CASE ids' = ids
    BY <2>1, <2>2
  <2>3. CASE todoHead.do = "shared" /\ dRefsSeen = todoHead.refs /\ ids' = Append(ids, v)
    <3>1. ids \in Seq(Nat)
      BY MadeTyped
    <3>2. (i \in DOMAIN ids /\ ids'[i] = ids[i]) \/ ids'[i] = v
      BY <1>4, <2>3, <3>1
    <3>3. ASSUME ids'[i] = v
          PROVE  /\ HoldsNoReference(made, ids'[i])
                 /\ \A j \in 2 .. Len(todo) : Sealed(made, ids'[i], todo[j])
      <4>1. HoldsNoReference(made, v) /\ \A j \in DOMAIN todo : 1 < j => Sealed(made, v, todo[j])
        BY <1>4, <1>5, <2>3
      <4>2. \A j \in 2 .. Len(todo) : j \in DOMAIN todo /\ 1 < j
        BY <1>4
      <4> QED BY <3>3, <4>1, <4>2
    <3> QED BY <2>1, <3>2, <3>3
  <2> QED BY <1>3, <2>2, <2>3 DEF Register
<1>8. SharedArraysHoldNoReference'
  BY <1>1, <1>7 DEF SharedArraysHoldNoReference, HoldsNoReference
<1>9. ASSUME NEW i \in DOMAIN ids', made'[ids'[i]].kind = "array", NEW j \in DOMAIN todo'
      PROVE  Sealed(made', ids'[i], todo'[j])
  BY <1>1, <1>2, <1>7, <1>9
<1>10. ASSUME NEW i \in DOMAIN todo', todo'[i].do = "shared"
       PROVE  /\ made'[todo'[i].entity].kind = "array"
              /\ todo'[i].refs <= dRefsSeen'
              /\ todo'[i].refs = dRefsSeen' => HoldsNoReference(made', todo'[i].entity)
              /\ \A j \in DOMAIN todo' : i < j => Sealed(made', todo'[i].entity, todo'[j])
  <2>1. PICK k : k = i + 1
    OBVIOUS
  <2>2. k \in DOMAIN todo /\ todo'[i] = todo[k]
    BY <1>2, <2>1
  <2>3. \A j \in DOMAIN todo' : i < j => k < j + 1
    BY <1>2, <2>1
  <2> QED BY <1>1, <1>2, <1>5, <1>10, <2>2, <2>3
<1> QED BY <1>8, <1>9, <1>10 DEF SharedSealed

(* The ends of wrappers keep the invariant.                                *)
LEMMA EndStepsKeep ==
  ASSUME DecInv, maxDepth' = maxDepth,
         SharedArrayComplete \/ ReferenceComplete \/ MagicObjectComplete
  PROVE  DecInv'
<1>1. /\ EndStep
      /\ todoHead.do = "reference" => ~ InnerKindIs(todoHead.entity, "reference")
      /\ ids' = ids \/ (todoHead.do = "shared" /\ dRefsSeen = todoHead.refs /\ Register(todoHead.entity))
  BY DEF SharedArrayComplete, ReferenceComplete, MagicObjectComplete, EndStep, ThenRead
<1> QED BY <1>1, EndStepTyped, EndStepReferences, EndStepShared DEF DecInv

----------------------------------------------------------------------------
(* Start and end of a decode.                                              *)

(* A decode starts with one task, whatever the frame.                      *)
LEMMA DecoderStarts ==
  ASSUME DecInv, maxDepth' = maxDepth, NEW tokens \in Seq(AnyToken), DecStart(tokens)
  PROVE  DecInv'
<1> DEFINE t == ReadTask(0, 0, FALSE)
<1>1. /\ decoded = "no" /\ frame' = tokens /\ decoded' = "running" /\ todo' = <<t>>
      /\ UNCHANGED <<pos, made, ids, dRefsSeen, result>>
  BY DEF DecStart
<1>2. t \in DecTask /\ Fills(t, 0) /\ t.do = "read" /\ t.into = 0
  BY DEF ReadTask, DecTask, Fills
<1> HIDE DEF t
<1>3. pos = 0 /\ made = <<>> /\ ids = <<>> /\ DecTyped
  BY <1>1 DEF DecInv, DecTyped
<1>4. Entities = {} /\ Entities' = {} /\ DOMAIN ids = {} /\ DOMAIN ids' = {}
  BY <1>1, <1>3 DEF Entities
<1>5. todo' \in Seq(DecTask) /\ DOMAIN todo' = {1} /\ todo'[1] = t
  BY <1>1, <1>2
<1>6. DecTypeOK'
  <2>1. 0 \in 0 .. Len(tokens)
    BY LenProperties
  <2>2. DecTypeOK
    BY <1>3 DEF DecTyped
  <2> QED BY <1>1, <1>2, <1>3, <1>4, <1>5, <2>1, <2>2 DEF DecTypeOK
<1>7. DecTyped'
  BY <1>1, <1>3, <1>5, <1>6 DEF DecTyped
<1>8. MissingIsComing' /\ ReferencesChecked'
  BY <1>1, <1>2, <1>4, <1>5 DEF MissingIsComing, ReferencesChecked
<1>9. SharedSealed' /\ SharedArraysHoldNoReference' /\ ArraysAcyclic'
  BY <1>2, <1>4, <1>5 DEF SharedSealed, SharedArraysHoldNoReference, ArraysAcyclic
<1> QED BY <1>7, <1>8, <1>9 DEF DecInv

(* It ends when something is refused, or when no task is left.             *)
LEMMA DecoderEnds ==
  ASSUME DecInv, maxDepth' = maxDepth, DecFail \/ DecFinish
  PROVE  DecInv'
<1>1. /\ decoded = "running" /\ decoded' \in {"ok", "failed"}
      /\ decoded' = "ok" => todo = <<>> /\ pos = Len(frame)
      /\ UNCHANGED <<frame, pos, todo, made, ids, dRefsSeen, result>>
  BY DEF DecFail, DecFinish
<1>2. DecTyped'
  BY <1>1 DEF DecInv, DecTyped, DecTypeOK, Entities
<1>3. MissingIsComing'
  BY <1>1 DEF DecInv, MissingIsComing, Entities
<1>4. ReferencesChecked'
  BY <1>1 DEF DecInv, ReferencesChecked, Entities, Checked, InnerKindIs, Inner
<1>5. SharedSealed' /\ SharedArraysHoldNoReference' /\ ArraysAcyclic'
  BY <1>1 DEF DecInv, SharedSealed, SharedArraysHoldNoReference, ArraysAcyclic, Entities
<1> QED BY <1>2, <1>3, <1>4, <1>5 DEF DecInv

(* Every step of the decoder keeps its invariant.                          *)
LEMMA DecoderKeeps ==
  ASSUME DecInv, DecNext, maxDepth' = maxDepth
  PROVE  DecInv'
BY KnownSteps, CreateSteps, EndStepsKeep, DecoderEnds DEF DecNext, DecStep

----------------------------------------------------------------------------
(* Encoder and decoder together.                                           *)

(* The decoder's invariant holds before a decode.                          *)
LEMMA DecoderBegins ==
  ASSUME Init
  PROVE  DecInv
<1>1. PICK tokens : DecInit(tokens) /\ (tokens = <<>> \/ tokens \in Frames)
  BY DEF Init
<1>2. tokens \in Seq(AnyToken)
  <2>1. CASE tokens = <<>>
    BY <2>1
  <2>2. CASE tokens \in Frames
    <3>1. tokens \in Seq([tag : WireTags, arg : Nat]) /\ IsWire(tokens)
      BY <2>2, FramesAssumption
    <3>2. Len(tokens) \in Nat /\ DOMAIN tokens = 1 .. Len(tokens)
          /\ tokens = [i \in 1 .. Len(tokens) |-> tokens[i]]
      BY <3>1, LenProperties
    <3>3. \A i \in 1 .. Len(tokens) : tokens[i] \in AnyToken
      <4> SUFFICES ASSUME NEW i \in 1 .. Len(tokens) PROVE tokens[i] \in AnyToken
        OBVIOUS
      <4>1. PICK t : t = tokens[i]
        OBVIOUS
      <4>2. t \in [tag : WireTags, arg : Nat]
        <5>1. \A T : tokens \in Seq(T) => tokens[i] \in T
          OBVIOUS
        <5> QED BY <3>1, <4>1, <5>1, Zenon
      <4>3. t.tag \in {"new_ref", "magic"} => t.arg = 1
        BY <3>1, <3>2, <4>1 DEF IsWire
      <4>4. t \in AnyToken
        BY <4>2, <4>3 DEF AnyToken
      <4> QED BY <4>1, <4>4
    <3>4. tokens \in [1 .. Len(tokens) -> AnyToken]
      BY <3>2, <3>3
    <3> QED BY <3>2, <3>4
  <2> QED BY <1>1, <2>1, <2>2
<1>3. /\ frame = tokens /\ pos = 0 /\ todo = <<>> /\ made = <<>> /\ ids = <<>>
      /\ dRefsSeen = 0 /\ result = NoValue /\ decoded = "no"
  BY <1>1 DEF DecInit
<1>4. maxDepth \in Nat
  BY DepthAssumption DEF Init, EncInit, Idle
<1>5. Entities = {} /\ DOMAIN ids = {} /\ DOMAIN todo = {}
  BY <1>3 DEF Entities
<1>6. DecTyped
  <2>1. 0 \in 0 .. Len(frame)
    BY <1>2, <1>3, LenProperties
  <2>2. DecTypeOK
    BY <1>3, <1>5, <2>1 DEF DecTypeOK
  <2>3. made \in Seq(EntityRec) /\ todo \in Seq(DecTask) /\ ids \in Seq(Nat)
    BY <1>3
  <2> QED BY <1>2, <1>3, <1>4, <2>2, <2>3 DEF DecTyped
<1>7. MissingIsComing /\ ReferencesChecked
  BY <1>3, <1>5 DEF MissingIsComing, ReferencesChecked
<1>8. SharedSealed /\ SharedArraysHoldNoReference /\ ArraysAcyclic
  BY <1>5 DEF SharedSealed, SharedArraysHoldNoReference, ArraysAcyclic
<1> QED BY <1>6, <1>7, <1>8 DEF DecInv

(* A step of one walk leaves the other's invariant alone.                  *)
LEMMA EncoderUnmoved ==
  ASSUME EncInv, UNCHANGED encVars
  PROVE  EncInv'
BY DEF encVars, EncInv, EncTyped, EncTypeOK, TaskType, HooksFirst, WalksNest, HoldsOwed

LEMMA DecoderUnmoved ==
  ASSUME DecInv, UNCHANGED decVars
  PROVE  DecInv'
<1>1. UNCHANGED <<maxDepth, frame, pos, todo, made, ids, dRefsSeen, result, decoded>>
  BY DEF decVars
<1>2. DecTyped'
  BY <1>1 DEF DecInv, DecTyped, DecTypeOK, Entities
<1>3. MissingIsComing'
  BY <1>1 DEF DecInv, MissingIsComing, Entities
<1>4. ReferencesChecked'
  BY <1>1 DEF DecInv, ReferencesChecked, Entities, Checked, InnerKindIs, Inner
<1>5. SharedSealed' /\ SharedArraysHoldNoReference' /\ ArraysAcyclic'
  BY <1>1 DEF DecInv, SharedSealed, SharedArraysHoldNoReference, ArraysAcyclic, Entities
<1> QED BY <1>2, <1>3, <1>4, <1>5 DEF DecInv

(* Both invariants, over every graph, frame and depth limit.               *)
THEOREM WalksInvariant == Spec => [](EncInv /\ DecInv)
<1>1. Init => EncInv /\ DecInv
  BY EncoderBegins, DecoderBegins
<1>2. EncInv /\ DecInv /\ [Next]_vars => (EncInv /\ DecInv)'
  <2> SUFFICES ASSUME EncInv, DecInv, [Next]_vars PROVE EncInv' /\ DecInv'
    OBVIOUS
  <2>1. CASE EncNext /\ UNCHANGED decVars
    <3>1. maxDepth' = maxDepth
      BY <2>1 DEF decVars
    <3> QED BY <2>1, <3>1, EncoderKeeps, DecoderUnmoved
  <2>2. CASE Deliver
    <3>1. DecStart(body) /\ UNCHANGED encVars /\ maxDepth' = maxDepth
      BY <2>2 DEF Deliver, encVars
    <3>2. body \in Seq(AnyToken)
      BY DEF EncInv, EncTyped
    <3> QED BY <3>1, <3>2, EncoderUnmoved, DecoderStarts
  <2>3. CASE Arrive
    <3>1. DecStart(frame) /\ UNCHANGED encVars /\ maxDepth' = maxDepth
      BY <2>3 DEF Arrive, encVars
    <3>2. frame \in Seq(AnyToken)
      BY DEF DecInv, DecTyped
    <3>3. PICK tokens : tokens = frame
      OBVIOUS
    <3> QED BY <3>1, <3>2, <3>3, EncoderUnmoved, DecoderStarts
  <2>4. CASE DecNext /\ UNCHANGED encVars
    <3>1. maxDepth' = maxDepth
      BY <2>4 DEF encVars
    <3> QED BY <2>4, <3>1, EncoderUnmoved, DecoderKeeps
  <2>5. CASE UNCHANGED vars
    <3>1. UNCHANGED encVars /\ UNCHANGED decVars
      BY <2>5 DEF vars
    <3> QED BY <3>1, EncoderUnmoved, DecoderUnmoved
  <2> QED BY <2>1, <2>2, <2>3, <2>4, <2>5 DEF Next, Stop
<1> QED BY <1>1, <1>2, PTL DEF Spec

(* The encoder's variables have their types: every task names a node, an   *)
(* id is claimed by a node.                                                *)
THEOREM EncoderTypes == Spec => []EncTypeOK
<1>1. EncInv => EncTypeOK
  BY DEF EncInv, EncTyped
<1> QED BY <1>1, WalksInvariant, PTL

(* An encode that ended, however it ended, holds no reference it took for  *)
(* a walk: snapshots of arrays and the results of user code are released.  *)
THEOREM WhatIsHeldIsReleased == Spec => []HoldsReleased
<1>1. ASSUME EncInv PROVE HoldsReleased
  <2>1. ASSUME agenda = <<>>, NEW n \in Nodes(graph) PROVE hold[n] = 0
    <3>1. Marks(<<>>, Owed(n)) = {}
      BY DEF Marks
    <3>2. Sum(<<>>, Owed(n)) = 0
      BY <3>1, FS_EmptySet DEF Sum
    <3> QED BY <1>1, <2>1, <3>2 DEF EncInv, HoldsOwed
  <2> QED BY <2>1 DEF HoldsReleased
<1> QED BY <1>1, WalksInvariant, PTL

(* The decoder's variables have their types: a task fills an entity that   *)
(* exists, an id names one.                                                *)
THEOREM DecoderTypes == Spec => []DecTypeOK
<1>1. DecInv => DecTypeOK
  BY DEF DecInv, DecTyped
<1> QED BY <1>1, WalksInvariant, PTL

(* Whatever a frame says, what it builds can be held and torn down by PHP  *)
(* at every moment: no array that several hold contains a reference, every *)
(* cycle passes an object or a reference.  A value that is returned is     *)
(* whole, and in it no reference holds a reference.                        *)
THEOREM DecodedIsWellFormed == Spec => []DecodedWellFormed
<1>1. ASSUME DecInv PROVE DecodedWellFormed
  <2>1. SharedArraysHoldNoReference /\ ArraysAcyclic
    BY <1>1 DEF DecInv
  <2>2. ASSUME decoded = "ok"
        PROVE  todo = <<>> /\ DOMAIN todo = {} /\ pos = Len(frame) /\ result # NoValue
               /\ \A e \in Entities : Sum(todo, Reads(e)) = 0
    <3>1. todo = <<>> /\ pos = Len(frame) /\ DOMAIN todo = {}
      BY <1>1, <2>2 DEF DecInv, MissingIsComing
    <3>2. result # NoValue
      BY <1>1, <2>2, <3>1 DEF DecInv, MissingIsComing
    <3>3. \A e : Marks(<<>>, Reads(e)) = {}
      BY DEF Marks
    <3>4. \A e : Sum(<<>>, Reads(e)) = 0
      BY <3>3, FS_EmptySet DEF Sum
    <3> QED BY <3>1, <3>2, <3>4
  <2>3. NoReferenceToReference
    <3> SUFFICES ASSUME decoded = "ok", NEW e \in Entities, made[e].kind = "reference"
                 PROVE  ~ InnerKindIs(e, "reference")
      BY DEF NoReferenceToReference
    <3>1. Checked(e)
      BY <1>1, <2>2 DEF DecInv, ReferencesChecked
    <3> QED BY <3>1 DEF Checked
  <2>4. NothingMissing
    <3> SUFFICES ASSUME decoded = "ok"
                 PROVE  \A e \in Entities : Len(made[e].kids) = made[e].from.arg
      BY <2>2 DEF NothingMissing
    <3>1. \A e \in Entities : Len(made[e].kids) + 0 = made[e].from.arg
      BY <1>1, <2>2 DEF DecInv, MissingIsComing
    <3>2. \A e \in Entities : Len(made[e].kids) \in Nat
      BY <1>1, MadeTyped, LenProperties
    <3> QED BY <3>1, <3>2
  <2> QED BY <2>1, <2>3, <2>4 DEF DecodedWellFormed
<1> QED BY <1>1, WalksInvariant, PTL

----------------------------------------------------------------------------
(***************************************************************************)
(* Identity.  A node is private when one place holds it, and that place is *)
(* in an array that is itself private, up to the argument: there is one    *)
(* path to it, through arrays only.                                        *)
(***************************************************************************)
PrivateSet(s) ==
  \A n \in s :
    /\ OwnRefcount(graph, n) = 1
    /\ n = 1 \/ \E p \in KidPositions(graph, n) : p[1] \in s /\ Kind(p[1]) \in ArrayKinds
Private == UNION {s \in SUBSET Nodes(graph) : PrivateSet(s)}

ObjectTags == {"object", "leaf", "magic"}
EntityTags == ObjectTags \cup {"array", "new_ref"}
NodeToken  == [tag : WireTags, arg : Nat, node : Nat]

(* The task visits node n, or has begun to.                                *)
Visits(t, n) == (t.do = "value" /\ t.v = n) \/ (t.do = "hook" /\ t.n = n)
Waits(n)     == \E i \in DOMAIN agenda : Visits(agenda[i], n)
WroteIn(tokens, tags, n) ==
  \E i \in DOMAIN tokens : tokens[i].tag \in tags /\ tokens[i].node = n
Wrote(tags, n) == WroteIn(body, tags, n)

(* Whoever writes the token knows the node again.                          *)
TokensNamed ==
  /\ body \in Seq(NodeToken)
  /\ \A i \in DOMAIN body :
       LET t == body[i]
       IN /\ t.tag \in ObjectTags =>
               /\ t.node \in Nodes(graph) /\ Kind(t.node) \in ObjectKinds
               /\ HasId(t.node) \/ t.node \in Private
          /\ t.tag = "new_ref" =>
               t.node \in Nodes(graph) /\ Kind(t.node) = "reference" /\ HasId(t.node)

(* An object and a reference are written once.                             *)
WrittenOnce ==
  \A i, j \in DOMAIN body :
    /\ body[i].tag = body[j].tag \/ {body[i].tag, body[j].tag} \subseteq ObjectTags
    /\ body[i].tag \in ObjectTags \cup {"new_ref"}
    /\ body[i].node = body[j].node
    => i = j

(* A private node is visited once, in the walk of the array that holds it. *)
PrivateOnce ==
  \A n \in Private :
    /\ Waits(n) => ~ Wrote(ObjectTags \cup {"array"}, n)
    /\ \A i, j \in DOMAIN agenda : Visits(agenda[i], n) /\ Visits(agenda[j], n) => i = j
    /\ Waits(n) \/ Wrote(ObjectTags \cup {"array"}, n) =>
         \A p \in KidPositions(graph, n) : Wrote({"array"}, p[1])

(* The value is held by a task to come, so it is not taken for unshared.   *)
Protected(i) ==
  \E j \in DOMAIN agenda :
    /\ i < j /\ agenda[j].do = "release"
    /\ \E k \in DOMAIN agenda[j].held : agenda[j].held[k] = agenda[i].v

(* What is reached through nothing shared, or is held for the walk.        *)
Provenance ==
  \A i \in DOMAIN agenda :
    LET t == agenda[i]
    IN t.do = "value" /\ ~ t.rcn /\ t.v # Scalar /\ Kind(t.v) # "immutable" =>
         \/ t.v = 1 \/ (Protected(i) /\ KidPositions(graph, t.v) # {})
         \/ \E p \in KidPositions(graph, t.v) : p[1] \in Private /\ Kind(p[1]) \in ArrayKinds

(* Ends of walks belong to arrays; a hook's object is written after it.    *)
WalksAndHooks ==
  \A i \in DOMAIN agenda :
    LET t == agenda[i]
    IN /\ t.do = "arrayDone" =>
            Kind(t.n) \in ArrayKinds /\ (t.claimed => body[t.at].tag = "shared")
       /\ t.do = "hook" =>
            /\ Kind(t.n) \in HookKinds /\ ~ Wrote(ObjectTags, t.n)
            /\ IF t.tracked THEN HasId(t.n) ELSE t.n \in Private

KnownAgain == TokensNamed /\ WrittenOnce /\ PrivateOnce /\ Provenance /\ WalksAndHooks
IdentInv == encoded # "none" => KnownAgain

LinkInv ==
  /\ encoded # "no" => agenda = <<>>
  /\ encoded \in {"no", "depth", "exception"} => decoded = "no"
  /\ encoded = "ok" => ~ failed /\ ~ depthExceeded
  /\ encoded = "ok" /\ decoded # "no" => frame = body

----------------------------------------------------------------------------
(* Private nodes.                                                          *)

(* The places that hold a node are finitely many.                          *)
LEMMA HoldersFinite ==
  ASSUME EncInv, agenda # <<>>, NEW n
  PROVE  IsFiniteSet(KidPositions(graph, n)) /\ Cardinality(KidPositions(graph, n)) \in Nat
<1>1. WellFormed(graph)
  BY DEF EncInv, EncTyped
<1> DEFINE V == Nodes(graph) \cup {Scalar}
           X == Seq(V)
           W == [x \in X |-> {i \in DOMAIN x : x[i] = n}]
           s == graph.kids
<1>2. graph.kind \in Seq(Kinds) /\ s \in [Nodes(graph) -> X]
  BY <1>1 DEF WellFormed
<1>3. Nodes(graph) = 1 .. Len(graph.kind) /\ Len(graph.kind) \in Nat
  BY <1>2, LenProperties DEF Nodes
<1>4. \A x \in X : IsFiniteSet(W[x]) /\ W[x] \in SUBSET Nat
  <2> SUFFICES ASSUME NEW x \in X PROVE IsFiniteSet(W[x]) /\ W[x] \in SUBSET Nat
    OBVIOUS
  <2>1. DOMAIN x = 1 .. Len(x) /\ Len(x) \in Nat
    BY LenProperties
  <2>2. IsFiniteSet(DOMAIN x) /\ DOMAIN x \subseteq Nat
    BY <2>1, FS_Interval
  <2>3. W[x] = {i \in DOMAIN x : x[i] = n}
    OBVIOUS
  <2>4. W[x] \subseteq DOMAIN x
    BY <2>3
  <2> HIDE DEF W
  <2> QED BY <2>2, <2>4, FS_Subset
<1>5. KidPositions(graph, n) = Marks(s, W)
  <2>1. DOMAIN s = Nodes(graph) /\ \A m \in Nodes(graph) : s[m] \in X
    BY <1>2
  <2>2. \A m \in Nodes(graph) : W[s[m]] = {i \in DOMAIN graph.kids[m] : graph.kids[m][i] = n}
    BY <2>1
  <2> HIDE DEF W, X
  <2> QED BY <2>1, <2>2 DEF KidPositions, Marks
<1>6. W \in [X -> SUBSET Nat]
  <2>1. W = [x \in X |-> W[x]]
    OBVIOUS
  <2> QED BY <1>4, <2>1
<1>7. s \in Seq(X)
  <2> HIDE DEF X, s
  <2> QED BY <1>2, <1>3
<1>8. IsFiniteSet(Marks(s, W))
  <2> HIDE DEF X, s, W
  <2> QED BY <1>4, <1>6, <1>7, MarksFinite
<1> QED BY <1>5, <1>8, FS_CardinalityType

(* What a count of one means, and that whoever is held has a count.        *)
LEMMA HeldByOne ==
  ASSUME EncInv, agenda # <<>>, NEW n
  PROVE  /\ OwnRefcount(graph, n) \in Nat
         /\ n = 1 \/ KidPositions(graph, n) # {} => OwnRefcount(graph, n) >= 1
         /\ OwnRefcount(graph, n) = 1 =>
              /\ \A p, q \in KidPositions(graph, n) : p = q
              /\ n = 1 => KidPositions(graph, n) = {}
<1> DEFINE H == KidPositions(graph, n)
           c == Cardinality(H)
           a == IF n = 1 THEN 1 ELSE 0
           b == IF n \in graph.outside THEN 1 ELSE 0
<1>1. IsFiniteSet(H) /\ c \in Nat
  BY HoldersFinite
<1>2. OwnRefcount(graph, n) = c + a + b
  BY DEF OwnRefcount
<1>3. a \in 0 .. 1 /\ b \in 0 .. 1 /\ (n = 1 => a = 1)
  OBVIOUS
<1> HIDE DEF H
<1>4. c = 0 <=> H = {}
  BY <1>1, FS_EmptySet
<1>5. c = 1 => \A p, q \in H : p = q
  BY <1>1, FS_Singleton
<1> HIDE DEF a, b, c
<1>6. c + a + b = 1 => (c = 0 \/ c = 1) /\ (a = 1 => c = 0)
  BY <1>1, <1>3
<1>7. c + a + b \in Nat /\ (a = 1 \/ c # 0 => c + a + b >= 1)
  BY <1>1, <1>3
<1> QED BY <1>2, <1>3, <1>4, <1>5, <1>6, <1>7 DEF H

(* The private nodes are the largest private set.                          *)
LEMMA PrivateLargest ==
  /\ PrivateSet(Private) /\ Private \subseteq Nodes(graph)
  /\ \A s \in SUBSET Nodes(graph) : PrivateSet(s) => s \subseteq Private
<1>1. \A s \in SUBSET Nodes(graph) : PrivateSet(s) => s \subseteq Private
  BY DEF Private
<1>2. ASSUME NEW n \in Private
      PROVE  /\ OwnRefcount(graph, n) = 1
             /\ n = 1 \/ \E p \in KidPositions(graph, n) : p[1] \in Private /\ Kind(p[1]) \in ArrayKinds
  <2>1. PICK s \in SUBSET Nodes(graph) : PrivateSet(s) /\ n \in s
    BY DEF Private
  <2>2. s \subseteq Private
    BY <1>1, <2>1
  <2> QED BY <2>1, <2>2 DEF PrivateSet
<1> QED BY <1>1, <1>2 DEF PrivateSet, Private

(* A private node has one holder, a private array; the argument has none.  *)
LEMMA PrivateHolder ==
  ASSUME EncInv, agenda # <<>>, NEW n \in Private, NEW p \in KidPositions(graph, n)
  PROVE  /\ p[1] \in Private /\ Kind(p[1]) \in ArrayKinds
         /\ \A q \in KidPositions(graph, n) : q = p
<1>1. OwnRefcount(graph, n) = 1
  BY PrivateLargest DEF PrivateSet
<1>2. n # 1 /\ \A q \in KidPositions(graph, n) : q = p
  BY <1>1, HeldByOne
<1> QED BY <1>2, PrivateLargest DEF PrivateSet

(* A value that a task to come releases has a reference held for it.       *)
LEMMA ProtectedHeld ==
  ASSUME EncInv, agenda # <<>>, NEW i \in DOMAIN agenda, Protected(i),
         agenda[i].v \in Nodes(graph)
  PROVE  hold[agenda[i].v] \in Nat /\ hold[agenda[i].v] >= 1
<1> DEFINE v == agenda[i].v
<1>1. /\ agenda \in Seq(EncTask) /\ hold \in [Nodes(graph) -> Nat]
      /\ \A j \in DOMAIN agenda : agenda[j] \in EncTask
  BY HeadOfAgenda
<1>2. hold[v] = Sum(agenda, Owed(v))
  BY DEF EncInv, HoldsOwed
<1>3. PICK j \in DOMAIN agenda :
        agenda[j].do = "release" /\ \E k \in DOMAIN agenda[j].held : agenda[j].held[k] = v
  BY DEF Protected
<1>4. Owed(v)[agenda[j]] # {}
  BY <1>1, <1>3 DEF Owed, HeldBy
<1>5. Owed(v) \in [EncTask -> SUBSET Nat] /\ \A t \in EncTask : IsFiniteSet(Owed(v)[t])
  BY OwedCounts
<1>6. Sum(agenda, Owed(v)) # 0
  BY <1>1, <1>4, <1>5, SumZero
<1>7. hold[v] \in Nat
  BY <1>1
<1> HIDE DEF v
<1>8. hold[v] # 0
  BY <1>2, <1>6
<1> QED BY <1>7, <1>8 DEF v

(* A node that is visited through nothing shared, and that has one holder, *)
(* is private.                                                             *)
LEMMA UnsharedIsPrivate ==
  ASSUME EncInv, Provenance, IsValue, ~ task.rcn, NEW n \in Nodes(graph), n = task.v,
         Kind(n) # "immutable", ~ (Refcount(n) > 1)
  PROVE  n \in Private
<1>1. /\ agenda # <<>> /\ task.do = "value" /\ 1 \in DOMAIN agenda /\ task = agenda[1]
      /\ hold \in [Nodes(graph) -> Nat]
  BY HeadOfAgenda DEF IsValue
<1>2. n \in Nat /\ n # Scalar
  <2>1. graph.kind \in Seq(Kinds)
    BY <1>1 DEF EncInv, EncTyped, WellFormed
  <2>2. Nodes(graph) = 1 .. Len(graph.kind) /\ Len(graph.kind) \in Nat
    BY <2>1, LenProperties DEF Nodes
  <2> QED BY <2>2 DEF Scalar
<1>3. \/ n = 1 \/ (Protected(1) /\ KidPositions(graph, n) # {})
      \/ \E p \in KidPositions(graph, n) : p[1] \in Private /\ Kind(p[1]) \in ArrayKinds
  BY <1>1, <1>2 DEF Provenance
<1> DEFINE o == OwnRefcount(graph, n)
           h == hold[n]
           pin == IF pinsActive /\ claim[n] # NoEntry THEN 1 ELSE 0
<1>4. Refcount(n) = o + h + pin /\ h \in Nat /\ pin \in Nat /\ o \in Nat
  BY <1>1, HeldByOne DEF Refcount
<1>5. o >= 1
  BY <1>1, <1>3, HeldByOne
<1>6. Protected(1) => h >= 1
  BY <1>1, ProtectedHeld
<1> HIDE DEF o, h, pin
<1>7. o = 1 /\ ~ (h >= 1)
  BY <1>4, <1>5
<1>8. CASE n = 1
  <2>1. PrivateSet({n})
    BY <1>7, <1>8 DEF PrivateSet, o
  <2> QED BY <2>1, PrivateLargest
<1>9. CASE \E p \in KidPositions(graph, n) : p[1] \in Private /\ Kind(p[1]) \in ArrayKinds
  <2>1. PrivateSet(Private \cup {n})
    BY <1>7, <1>9, PrivateLargest DEF PrivateSet, o
  <2> QED BY <2>1, PrivateLargest
<1> QED BY <1>3, <1>6, <1>7, <1>8, <1>9

----------------------------------------------------------------------------
(* A step of the encoder's walk, as far as identities go.                  *)

(* What depends on the graph alone stays.                                  *)
LEMMA GraphStays ==
  ASSUME graph' = graph
  PROVE  /\ Private' = Private /\ Nodes(graph)' = Nodes(graph)
         /\ \A n : KidPositions(graph', n) = KidPositions(graph, n)
         /\ \A n : graph'.kind[n] = Kind(n)
BY DEF Private, PrivateSet, OwnRefcount, KidPositions, Kind, Nodes

(* The tokens after a step that writes.                                    *)
LEMMA Appended ==
  ASSUME NEW X, NEW b \in Seq(X), NEW t \in Seq(X), NEW c, c = b \o t
  PROVE  /\ c \in Seq(X) /\ Len(c) = Len(b) + Len(t) /\ Len(b) \in Nat /\ Len(t) \in Nat
         /\ DOMAIN b = 1 .. Len(b) /\ DOMAIN t = 1 .. Len(t) /\ DOMAIN c = 1 .. Len(c)
         /\ \A i \in DOMAIN b : i \in DOMAIN c /\ c[i] = b[i]
         /\ \A i \in DOMAIN t : i + Len(b) \in DOMAIN c /\ c[i + Len(b)] = t[i]
         /\ \A i \in DOMAIN c : \/ i \in DOMAIN b /\ c[i] = b[i]
                                \/ i - Len(b) \in DOMAIN t /\ c[i] = t[i - Len(b)]
<1>1. c \in Seq(X) /\ Len(c) = Len(b) + Len(t) /\ Len(b) \in Nat /\ Len(t) \in Nat
      /\ DOMAIN b = 1 .. Len(b) /\ DOMAIN t = 1 .. Len(t) /\ DOMAIN c = 1 .. Len(c)
      /\ \A i \in 1 .. Len(c) : c[i] = IF i <= Len(b) THEN b[i] ELSE t[i - Len(b)]
  BY ConcatProperties, LenProperties
<1>2. \A i \in DOMAIN b : i \in DOMAIN c /\ c[i] = b[i]
  BY <1>1
<1>3. ASSUME NEW i \in DOMAIN t PROVE i + Len(b) \in DOMAIN c /\ c[i + Len(b)] = t[i]
  <2>1. i + Len(b) \in 1 .. Len(c) /\ ~ (i + Len(b) <= Len(b)) /\ i + Len(b) - Len(b) = i
    BY <1>1
  <2> QED BY <1>1, <2>1
<1>4. ASSUME NEW i \in DOMAIN c
      PROVE  \/ i \in DOMAIN b /\ c[i] = b[i]
             \/ i - Len(b) \in DOMAIN t /\ c[i] = t[i - Len(b)]
  BY <1>1
<1> QED BY <1>1, <1>2, <1>3, <1>4

(* What a step that visits node n, or none, writes.                        *)
Names(tokens, n) ==
  /\ tokens \in Seq(NodeToken)
  /\ \A i \in DOMAIN tokens : tokens[i].tag \in EntityTags =>
       /\ n \in Nodes(graph) /\ tokens[i].node = n /\ Visits(task, n)
       /\ tokens[i].tag \in ObjectTags =>
            Kind(n) \in ObjectKinds /\ ~ Wrote(ObjectTags, n) /\ (claim'[n] >= 0 \/ n \in Private)
       /\ tokens[i].tag = "new_ref" =>
            Kind(n) = "reference" /\ ~ Wrote({"new_ref"}, n) /\ claim'[n] >= 0
  /\ \A i, j \in DOMAIN tokens :
       {tokens[i].tag, tokens[j].tag} \subseteq ObjectTags \cup {"new_ref"} => i = j

(* Private nodes it is going to visit: the one it visits already, or those *)
(* held by an array whose walk it begins.                                  *)
Announces(tasks, tokens, n) ==
  \/ \A i \in DOMAIN tasks, k \in Private : ~ Visits(tasks[i], k)
  \/ /\ tokens = <<>> /\ Visits(task, n)
     /\ \A i \in DOMAIN tasks : i = 1 /\ \A k \in Private : Visits(tasks[i], k) => k = n
  \/ /\ Visits(task, n) /\ WroteIn(tokens, {"array"}, n)
     /\ \A i \in DOMAIN tasks, k \in Private :
          Visits(tasks[i], k) => <<n, i>> \in KidPositions(graph, k)

HolderIsPrivateArray(v) ==
  \E p \in KidPositions(graph, v) : p[1] \in Private /\ Kind(p[1]) \in ArrayKinds
HeldAfter(tasks, i, v) ==
  \E j \in DOMAIN tasks :
    /\ i < j /\ tasks[j].do = "release"
    /\ \E k \in DOMAIN tasks[j].held : tasks[j].held[k] = v

(* How it reaches them, and the other tasks it adds.                       *)
Reaches(tasks, tokens) ==
  \A i \in DOMAIN tasks :
    LET t == tasks[i]
    IN /\ t.do = "value" /\ ~ t.rcn /\ t.v # Scalar /\ Kind(t.v) # "immutable" =>
            \/ HeldAfter(tasks, i, t.v) /\ KidPositions(graph, t.v) # {}
            \/ HolderIsPrivateArray(t.v)
       /\ t.do = "arrayDone" =>
            Kind(t.n) \in ArrayKinds /\ (t.claimed => body'[t.at].tag = "shared")
       /\ t.do = "hook" =>
            /\ tokens = <<>> /\ Kind(t.n) \in HookKinds /\ ~ Wrote(ObjectTags, t.n)
            /\ IF t.tracked THEN claim'[t.n] >= 0 ELSE t.n \in Private

(* The ids of what is written stay.                                        *)
IdsStay ==
  \A k \in Nodes(graph) :
    Wrote(ObjectTags \cup {"new_ref"}, k) /\ HasId(k) => claim'[k] >= 0

(* What is written stays known by its id, and is written once.             *)
LEMMA StepNames ==
  ASSUME KnownAgain, NEW tokens, NEW n, Names(tokens, n), Emit(tokens), graph' = graph, IdsStay
  PROVE  TokensNamed' /\ WrittenOnce'
<1>1. body \in Seq(NodeToken) /\ tokens \in Seq(NodeToken) /\ body' = body \o tokens
  BY DEF KnownAgain, TokensNamed, Names, Emit
<1>2. /\ body' \in Seq(NodeToken) /\ Len(body) \in Nat
      /\ \A i \in DOMAIN body' : \/ i \in DOMAIN body /\ body'[i] = body[i]
                                 \/ i - Len(body) \in DOMAIN tokens /\ body'[i] = tokens[i - Len(body)]
      /\ DOMAIN body' \subseteq Int
  <2>1. PICK c : c = body'
    OBVIOUS
  <2>2. c = body \o tokens
    BY <1>1, <2>1
  <2>3. DOMAIN c = 1 .. Len(c) /\ Len(c) \in Nat
    BY <1>1, <2>2, Appended
  <2> QED BY <1>1, <2>1, <2>2, <2>3, Appended
<1>3. Private' = Private /\ Nodes(graph)' = Nodes(graph) /\ \A k : graph'.kind[k] = Kind(k)
  BY GraphStays
<1>4. /\ \A i \in DOMAIN body :
           /\ body[i].tag \in ObjectTags =>
                /\ body[i].node \in Nodes(graph) /\ Kind(body[i].node) \in ObjectKinds
                /\ HasId(body[i].node) \/ body[i].node \in Private
           /\ body[i].tag = "new_ref" =>
                /\ body[i].node \in Nodes(graph) /\ Kind(body[i].node) = "reference"
                /\ HasId(body[i].node)
      /\ WrittenOnce
  BY DEF KnownAgain, TokensNamed
<1>5. \A i \in DOMAIN tokens :
        /\ tokens[i].tag \in ObjectTags =>
             /\ n \in Nodes(graph) /\ tokens[i].node = n
             /\ Kind(n) \in ObjectKinds /\ ~ Wrote(ObjectTags, n) /\ (claim'[n] >= 0 \/ n \in Private)
        /\ tokens[i].tag = "new_ref" =>
             /\ n \in Nodes(graph) /\ tokens[i].node = n
             /\ Kind(n) = "reference" /\ ~ Wrote({"new_ref"}, n) /\ claim'[n] >= 0
  BY DEF Names, EntityTags
<1>6. \A i \in DOMAIN body : body[i].tag \in ObjectTags \cup {"new_ref"} /\ HasId(body[i].node)
        => claim'[body[i].node] >= 0
  BY <1>4 DEF IdsStay, Wrote, WroteIn
<1>7. TokensNamed'
  <2> SUFFICES ASSUME NEW i \in DOMAIN body'
               PROVE  LET t == body'[i]
                      IN /\ t.tag \in ObjectTags =>
                              /\ t.node \in Nodes(graph) /\ Kind(t.node) \in ObjectKinds
                              /\ claim'[t.node] >= 0 \/ t.node \in Private
                         /\ t.tag = "new_ref" =>
                              t.node \in Nodes(graph) /\ Kind(t.node) = "reference" /\ claim'[t.node] >= 0
    BY <1>2, <1>3 DEF TokensNamed, HasId, Kind
  <2>1. CASE i \in DOMAIN body /\ body'[i] = body[i]
    BY <1>4, <1>6, <2>1
  <2>2. CASE i - Len(body) \in DOMAIN tokens /\ body'[i] = tokens[i - Len(body)]
    BY <1>5, <2>2
  <2> QED BY <1>2, <2>1, <2>2
<1>8. WrittenOnce'
  <2> DEFINE Same(a, b) ==
               /\ a.tag = b.tag \/ {a.tag, b.tag} \subseteq ObjectTags
               /\ a.tag \in ObjectTags \cup {"new_ref"}
               /\ a.node = b.node
  <2>0. "new_ref" \notin ObjectTags
    BY DEF ObjectTags
  <2>1. ASSUME NEW i \in DOMAIN body, NEW j \in DOMAIN tokens, Same(body[i], tokens[j]) PROVE FALSE
    <3>1. tokens[j].tag \in ObjectTags \cup {"new_ref"} /\ tokens[j].node = n /\ body[i].node = n
      BY <1>5, <2>1
    <3>2. CASE tokens[j].tag \in ObjectTags
      <4>1. body[i].tag \in ObjectTags
        BY <2>1, <3>2
      <4>2. Wrote(ObjectTags, n)
        BY <3>1, <4>1 DEF Wrote, WroteIn
      <4> QED BY <1>5, <3>2, <4>2
    <3>3. CASE tokens[j].tag = "new_ref"
      <4>1. body[i].tag = "new_ref"
        BY <2>0, <2>1, <3>3
      <4>2. Wrote({"new_ref"}, n)
        BY <3>1, <4>1 DEF Wrote, WroteIn
      <4> QED BY <1>5, <3>3, <4>2
    <3> QED BY <3>1, <3>2, <3>3
  <2>2. \A i, j \in DOMAIN body : Same(body[i], body[j]) => i = j
    BY <1>4 DEF WrittenOnce
  <2>3. \A i, j \in DOMAIN tokens : Same(tokens[i], tokens[j]) => i = j
    BY DEF Names
  <2>4. \A a, b : Same(a, b) => Same(b, a)
    OBVIOUS
  <2> HIDE DEF Same
  <2>5. \A i, j \in DOMAIN body' : Same(body'[i], body'[j]) => i = j
    <3> SUFFICES ASSUME NEW i \in DOMAIN body', NEW j \in DOMAIN body', Same(body'[i], body'[j])
                 PROVE  i = j
      OBVIOUS
    <3>1. CASE i \in DOMAIN body /\ body'[i] = body[i]
      BY <1>2, <2>1, <2>2, <3>1
    <3>2. CASE i - Len(body) \in DOMAIN tokens /\ body'[i] = tokens[i - Len(body)]
      <4>1. CASE j \in DOMAIN body /\ body'[j] = body[j]
        BY <2>1, <2>4, <3>2, <4>1
      <4>2. CASE j - Len(body) \in DOMAIN tokens /\ body'[j] = tokens[j - Len(body)]
        <5>1. i - Len(body) = j - Len(body)
          BY <2>3, <3>2, <4>2
        <5> QED BY <1>2, <5>1
      <4> QED BY <1>2, <4>1, <4>2
    <3> QED BY <1>2, <3>1, <3>2
  <2> QED BY <2>5 DEF WrittenOnce, Same
<1> QED BY <1>7, <1>8

(* The nodes written are those written before and those of the tokens.     *)
WritesNodes(tokens) ==
  \A k : \A tags \in {ObjectTags \cup {"array"}, {"array"}} :
    WroteIn(body', tags, k) <=> Wrote(tags, k) \/ WroteIn(tokens, tags, k)

(* Private nodes stay visited once.                                        *)
LEMMA StepVisits ==
  ASSUME EncInv, agenda # <<>>, KnownAgain, NEW tasks \in Seq(EncTask), Then(tasks),
         NEW tokens, NEW n, Names(tokens, n), Announces(tasks, tokens, n), WritesNodes(tokens),
         graph' = graph
  PROVE  PrivateOnce'
<1>3. Private' = Private /\ \A k : KidPositions(graph', k) = KidPositions(graph, k)
  BY GraphStays
<1> DEFINE E == ObjectTags \cup {"array"}
<1>4. \A k : \A tags \in {E, {"array"}} :
        WroteIn(body', tags, k) <=> Wrote(tags, k) \/ WroteIn(tokens, tags, k)
  BY DEF WritesNodes
<1>5. \A k : WroteIn(tokens, E, k) => k = n /\ Visits(task, n)
  BY DEF WroteIn, Names, EntityTags
<1>6. /\ agenda \in Seq(EncTask) /\ Len(agenda) \in Nat /\ 1 \in DOMAIN agenda
      /\ DOMAIN agenda = 1 .. Len(agenda) /\ task = agenda[1]
  BY HeadOfAgenda
<1> DEFINE p == Len(tasks)
<1>7. /\ DOMAIN agenda' \subseteq Int /\ p \in Nat /\ DOMAIN tasks = 1 .. p
      /\ \A i \in DOMAIN agenda' :
           \/ i \in DOMAIN tasks /\ i <= p /\ agenda'[i] = tasks[i]
           \/ i > p /\ i - p + 1 \in 2 .. Len(agenda) /\ agenda'[i] = agenda[i - p + 1]
  <2>1. PICK a : a = agenda'
    OBVIOUS
  <2>2. a = tasks \o Tail(agenda)
    BY <2>1 DEF Then
  <2>3. a \in Seq(EncTask)
    BY <1>6, <2>2, Placed
  <2>4. DOMAIN a \subseteq Int
    BY <2>3, LenProperties
  <2> QED BY <1>6, <2>1, <2>2, <2>4, Placed, LenProperties
<1> HIDE DEF p, E
<1>8. /\ \A k \in Private :
           /\ Waits(k) => ~ Wrote(E, k)
           /\ \A i, j \in DOMAIN agenda : Visits(agenda[i], k) /\ Visits(agenda[j], k) => i = j
           /\ Waits(k) \/ Wrote(E, k) => \A q \in KidPositions(graph, k) : Wrote({"array"}, q[1])
  BY DEF KnownAgain, PrivateOnce, E
<1>9. \A i \in 2 .. Len(agenda) : i \in DOMAIN agenda /\ i # 1
  BY <1>6
<1> SUFFICES ASSUME NEW k \in Private
             PROVE  /\ (\E i \in DOMAIN agenda' : Visits(agenda'[i], k)) => ~ WroteIn(body', E, k)
                    /\ \A i, j \in DOMAIN agenda' :
                         Visits(agenda'[i], k) /\ Visits(agenda'[j], k) => i = j
                    /\ (\E i \in DOMAIN agenda' : Visits(agenda'[i], k)) \/ WroteIn(body', E, k) =>
                         \A q \in KidPositions(graph, k) : WroteIn(body', {"array"}, q[1])
  BY <1>3 DEF PrivateOnce, Waits, Visits, Wrote, E
<1>10. CASE \A i \in DOMAIN tasks : ~ Visits(tasks[i], k)
  <2>1. \A i \in DOMAIN agenda' : Visits(agenda'[i], k) =>
          i > p /\ i - p + 1 \in 2 .. Len(agenda) /\ Visits(agenda[i - p + 1], k)
    BY <1>7, <1>10
  <2>2. (\E i \in DOMAIN agenda' : Visits(agenda'[i], k)) => Waits(k) /\ ~ Visits(task, k)
    <3> SUFFICES ASSUME NEW i \in DOMAIN agenda', Visits(agenda'[i], k) PROVE Waits(k) /\ ~ Visits(task, k)
      OBVIOUS
    <3>1. i - p + 1 \in DOMAIN agenda /\ i - p + 1 # 1 /\ Visits(agenda[i - p + 1], k)
      BY <1>9, <2>1
    <3> QED BY <1>6, <1>8, <3>1 DEF Waits
  <2>3. WroteIn(tokens, E, k) => Visits(task, k) /\ Waits(k)
    BY <1>5, <1>6 DEF Waits
  <2>4. \A i, j \in DOMAIN agenda' : Visits(agenda'[i], k) /\ Visits(agenda'[j], k) => i = j
    <3> SUFFICES ASSUME NEW i \in DOMAIN agenda', NEW j \in DOMAIN agenda',
                        Visits(agenda'[i], k), Visits(agenda'[j], k)
                 PROVE  i = j
      OBVIOUS
    <3>1. i - p + 1 = j - p + 1
      BY <1>8, <1>9, <2>1
    <3> QED BY <1>7, <3>1
  <2> QED BY <1>4, <1>8, <2>2, <2>3, <2>4
<1>11. CASE /\ tokens = <<>> /\ Visits(task, n)
            /\ \A i \in DOMAIN tasks : i = 1 /\ \A m \in Private : Visits(tasks[i], m) => m = n
            /\ \E i \in DOMAIN tasks : Visits(tasks[i], k)
  <2>1. k = n /\ Waits(n) /\ p = 1
    <3>1. k = n /\ 1 \in DOMAIN tasks
      BY <1>11
    <3>2. p = 1
      BY <1>7, <1>11
    <3> QED BY <1>6, <1>11, <3>1, <3>2 DEF Waits
  <2>2. \A i \in DOMAIN agenda' : Visits(agenda'[i], k) => i = 1
    <3> SUFFICES ASSUME NEW i \in DOMAIN agenda', Visits(agenda'[i], k), i # 1 PROVE FALSE
      OBVIOUS
    <3>1. i - p + 1 \in 2 .. Len(agenda) /\ Visits(agenda[i - p + 1], k)
      BY <1>7, <1>11
    <3> QED BY <1>6, <1>8, <1>9, <1>11, <2>1, <3>1
  <2>3. ~ WroteIn(tokens, E, k) /\ ~ WroteIn(tokens, {"array"}, k)
    BY <1>11 DEF WroteIn
  <2> QED BY <1>4, <1>8, <2>1, <2>2, <2>3
<1>12. CASE /\ Visits(task, n) /\ WroteIn(tokens, {"array"}, n)
            /\ \A i \in DOMAIN tasks, m \in Private :
                 Visits(tasks[i], m) => <<n, i>> \in KidPositions(graph, m)
            /\ \E i \in DOMAIN tasks : Visits(tasks[i], k)
  <2>1. PICK i0 \in DOMAIN tasks : Visits(tasks[i0], k)
    BY <1>12
  <2>2. <<n, i0>> \in KidPositions(graph, k)
    BY <1>12, <2>1
  <2>3. /\ n \in Private /\ \A q \in KidPositions(graph, k) : q = <<n, i0>>
    BY <2>2, PrivateHolder
  <2>4. Waits(n) /\ ~ Wrote({"array"}, n)
    BY <1>6, <1>8, <1>12, <2>3 DEF Waits, Wrote, WroteIn, E
  <2>5. ~ Waits(k) /\ ~ Wrote(E, k)
    BY <1>8, <2>2, <2>4
  <2>6. k # n
    BY <1>6, <1>12, <2>5 DEF Waits
  <2>7. \A i \in DOMAIN agenda' : Visits(agenda'[i], k) => i = i0
    <3> SUFFICES ASSUME NEW i \in DOMAIN agenda', Visits(agenda'[i], k) PROVE i = i0
      OBVIOUS
    <3>1. ~ (i > p /\ i - p + 1 \in 2 .. Len(agenda) /\ agenda'[i] = agenda[i - p + 1])
      BY <1>9, <2>5 DEF Waits
    <3>2. i \in DOMAIN tasks /\ agenda'[i] = tasks[i]
      BY <1>7, <3>1
    <3>3. <<n, i>> \in KidPositions(graph, k)
      BY <1>12, <3>2
    <3>4. <<n, i>> = <<n, i0>>
      BY <2>3, <3>3
    <3> QED BY <3>4
  <2>8. ~ WroteIn(body', E, k)
    BY <1>4, <1>5, <2>5, <2>6
  <2>9. \A q \in KidPositions(graph, k) : WroteIn(body', {"array"}, q[1])
    BY <1>4, <1>12, <2>3
  <2> QED BY <2>7, <2>8, <2>9
<1> QED BY <1>10, <1>11, <1>12 DEF Announces

(* Values reached stay reached through nothing shared, or held.            *)
LEMMA StepReaches ==
  ASSUME EncInv, agenda # <<>>, KnownAgain, NEW tasks \in Seq(EncTask), Then(tasks),
         NEW tokens, tokens \in Seq(NodeToken), Reaches(tasks, tokens),
         graph' = graph,
         \A i \in DOMAIN agenda : i > 1 /\ agenda[i].do = "arrayDone" /\ agenda[i].claimed =>
           body'[agenda[i].at].tag = body[agenda[i].at].tag,
         tokens = <<>> => body' = body
  PROVE  Provenance' /\ WalksAndHooks'
<1>3. /\ Private' = Private /\ \A k : KidPositions(graph', k) = KidPositions(graph, k)
      /\ \A k : graph'.kind[k] = Kind(k)
  BY GraphStays
<1>6. /\ agenda \in Seq(EncTask) /\ Len(agenda) \in Nat /\ 1 \in DOMAIN agenda
      /\ DOMAIN agenda = 1 .. Len(agenda) /\ task = agenda[1]
  BY HeadOfAgenda
<1> DEFINE p == Len(tasks)
<1>7. /\ DOMAIN agenda' \subseteq Int /\ p \in Nat /\ DOMAIN tasks = 1 .. p
      /\ \A i \in DOMAIN agenda' :
           \/ i \in DOMAIN tasks /\ i <= p /\ agenda'[i] = tasks[i]
           \/ i > p /\ i - p + 1 \in 2 .. Len(agenda) /\ agenda'[i] = agenda[i - p + 1]
      /\ \A i \in DOMAIN tasks : i \in DOMAIN agenda' /\ agenda'[i] = tasks[i]
      /\ \A i \in 2 .. Len(agenda) : i + p - 1 \in DOMAIN agenda' /\ agenda'[i + p - 1] = agenda[i]
  <2>1. PICK a : a = agenda'
    OBVIOUS
  <2>2. a = tasks \o Tail(agenda)
    BY <2>1 DEF Then
  <2>3. Tail(agenda) \in Seq(EncTask) /\ Len(Tail(agenda)) = Len(agenda) - 1
        /\ DOMAIN Tail(agenda) = 1 .. Len(agenda) - 1
        /\ \A i \in 1 .. Len(agenda) - 1 : Tail(agenda)[i] = agenda[i + 1]
    BY <1>6, HeadTailProperties, LenProperties
  <2>4. /\ a \in Seq(EncTask) /\ DOMAIN a = 1 .. Len(a) /\ Len(a) \in Nat
        /\ p \in Nat /\ DOMAIN tasks = 1 .. p
        /\ \A i \in DOMAIN tasks : i \in DOMAIN a /\ a[i] = tasks[i]
        /\ \A i \in DOMAIN Tail(agenda) : i + p \in DOMAIN a /\ a[i + p] = Tail(agenda)[i]
    BY <2>2, <2>3, Appended, LenProperties
  <2>5. \A i \in 2 .. Len(agenda) : i + p - 1 \in DOMAIN a /\ a[i + p - 1] = agenda[i]
    <3> SUFFICES ASSUME NEW i \in 2 .. Len(agenda) PROVE i + p - 1 \in DOMAIN a /\ a[i + p - 1] = agenda[i]
      OBVIOUS
    <3> HIDE DEF p
    <3>1. i - 1 \in DOMAIN Tail(agenda) /\ i - 1 + 1 = i /\ i - 1 + p = i + p - 1
      BY <1>6, <2>3, <2>4
    <3>2. a[i - 1 + p] = Tail(agenda)[i - 1] /\ i - 1 + p \in DOMAIN a
      BY <2>4, <3>1
    <3>3. Tail(agenda)[i - 1] = agenda[i]
      BY <2>3, <3>1
    <3> QED BY <3>1, <3>2, <3>3
  <2>6. DOMAIN a \subseteq Int
    BY <2>4
  <2> QED BY <1>6, <2>1, <2>2, <2>4, <2>5, <2>6, Placed
<1> HIDE DEF p
<1>9. \A i \in 2 .. Len(agenda) : i \in DOMAIN agenda /\ i > 1
  BY <1>6
<1>10. Provenance'
  <2> DEFINE Good(a, i) ==
        a[i].do = "value" /\ ~ a[i].rcn /\ a[i].v # Scalar /\ Kind(a[i].v) # "immutable" =>
         \/ a[i].v = 1 \/ (HeldAfter(a, i, a[i].v) /\ KidPositions(graph, a[i].v) # {})
         \/ HolderIsPrivateArray(a[i].v)
  <2>1. \A i \in DOMAIN agenda : Good(agenda, i)
    BY DEF KnownAgain, Provenance, Protected, HeldAfter, HolderIsPrivateArray
  <2>2. \A i \in DOMAIN tasks : Good(tasks, i)
    BY DEF Reaches
  <2>3. \A i \in DOMAIN agenda' : Good(agenda', i)
    <3> SUFFICES ASSUME NEW i \in DOMAIN agenda' PROVE Good(agenda', i)
      OBVIOUS
    <3>1. CASE i \in DOMAIN tasks /\ i <= p /\ agenda'[i] = tasks[i]
      <4>1. \A v : HeldAfter(tasks, i, v) => HeldAfter(agenda', i, v)
        BY <1>7 DEF HeldAfter
      <4> QED BY <2>2, <3>1, <4>1
    <3>2. CASE i > p /\ i - p + 1 \in 2 .. Len(agenda) /\ agenda'[i] = agenda[i - p + 1]
      <4>1. PICK l \in 2 .. Len(agenda) : l = i - p + 1 /\ agenda'[i] = agenda[l] /\ l \in DOMAIN agenda
        BY <1>9, <3>2
      <4>2. \A v : HeldAfter(agenda, l, v) => HeldAfter(agenda', i, v)
        <5> SUFFICES ASSUME NEW v, NEW j \in DOMAIN agenda, l < j, agenda[j].do = "release",
                            \E k \in DOMAIN agenda[j].held : agenda[j].held[k] = v
                     PROVE  HeldAfter(agenda', i, v)
          BY DEF HeldAfter
        <5>1. j \in 2 .. Len(agenda)
          BY <1>6, <4>1
        <5>2. j + p - 1 \in DOMAIN agenda' /\ agenda'[j + p - 1] = agenda[j]
          BY <1>7, <5>1
        <5>3. i < j + p - 1
          BY <1>7, <4>1, <5>1
        <5> QED BY <5>2, <5>3 DEF HeldAfter
      <4> QED BY <2>1, <4>1, <4>2
    <3> QED BY <1>7, <3>1, <3>2
  <2> QED BY <1>3, <2>3 DEF Provenance, Protected, HeldAfter, HolderIsPrivateArray, Kind
<1>11. WalksAndHooks'
  <2>0. HooksFirst /\ WalksAndHooks
    BY DEF EncInv, KnownAgain
  <2> SUFFICES ASSUME NEW i \in DOMAIN agenda'
               PROVE  LET t == agenda'[i]
                      IN /\ t.do = "arrayDone" =>
                              Kind(t.n) \in ArrayKinds /\ (t.claimed => body'[t.at].tag = "shared")
                         /\ t.do = "hook" =>
                              /\ Kind(t.n) \in HookKinds /\ ~ WroteIn(body', ObjectTags, t.n)
                              /\ IF t.tracked THEN claim'[t.n] >= 0 ELSE t.n \in Private
    BY <1>3 DEF WalksAndHooks, HasId, Kind, Wrote
  <2>1. CASE i \in DOMAIN tasks /\ i <= p /\ agenda'[i] = tasks[i]
    <3>1. tokens = <<>> => body' = body
      OBVIOUS
    <3> QED BY <2>1, <3>1 DEF Reaches, Wrote
  <2>2. CASE i > p /\ i - p + 1 \in 2 .. Len(agenda) /\ agenda'[i] = agenda[i - p + 1]
    <3>1. PICK l \in DOMAIN agenda : l > 1 /\ agenda'[i] = agenda[l]
      BY <1>9, <2>2
    <3>2. agenda[l].do # "hook"
      BY <2>0, <3>1 DEF HooksFirst
    <3>3. agenda[l].do = "arrayDone" =>
            Kind(agenda[l].n) \in ArrayKinds /\ (agenda[l].claimed => body[agenda[l].at].tag = "shared")
      BY <2>0, <3>1 DEF WalksAndHooks
    <3> QED BY <3>1, <3>2, <3>3
  <2> QED BY <1>7, <2>1, <2>2
<1> QED BY <1>10, <1>11

(* A step that visits n, or nothing, and writes at the end.                *)
LEMMA StepKnows ==
  ASSUME EncInv, agenda # <<>>, KnownAgain, NEW tasks \in Seq(EncTask), Then(tasks),
         NEW tokens, NEW n, Names(tokens, n), Announces(tasks, tokens, n), Reaches(tasks, tokens),
         Emit(tokens), graph' = graph, IdsStay
  PROVE  KnownAgain'
<1>1. body \in Seq(NodeToken) /\ tokens \in Seq(NodeToken) /\ body' = body \o tokens
  BY DEF KnownAgain, TokensNamed, Names, Emit
<1>2. \A i \in DOMAIN agenda : i > 1 /\ agenda[i].do = "arrayDone" /\ agenda[i].claimed =>
           body'[agenda[i].at].tag = body[agenda[i].at].tag
  <2>1. \A i \in DOMAIN body : body'[i] = body[i]
    <3>1. PICK c : c = body'
      OBVIOUS
    <3> QED BY <1>1, <3>1, Appended
  <2>2. \A i \in DOMAIN agenda : agenda[i].do = "arrayDone" => agenda[i].at \in 1 .. Len(body)
    BY DEF EncInv, WalksNest
  <2> QED BY <1>1, <2>1, <2>2, LenProperties
<1>3. tokens = <<>> => body' = body
  BY <1>1, ConcatEmptySeq
<1>4. TokensNamed' /\ WrittenOnce'
  BY StepNames
<1>5. PrivateOnce'
  <2>1. PICK c : c = body'
    OBVIOUS
  <2>2. \A k, tags : WroteIn(c, tags, k) <=> Wrote(tags, k) \/ WroteIn(tokens, tags, k)
    <3>1. /\ \A i \in DOMAIN body : i \in DOMAIN c /\ c[i] = body[i]
          /\ \A i \in DOMAIN tokens : i + Len(body) \in DOMAIN c /\ c[i + Len(body)] = tokens[i]
          /\ \A i \in DOMAIN c : \/ i \in DOMAIN body /\ c[i] = body[i]
                                 \/ i - Len(body) \in DOMAIN tokens /\ c[i] = tokens[i - Len(body)]
      BY <1>1, <2>1, Appended
    <3> QED BY <3>1 DEF Wrote, WroteIn
  <2>3. WritesNodes(tokens)
    BY <2>1, <2>2 DEF WritesNodes
  <2> QED BY <2>3, StepVisits
<1>6. Provenance' /\ WalksAndHooks'
  BY <1>1, <1>2, <1>3, StepReaches
<1> QED BY <1>4, <1>5, <1>6 DEF KnownAgain

----------------------------------------------------------------------------
(* Each step of the encoder.                                               *)

(* Tokens are named.                                                       *)
LEMMA TokensAreNamed ==
  /\ \A tag \in WireTags, arg \in Nat, n \in Nat : Token(tag, arg, n) \in NodeToken
  /\ \A n \in Nat : NullFor(n) \in NodeToken
  /\ EncInv /\ agenda # <<>> => \A n \in Nodes(graph) : HasId(n) => RefTo(n) \in NodeToken
<1>1. \A tag \in WireTags, arg \in Nat, n \in Nat : Token(tag, arg, n) \in NodeToken
  BY DEF Token, NodeToken
<1>2. \A n \in Nat : NullFor(n) \in NodeToken
  BY <1>1 DEF NullFor, WireTags, ScalarTags
<1>3. ASSUME EncInv, agenda # <<>>, NEW n \in Nodes(graph), HasId(n) PROVE RefTo(n) \in NodeToken
  <2>1. claim[n] \in Nat /\ n \in Nat
    BY <1>3, GraphTyped, RestTyped DEF EncRest, HasId, NoEntry, Pending, Unshared
  <2> QED BY <1>1, <2>1 DEF RefTo, WireTags, ScalarTags
<1> QED BY <1>1, <1>2, <1>3

(* A token that creates no entity, and nothing to visit.                   *)
LEMMA PlainKnown ==
  ASSUME EncInv, agenda # <<>>, KnownAgain, NEW t \in NodeToken, t.tag \notin EntityTags,
         Emit(<<t>>), NothingMore, graph' = graph, IdsStay
  PROVE  KnownAgain'
<1>1. <<>> \in Seq(EncTask) /\ Then(<<>>) /\ <<t>> \in Seq(NodeToken)
      /\ DOMAIN <<t>> = {1} /\ <<t>>[1] = t
  BY DEF NothingMore
<1>2. Names(<<t>>, 0)
  BY <1>1 DEF Names
<1>3. Announces(<<>>, <<t>>, 0) /\ Reaches(<<>>, <<t>>)
  BY DEF Announces, Reaches
<1> QED BY <1>1, <1>2, <1>3, StepKnows

(* A list of values to visit.                                              *)
ListFor(tasks, values, depth, rcn, element) ==
  /\ tasks \in Seq(EncTask) /\ DOMAIN tasks = DOMAIN values /\ Len(tasks) = Len(values)
  /\ \A i \in DOMAIN values :
       /\ tasks[i].do = "value" /\ tasks[i].v = values[i] /\ tasks[i].depth = depth
       /\ tasks[i].rcn = rcn /\ tasks[i].element = element

(* The tasks for the values of a container are such a list.                *)
LEMMA Listed ==
  ASSUME Values \subseteq Nat, NEW values \in Seq(Values), NEW depth \in Nat,
         NEW rcn \in BOOLEAN, NEW borrowed \in BOOLEAN
  PROVE  /\ ListFor(ValueTasks(values, depth, rcn, borrowed), values, depth, rcn, FALSE)
         /\ ListFor(ElementTasks(values, depth, rcn, borrowed), values, depth, rcn, TRUE)
<1>1. DOMAIN values = 1 .. Len(values) /\ Len(values) \in Nat
  BY LenProperties
<1> DEFINE t(i) == ValueTask(values[i], depth, rcn, borrowed)
           e(i) == [ValueTask(values[i], depth, rcn, borrowed) EXCEPT !.element = TRUE]
           S == ValueTasks(values, depth, rcn, borrowed)
           E == ElementTasks(values, depth, rcn, borrowed)
<1>2. \A i \in DOMAIN values :
        /\ t(i).do = "value" /\ t(i).v = values[i] /\ t(i).depth = depth /\ t(i).rcn = rcn
        /\ t(i).element = FALSE
        /\ e(i).do = "value" /\ e(i).v = values[i] /\ e(i).depth = depth /\ e(i).rcn = rcn
        /\ e(i).element = TRUE
  BY DEF ValueTask
<1>3. S = [i \in DOMAIN values |-> t(i)] /\ E = [i \in DOMAIN values |-> e(i)]
  BY DEF ValueTasks, ElementTasks
<1>4. S \in Seq(EncTask) /\ E \in Seq(EncTask)
  BY ListsPushed DEF ValueList
<1> HIDE DEF t, e, S, E
<1>5. DOMAIN S = 1 .. Len(values) /\ DOMAIN E = 1 .. Len(values)
  BY <1>1, <1>3
<1>6. Len(S) = Len(values) /\ Len(E) = Len(values)
  BY <1>1, <1>4, <1>5, LenProperties
<1>7. \A i \in DOMAIN values : S[i] = t(i) /\ E[i] = e(i)
  BY <1>3
<1>8. ListFor(S, values, depth, rcn, FALSE)
  BY <1>1, <1>2, <1>4, <1>5, <1>6, <1>7 DEF ListFor
<1>9. ListFor(E, values, depth, rcn, TRUE)
  BY <1>1, <1>2, <1>4, <1>5, <1>6, <1>7 DEF ListFor
<1> QED BY <1>8, <1>9 DEF S, E

(* Such a list and one task more.                                          *)
LEMMA ListedAnd ==
  ASSUME NEW list, NEW values, NEW depth, NEW rcn, NEW element,
         ListFor(list, values, depth, rcn, element), NEW t \in EncTask
  PROVE  /\ list \o <<t>> \in Seq(EncTask) /\ Len(list \o <<t>>) = Len(values) + 1
         /\ Len(values) \in Nat /\ DOMAIN values = 1 .. Len(values)
         /\ DOMAIN (list \o <<t>>) = 1 .. Len(values) + 1
         /\ \A i \in DOMAIN values : (list \o <<t>>)[i] = list[i]
         /\ (list \o <<t>>)[Len(values) + 1] = t
<1>1. list \in Seq(EncTask) /\ Len(list) = Len(values) /\ DOMAIN list = DOMAIN values
      /\ Len(list) \in Nat /\ DOMAIN list = 1 .. Len(list)
  BY LenProperties DEF ListFor
<1>2. <<t>> \in Seq(EncTask) /\ Len(<<t>>) = 1 /\ <<t>>[1] = t
  OBVIOUS
<1> QED BY <1>1, <1>2, ConcatProperties

(* The contents of an object or a reference, with or without the end of    *)
(* the snapshot that holds them.                                           *)
LEMMA ContentsKnown ==
  ASSUME EncInv, agenda # <<>>, KnownAgain, NEW n \in Nodes(graph), Kind(n) \notin ArrayKinds,
         NEW values, values = Kids(n) \/ values = <<>>,
         NEW list, NEW depth, NEW rcn, NEW element, ListFor(list, values, depth, rcn, element),
         NEW tasks, NEW held \in Seq(Nat),
         (tasks = list /\ rcn) \/ (tasks = list \o <<ReleaseTask(held)>> /\ (rcn \/ held = values)),
         NEW tokens, Names(tokens, n), Then(tasks), Emit(tokens), graph' = graph, IdsStay
  PROVE  KnownAgain'
<1>1. /\ list \in Seq(EncTask) /\ DOMAIN list = DOMAIN values
      /\ \A i \in DOMAIN values :
           list[i].do = "value" /\ list[i].v = values[i] /\ list[i].rcn = rcn
  BY DEF ListFor
<1>2. ReleaseTask(held) \in EncTask /\ ReleaseTask(held).do = "release" /\ ReleaseTask(held).held = held
  BY DEF ReleaseTask, EncTask
<1>3. /\ tasks \in Seq(EncTask)
      /\ \A i \in DOMAIN tasks :
           \/ i \in DOMAIN values /\ tasks[i] = list[i]
           \/ tasks[i] = ReleaseTask(held)
      /\ ~ rcn => \A i \in DOMAIN values : \E j \in DOMAIN tasks :
                    i < j /\ tasks[j] = ReleaseTask(held) /\ held = values
  <2>1. CASE tasks = list /\ rcn
    BY <1>1, <2>1
  <2>2. CASE tasks = list \o <<ReleaseTask(held)>> /\ (rcn \/ held = values)
    <3> DEFINE L == Len(values)
    <3>1. /\ tasks \in Seq(EncTask) /\ L \in Nat /\ DOMAIN values = 1 .. L
          /\ DOMAIN tasks = 1 .. L + 1 /\ \A i \in DOMAIN values : tasks[i] = list[i]
          /\ tasks[L + 1] = ReleaseTask(held)
      BY <1>2, <2>2, ListedAnd
    <3> HIDE DEF L
    <3>2. \A i \in 1 .. L + 1 : i \in 1 .. L \/ i = L + 1
      BY <3>1
    <3>3. L + 1 \in DOMAIN tasks /\ \A i \in DOMAIN values : i < L + 1
      BY <3>1
    <3> QED BY <2>2, <3>1, <3>2, <3>3
  <2> QED BY <2>1, <2>2
<1>4. \A i \in DOMAIN values : <<n, i>> \in KidPositions(graph, values[i])
  <2> SUFFICES ASSUME NEW i \in DOMAIN values PROVE <<n, i>> \in KidPositions(graph, values[i])
    OBVIOUS
  <2>1. values = Kids(n)
    OBVIOUS
  <2> QED BY <2>1 DEF KidPositions, Kids
<1>5. \A i \in DOMAIN tasks, k \in Private : ~ Visits(tasks[i], k)
  <2> SUFFICES ASSUME NEW i \in DOMAIN tasks, NEW k \in Private, Visits(tasks[i], k) PROVE FALSE
    OBVIOUS
  <2>1. i \in DOMAIN values /\ tasks[i] = list[i]
    BY <1>2, <1>3 DEF Visits
  <2>2. values[i] = k
    BY <1>1, <2>1 DEF Visits
  <2>3. <<n, i>> \in KidPositions(graph, k)
    BY <1>4, <2>1, <2>2
  <2>4. Kind(<<n, i>>[1]) \in ArrayKinds
    BY <2>3, PrivateHolder
  <2> QED BY <2>4
<1>6. Announces(tasks, tokens, n)
  BY <1>5 DEF Announces
<1>7. Reaches(tasks, tokens)
  <2> SUFFICES ASSUME NEW i \in DOMAIN tasks
               PROVE  LET t == tasks[i]
                      IN /\ t.do = "value" /\ ~ t.rcn =>
                            HeldAfter(tasks, i, t.v) /\ KidPositions(graph, t.v) # {}
                         /\ t.do # "arrayDone" /\ t.do # "hook"
    BY DEF Reaches
  <2>1. CASE tasks[i] = ReleaseTask(held)
    BY <1>2, <2>1
  <2>2. CASE i \in DOMAIN values /\ tasks[i] = list[i]
    <3>1. tasks[i].do = "value" /\ tasks[i].v = values[i] /\ tasks[i].rcn = rcn
      BY <1>1, <2>2
    <3>2. KidPositions(graph, values[i]) # {}
      BY <1>4, <2>2
    <3>3. ASSUME ~ rcn PROVE HeldAfter(tasks, i, values[i])
      <4>1. PICK j \in DOMAIN tasks : i < j /\ tasks[j] = ReleaseTask(held) /\ held = values
        BY <1>3, <2>2, <3>3
      <4> QED BY <1>2, <2>2, <4>1 DEF HeldAfter
    <3> QED BY <3>1, <3>2, <3>3
  <2> QED BY <1>3, <2>1, <2>2
<1> QED BY <1>3, <1>6, <1>7, StepKnows

(* Who is visited at the head of the agenda, and what is known then.       *)
LEMMA HeadVisits ==
  ASSUME EncInv, KnownAgain, agenda # <<>>, NEW n \in Nodes(graph),
         (task.do = "value" /\ n = task.v) \/ (task.do = "hook" /\ n = task.n)
  PROVE  /\ Visits(task, n) /\ n \in Nat
         /\ n \in Private => ~ Wrote(ObjectTags \cup {"array"}, n) /\ ~ Wrote(ObjectTags, n)
         /\ task.do = "hook" => ~ Wrote(ObjectTags, n)
         /\ ~ HasId(n) /\ n \notin Private => ~ Wrote(ObjectTags, n)
         /\ ~ HasId(n) => ~ Wrote({"new_ref"}, n)
         /\ Kind(n) # "reference" => ~ Wrote({"new_ref"}, n)
<1>1. 1 \in DOMAIN agenda /\ task = agenda[1] /\ n \in Nat
  BY HeadOfAgenda, GraphTyped
<1>2. Visits(task, n) /\ Waits(n)
  BY <1>1 DEF Visits, Waits
<1>3. n \in Private => ~ Wrote(ObjectTags \cup {"array"}, n) /\ ~ Wrote(ObjectTags, n)
  BY <1>2 DEF KnownAgain, PrivateOnce, Wrote, WroteIn
<1>4. task.do = "hook" => ~ Wrote(ObjectTags, n)
  BY <1>1 DEF KnownAgain, WalksAndHooks
<1>5. /\ ~ HasId(n) /\ n \notin Private => ~ Wrote(ObjectTags, n)
      /\ ~ HasId(n) => ~ Wrote({"new_ref"}, n)
      /\ Kind(n) # "reference" => ~ Wrote({"new_ref"}, n)
  BY DEF KnownAgain, TokensNamed, Wrote, WroteIn
<1> QED BY <1>1, <1>2, <1>3, <1>4, <1>5

(* An object that is not in the table, after its id is taken.              *)
LEMMA ObjectClaimed ==
  ASSUME EncInv, KnownAgain, NEW n \in Nodes(graph), NEW kinds \in SUBSET ObjectKinds,
         NewObject(n, kinds), ClaimObject(n)
  PROVE  /\ agenda # <<>> /\ task.do = "value" /\ n = task.v
         /\ Kind(n) \in kinds /\ Kind(n) \in ObjectKinds /\ Kind(n) \notin ArrayKinds
         /\ Kind(n) # "reference"
         /\ Visits(task, n) /\ ~ Wrote(ObjectTags, n)
         /\ IF IsTracked(n) THEN claim'[n] >= 0 ELSE n \in Private
         /\ IdsStay
<1>1. agenda # <<>> /\ task.do = "value" /\ n = task.v /\ Kind(n) \in kinds /\ IsValue
      /\ ~ (IsTracked(n) /\ HasId(n))
  BY DEF NewObject, Visiting, IsValue
<1>2. Kind(n) \in ObjectKinds /\ Kind(n) \notin ArrayKinds /\ Kind(n) # "reference"
  BY <1>1 DEF ObjectKinds, ArrayKinds
<1>3. claim \in [Nodes(graph) -> {NoEntry, Pending, Unshared} \cup Nat] /\ nextId \in Nat
  BY RestTyped DEF EncRest
<1>4. ~ IsTracked(n) => n \in Private
  <2> SUFFICES ASSUME ~ IsTracked(n) PROVE n \in Private
    OBVIOUS
  <2>1. ~ task.rcn /\ ~ (Refcount(n) > 1)
    BY DEF IsTracked
  <2>2. Kind(n) # "immutable"
    BY <1>2 DEF ArrayKinds
  <2>3. Provenance
    BY DEF KnownAgain
  <2> QED BY <1>1, <2>1, <2>2, <2>3, UnsharedIsPrivate
<1>5. IsTracked(n) => claim'[n] >= 0
  BY <1>3 DEF ClaimObject
<1>6. IdsStay
  BY <1>3 DEF ClaimObject, IdsStay, HasId
<1>7. Visits(task, n) /\ ~ Wrote(ObjectTags, n)
  BY <1>1, <1>4, HeadVisits
<1> QED BY <1>1, <1>2, <1>4, <1>5, <1>6, <1>7

(* A step of a value visited at once.                                      *)
LEMMA ValueStepsKnow ==
  ASSUME EncInv, KnownAgain, NEW n \in Nodes(graph),
         ReferenceNew(n) \/ EncodeSlots(n) \/ EncodeKeyed(n) \/ EncodeEnum(n) \/ CallHook(n)
  PROVE  KnownAgain'
<1>1. agenda # <<>> /\ task.do = "value" /\ n = task.v /\ graph' = graph
  BY DEF ReferenceNew, EncodeSlots, EncodeKeyed, EncodeEnum, CallHook, NewObject, Visiting, IsValue
<1>2. n \in Nat /\ Values \subseteq Nat /\ Kids(n) \in Seq(Values) /\ Len(Kids(n)) \in Nat
      /\ Kids(n) \in Seq(Nat)
  <2>1. n \in Nat /\ Values \subseteq Nat /\ Kids(n) \in Seq(Values)
    BY <1>1, GraphTyped
  <2> QED BY <2>1, SeqMonotonic, LenProperties
<1>3. task.depth + 1 \in Nat
  BY <1>1, HeadTyped
<1>4. \A borrowed \in BOOLEAN :
        ListFor(ValueTasks(Kids(n), task.depth + 1, TRUE, borrowed), Kids(n), task.depth + 1, TRUE, FALSE)
  BY <1>2, <1>3, Listed
<1>5. \A t : Len(<<t>>) = 1 /\ DOMAIN <<t>> = {1} /\ <<t>>[1] = t
      /\ \A X : t \in X => <<t>> \in Seq(X)
  OBVIOUS
<1>6. claim \in [Nodes(graph) -> {NoEntry, Pending, Unshared} \cup Nat] /\ nextId \in Nat
  BY RestTyped DEF EncRest
<1>7. Token("new_ref", 1, n) \in NodeToken /\ Token("object", Len(Kids(n)), n) \in NodeToken
      /\ Token("leaf", 0, n) \in NodeToken
  BY <1>2, TokensAreNamed DEF WireTags, ScalarTags
<1>8. ASSUME NEW tag \in {"object", "leaf"}, NEW arg, Token(tag, arg, n) \in NodeToken,
             Kind(n) \in ObjectKinds, Visits(task, n), ~ Wrote(ObjectTags, n),
             IF IsTracked(n) THEN claim'[n] >= 0 ELSE n \in Private
      PROVE  Names(<<Token(tag, arg, n)>>, n)
  <2>1. Token(tag, arg, n).node = n /\ Token(tag, arg, n).tag = tag /\ tag # "new_ref"
    BY DEF Token
  <2> QED BY <1>5, <1>8, <2>1 DEF Names
<1>9. CASE ReferenceNew(n)
  <2>1. ~ HasId(n) /\ Kind(n) = "reference" /\ Claim(n) /\ Emit(<<Token("new_ref", 1, n)>>)
        /\ Then(ValueTasks(Kids(n), task.depth + 1, TRUE, FALSE))
    BY <1>9 DEF ReferenceNew
  <2>2. claim'[n] >= 0 /\ IdsStay
    BY <1>6, <2>1 DEF Claim, IdsStay, HasId
  <2>3. Visits(task, n) /\ ~ Wrote({"new_ref"}, n)
    BY <1>1, <2>1, HeadVisits
  <2>4. Token("new_ref", 1, n).node = n /\ Token("new_ref", 1, n).tag = "new_ref"
        /\ "new_ref" \notin ObjectTags
    BY DEF Token, ObjectTags
  <2>5. Names(<<Token("new_ref", 1, n)>>, n)
    BY <1>5, <1>7, <2>1, <2>2, <2>3, <2>4 DEF Names
  <2>6. Kind(n) \notin ArrayKinds
    BY <2>1 DEF ArrayKinds
  <2>7. Kids(n) \in Seq(Nat)
    BY <1>2
  <2> QED BY <1>1, <1>4, <2>1, <2>2, <2>5, <2>6, <2>7, ContentsKnown
<1>10. CASE EncodeSlots(n)
  <2>1. /\ NewObject(n, {"slots"}) /\ ClaimObject(n) /\ Emit(<<Token("object", Len(Kids(n)), n)>>)
        /\ Then(ValueTasks(Kids(n), task.depth + 1, TRUE, TRUE) \o <<ReleaseTask(Kids(n))>>)
    BY <1>10 DEF EncodeSlots
  <2>2. {"slots"} \in SUBSET ObjectKinds
    BY DEF ObjectKinds
  <2>3. /\ Kind(n) \in ObjectKinds /\ Kind(n) \notin ArrayKinds /\ Visits(task, n)
        /\ ~ Wrote(ObjectTags, n) /\ IdsStay
        /\ IF IsTracked(n) THEN claim'[n] >= 0 ELSE n \in Private
    BY <2>1, <2>2, ObjectClaimed
  <2>4. Names(<<Token("object", Len(Kids(n)), n)>>, n)
    BY <1>7, <1>8, <2>3
  <2> QED BY <1>1, <1>2, <1>4, <2>1, <2>3, <2>4, ContentsKnown
<1>11. CASE EncodeKeyed(n)
  <2>1. /\ NewObject(n, {"keyed"}) /\ ClaimObject(n) /\ Emit(<<Token("object", Len(Kids(n)), n)>>)
        /\ Then(ValueTasks(Kids(n), task.depth + 1, TRUE, FALSE))
    BY <1>11 DEF EncodeKeyed
  <2>2. {"keyed"} \in SUBSET ObjectKinds
    BY DEF ObjectKinds
  <2>3. /\ Kind(n) \in ObjectKinds /\ Kind(n) \notin ArrayKinds /\ Visits(task, n)
        /\ ~ Wrote(ObjectTags, n) /\ IdsStay
        /\ IF IsTracked(n) THEN claim'[n] >= 0 ELSE n \in Private
    BY <2>1, <2>2, ObjectClaimed
  <2>4. Names(<<Token("object", Len(Kids(n)), n)>>, n)
    BY <1>7, <1>8, <2>3
  <2> QED BY <1>1, <1>2, <1>4, <2>1, <2>3, <2>4, ContentsKnown
<1>12. CASE EncodeEnum(n)
  <2>1. NewObject(n, {"enum"}) /\ ClaimObject(n) /\ Emit(<<Token("leaf", 0, n)>>) /\ NothingMore
    BY <1>12 DEF EncodeEnum
  <2>2. {"enum"} \in SUBSET ObjectKinds
    BY DEF ObjectKinds
  <2>3. /\ Kind(n) \in ObjectKinds /\ Kind(n) \notin ArrayKinds /\ Visits(task, n)
        /\ ~ Wrote(ObjectTags, n) /\ IdsStay
        /\ IF IsTracked(n) THEN claim'[n] >= 0 ELSE n \in Private
    BY <2>1, <2>2, ObjectClaimed
  <2>4. Names(<<Token("leaf", 0, n)>>, n)
    BY <1>7, <1>8, <2>3
  <2>5. <<>> \in Seq(EncTask) /\ Then(<<>>) /\ Announces(<<>>, <<Token("leaf", 0, n)>>, n)
        /\ Reaches(<<>>, <<Token("leaf", 0, n)>>)
    BY <2>1 DEF NothingMore, Announces, Reaches
  <2> QED BY <1>1, <2>1, <2>3, <2>4, <2>5, StepKnows
<1>13. CASE CallHook(n)
  <2>1. NewObject(n, HookKinds) /\ ClaimObject(n) /\ Then(<<HookTask(n)>>) /\ body' = body
    BY <1>13 DEF CallHook
  <2>2. HookKinds \in SUBSET ObjectKinds
    BY DEF ObjectKinds, HookKinds
  <2>3. /\ Kind(n) \in HookKinds /\ Visits(task, n)
        /\ ~ Wrote(ObjectTags, n) /\ IdsStay
        /\ IF IsTracked(n) THEN claim'[n] >= 0 ELSE n \in Private
    BY <2>1, <2>2, ObjectClaimed
  <2>4. /\ HookTask(n).do = "hook" /\ HookTask(n).n = n /\ HookTask(n).tracked = IsTracked(n)
        /\ HookTask(n) \in EncTask
    <3>1. IsTracked(n) \in BOOLEAN /\ task.depth \in Nat
      BY <1>1, HeadTyped DEF IsTracked
    <3> QED BY <1>2, <3>1 DEF HookTask, EncTask
  <2>5. Names(<<>>, n) /\ Emit(<<>>)
    <3>1. body \o <<>> = body
      BY ConcatEmptySeq DEF KnownAgain, TokensNamed
    <3> QED BY <2>1, <3>1 DEF Names, Emit
  <2>6. \A i \in DOMAIN <<HookTask(n)>> : i = 1 /\ <<HookTask(n)>>[i] = HookTask(n)
    BY <1>5
  <2>7. Announces(<<HookTask(n)>>, <<>>, n)
    BY <2>3, <2>4, <2>6 DEF Announces, Visits
  <2>8. Reaches(<<HookTask(n)>>, <<>>)
    BY <2>3, <2>4, <2>6 DEF Reaches
  <2>9. <<HookTask(n)>> \in Seq(EncTask)
    BY <2>4
  <2> QED BY <1>1, <2>1, <2>3, <2>5, <2>7, <2>8, <2>9, StepKnows
<1> QED BY <1>9, <1>10, <1>11, <1>12, <1>13

(* Steps that write NULL, a scalar or an id.                               *)
LEMMA PlainStepsKnow ==
  ASSUME EncInv, KnownAgain,
         \/ FailedPlaceholder \/ TooDeep \/ EncodeScalar
         \/ \E n \in Nodes(graph) :
              \/ ArrayRepeat(n) \/ ReferenceRepeat(n) \/ ObjectRepeat(n)
              \/ Refuse(n) \/ HookYieldsNull(n) \/ HookThrows(n)
  PROVE  KnownAgain'
<1>1. "null" \notin EntityTags /\ "scalar" \notin EntityTags /\ "ref" \notin EntityTags
  BY DEF EntityTags, ObjectTags
<1>2. claim' = claim => IdsStay
  BY DEF IdsStay, HasId
<1>3. ASSUME FailedPlaceholder \/ TooDeep PROVE KnownAgain'
  <2>1. agenda # <<>> /\ task.do = "value"
    BY <1>3 DEF FailedPlaceholder, TooDeep, IsValue
  <2>2. NullFor(task.v) \in NodeToken /\ NullFor(task.v).tag = "null"
    BY <2>1, HeadTyped, TokensAreNamed DEF NullFor, Token
  <2>3. Emit(<<NullFor(task.v)>>) /\ NothingMore /\ graph' = graph /\ claim' = claim
    BY <1>3 DEF FailedPlaceholder, TooDeep, table
  <2> QED BY <1>1, <1>2, <2>1, <2>2, <2>3, PlainKnown
<1>4. ASSUME EncodeScalar PROVE KnownAgain'
  <2>1. agenda # <<>>
    BY <1>4 DEF EncodeScalar, IsValue
  <2>2. Token("scalar", 0, Scalar) \in NodeToken /\ Token("scalar", 0, Scalar).tag = "scalar"
    BY TokensAreNamed DEF WireTags, ScalarTags, Scalar, Token
  <2>3. Emit(<<Token("scalar", 0, Scalar)>>) /\ NothingMore /\ graph' = graph /\ claim' = claim
    BY <1>4 DEF EncodeScalar, table
  <2> QED BY <1>1, <1>2, <2>1, <2>2, <2>3, PlainKnown
<1>5. ASSUME NEW n \in Nodes(graph), ArrayRepeat(n) \/ ReferenceRepeat(n) \/ ObjectRepeat(n)
      PROVE  KnownAgain'
  <2>1. agenda # <<>> /\ HasId(n)
    BY <1>5 DEF ArrayRepeat, ReferenceRepeat, ObjectRepeat, Visiting, IsValue
  <2>2. RefTo(n) \in NodeToken /\ RefTo(n).tag = "ref"
    BY <2>1, TokensAreNamed DEF RefTo, Token
  <2>3. Emit(<<RefTo(n)>>) /\ NothingMore /\ graph' = graph /\ claim' = claim
    BY <1>5 DEF ArrayRepeat, ReferenceRepeat, ObjectRepeat, table
  <2> QED BY <1>1, <1>2, <2>1, <2>2, <2>3, PlainKnown
<1>6. ASSUME NEW n \in Nodes(graph), Refuse(n) PROVE KnownAgain'
  <2>1. agenda # <<>>
    BY <1>6 DEF Refuse, Visiting, IsValue
  <2>2. NullFor(n) \in NodeToken /\ NullFor(n).tag = "null"
    BY <2>1, GraphTyped, TokensAreNamed DEF NullFor, Token
  <2>3. Emit(<<NullFor(n)>>) /\ NothingMore /\ graph' = graph /\ claim' = claim
    BY <1>6 DEF Refuse, table
  <2> QED BY <1>1, <1>2, <2>1, <2>2, <2>3, PlainKnown
<1>7. ASSUME NEW n \in Nodes(graph), HookYieldsNull(n) \/ HookThrows(n) PROVE KnownAgain'
  <2>1. agenda # <<>> /\ task.do = "hook" /\ n = task.n /\ Unvisit(n, task.tracked)
    BY <1>7 DEF HookYieldsNull, HookThrows, HookReturned
  <2>2. NullFor(n) \in NodeToken /\ NullFor(n).tag = "null"
    BY <2>1, GraphTyped, TokensAreNamed DEF NullFor, Token
  <2>3. Emit(<<NullFor(n)>>) /\ NothingMore /\ graph' = graph
    BY <1>7 DEF HookYieldsNull, HookThrows
  <2>4. claim \in [Nodes(graph) -> {NoEntry, Pending, Unshared} \cup Nat]
    BY RestTyped DEF EncRest
  <2>5. ~ Wrote(ObjectTags, n) /\ ~ Wrote({"new_ref"}, n)
    <3>1. Kind(n) # "reference"
      BY <1>7 DEF HookYieldsNull, HookThrows, HookReturned, HookKinds
    <3> QED BY <2>1, <3>1, HeadVisits
  <2>6. ~ Wrote(ObjectTags \cup {"new_ref"}, n)
    BY <2>5 DEF Wrote, WroteIn
  <2>7. IdsStay
    BY <2>1, <2>4, <2>6 DEF IdsStay, Unvisit, HasId
  <2> QED BY <1>1, <2>1, <2>2, <2>3, <2>7, PlainKnown
<1> QED BY <1>3, <1>4, <1>5, <1>6, <1>7

(* An object whose hook returned.                                          *)
LEMMA HookStepsKnow ==
  ASSUME EncInv, KnownAgain, NEW n \in Nodes(graph),
         EncodeHooked(n) \/ EncodeLegacy(n) \/ EncodeMagic(n) \/ EncodeFactory(n)
  PROVE  KnownAgain'
<1>1. agenda # <<>> /\ task.do = "hook" /\ n = task.n /\ graph' = graph /\ claim' = claim
      /\ Kind(n) \in HookKinds
  BY DEF EncodeHooked, EncodeLegacy, EncodeMagic, EncodeFactory, HookReturned, table, HookKinds
<1>2. n \in Nat /\ Values \subseteq Nat /\ Kids(n) \in Seq(Values) /\ Len(Kids(n)) \in Nat
      /\ Kids(n) \in Seq(Nat)
  <2>1. n \in Nat /\ Values \subseteq Nat /\ Kids(n) \in Seq(Values)
    BY <1>1, GraphTyped
  <2> QED BY <2>1, SeqMonotonic, LenProperties
<1>3. task.depth + 1 \in Nat /\ task.depth + 2 \in Nat
  BY <1>1, HeadTyped
<1>4. /\ Visits(task, n) /\ ~ Wrote(ObjectTags, n) /\ IdsStay
      /\ Kind(n) \in ObjectKinds /\ Kind(n) \notin ArrayKinds
      /\ claim'[n] >= 0 \/ n \in Private
  <2>1. 1 \in DOMAIN agenda /\ task = agenda[1]
    BY <1>1, HeadOfAgenda
  <2>2. IF task.tracked THEN HasId(n) ELSE n \in Private
    BY <1>1, <2>1 DEF KnownAgain, WalksAndHooks
  <2>3. Visits(task, n) /\ ~ Wrote(ObjectTags, n)
    BY <1>1, HeadVisits
  <2> QED BY <1>1, <2>2, <2>3 DEF HasId, IdsStay, HookKinds, ObjectKinds, ArrayKinds
<1>5. \A t : Len(<<t>>) = 1 /\ DOMAIN <<t>> = {1} /\ <<t>>[1] = t
      /\ \A X : t \in X => <<t>> \in Seq(X)
  OBVIOUS
<1>6. \A arg \in Nat : /\ Token("object", arg, n) \in NodeToken /\ Token("leaf", arg, n) \in NodeToken
                       /\ Token("magic", arg, n) \in NodeToken /\ Token("array", arg, n) \in NodeToken
                       /\ NullFor(n) \in NodeToken
  BY <1>2, TokensAreNamed DEF WireTags, ScalarTags
<1>7. ASSUME NEW tag \in ObjectTags, NEW arg \in Nat
      PROVE  Names(<<Token(tag, arg, n)>>, n)
  <2>1. Token(tag, arg, n).node = n /\ Token(tag, arg, n).tag = tag /\ tag # "new_ref"
        /\ Token(tag, arg, n) \in NodeToken
    BY <1>6 DEF Token, ObjectTags
  <2> QED BY <1>4, <1>5, <2>1 DEF Names
<1>8. CASE EncodeHooked(n)
  <2> DEFINE copied == IF Kind(n) = "sleep" THEN Kids(n) ELSE <<>>
             borrowed == Kind(n) = "sleep"
             list == ValueTasks(Kids(n), task.depth + 1, TRUE, borrowed)
  <2>1. copied \in Seq(Nat) /\ borrowed \in BOOLEAN
    BY <1>2
  <2>2. /\ Emit(<<Token("object", Len(Kids(n)), n)>>)
        /\ Then(list \o <<ReleaseTask(copied)>>)
    BY <1>8 DEF EncodeHooked
  <2> HIDE DEF copied, borrowed
  <2>3. ListFor(list, Kids(n), task.depth + 1, TRUE, FALSE)
    BY <1>2, <1>3, <2>1, Listed
  <2>4. Names(<<Token("object", Len(Kids(n)), n)>>, n)
    BY <1>2, <1>7 DEF ObjectTags
  <2> HIDE DEF list
  <2> QED BY <1>1, <1>4, <2>1, <2>2, <2>3, <2>4, ContentsKnown
<1>9. CASE EncodeLegacy(n)
  <2>1. Emit(<<Token("leaf", 0, n)>>) /\ NothingMore
    BY <1>9 DEF EncodeLegacy
  <2>2. Names(<<Token("leaf", 0, n)>>, n)
    BY <1>7 DEF ObjectTags
  <2>3. <<>> \in Seq(EncTask) /\ Then(<<>>) /\ Announces(<<>>, <<Token("leaf", 0, n)>>, n)
        /\ Reaches(<<>>, <<Token("leaf", 0, n)>>)
    BY <2>1 DEF NothingMore, Announces, Reaches
  <2> QED BY <1>1, <1>4, <2>1, <2>2, <2>3, StepKnows
<1>10. CASE EncodeMagic(n)
  <2> DEFINE list == ValueTasks(Kids(n), task.depth + 1, FALSE, TRUE)
  <2>1. Emit(<<Token("magic", 1, n)>>) /\ Then(list \o <<ReleaseTask(Kids(n))>>)
    BY <1>10 DEF EncodeMagic
  <2>2. ListFor(list, Kids(n), task.depth + 1, FALSE, FALSE)
    BY <1>2, <1>3, Listed
  <2>3. Names(<<Token("magic", 1, n)>>, n)
    BY <1>7 DEF ObjectTags
  <2> HIDE DEF list
  <2> QED BY <1>1, <1>2, <1>4, <2>1, <2>2, <2>3, ContentsKnown
<1>11. CASE EncodeFactory(n)
  <2> DEFINE fits == task.depth + 1 < maxDepth
             kids == IF fits THEN Kids(n) ELSE <<>>
             second == IF fits THEN Token("array", Len(kids), n) ELSE NullFor(n)
             list == ElementTasks(kids, task.depth + 2, FALSE, FALSE)
             tokens == <<Token("magic", 1, n), second>>
  <2>1. Emit(tokens) /\ Then(list \o <<ReleaseTask(kids)>>)
    BY <1>11 DEF EncodeFactory
  <2>2. kids = Kids(n) \/ kids = <<>>
    OBVIOUS
  <2> HIDE DEF fits
  <2>3. kids \in Seq(Values) /\ kids \in Seq(Nat) /\ Len(kids) \in Nat
    BY <1>2, <2>2
  <2> HIDE DEF kids
  <2>4. ListFor(list, kids, task.depth + 2, FALSE, TRUE)
    BY <1>2, <1>3, <2>3, Listed
  <2>5. second \in NodeToken /\ second.node = n /\ second.tag \in {"array", "null"}
    BY <1>6, <2>3 DEF Token, NullFor
  <2>6. Token("magic", 1, n) \in NodeToken /\ Token("magic", 1, n).tag = "magic"
        /\ Token("magic", 1, n).node = n
    BY <1>6 DEF Token
  <2> HIDE DEF second
  <2>7. tokens \in Seq(NodeToken) /\ DOMAIN tokens = {1, 2}
        /\ tokens[1] = Token("magic", 1, n) /\ tokens[2] = second
    BY <2>5, <2>6
  <2> HIDE DEF tokens, list
  <2>8. Names(tokens, n)
    BY <1>4, <2>5, <2>6, <2>7 DEF Names, ObjectTags, EntityTags
  <2> QED BY <1>1, <1>4, <2>1, <2>2, <2>3, <2>4, <2>8, ContentsKnown
<1> QED BY <1>8, <1>9, <1>10, <1>11

(* The walk of an array: its private elements become visits.               *)
LEMMA WalkKnows ==
  ASSUME EncInv, KnownAgain, NEW n \in Nodes(graph), ArrayWalk(n)
  PROVE  KnownAgain'
<1>1. agenda # <<>> /\ task.do = "value" /\ n = task.v /\ graph' = graph /\ Kind(n) \in ArrayKinds
      /\ IsValue
  BY DEF ArrayWalk, Visiting, IsValue
<1>2. n \in Nat /\ Values \subseteq Nat /\ Kids(n) \in Seq(Values) /\ Nodes(graph) \subseteq Nat
  BY <1>1, GraphTyped
<1>3. task.depth + 1 \in Nat /\ task.rcn \in BOOLEAN
  BY <1>1, HeadTyped
<1> DEFINE claiming == WorthClaiming(n) /\ claim[n] \in {NoEntry, Unshared}
           values   == IF WalksDup(n) THEN Dup(n) ELSE Kids(n)
           copied   == IF WalksDup(n) THEN values ELSE <<>>
           locked   == IF IsImmutable(n) THEN copied ELSE copied \o <<n>>
           rcn      == task.rcn \/ IsShared(n)
           borrowed == WalksDup(n)
           end      == ArrayDoneTask(n, locked, claiming)
           list     == ElementTasks(values, task.depth + 1, rcn, borrowed)
           prefix   == IF claiming THEN <<Token("shared", 0, n)>> ELSE <<>>
           tokens   == prefix \o <<Token("array", Len(values), n)>>
           tasks    == list \o <<end>>
<1>4. /\ claim' = IF claiming THEN [claim EXCEPT ![n] = Pending] ELSE claim
      /\ Emit(tokens) /\ Then(tasks)
  BY DEF ArrayWalk
<1>5. /\ Dup(n) \in Seq(Values) /\ DOMAIN Dup(n) = DOMAIN Kids(n)
      /\ \A i \in DOMAIN Kids(n) : Dup(n)[i] = DupKid(n, Kids(n)[i])
  <2>1. \A i \in DOMAIN Kids(n) : Kids(n)[i] \in Values
    BY <1>2
  <2>2. \A k \in Values : DupKid(n, k) \in Values
    <3> SUFFICES ASSUME NEW k \in Values PROVE DupKid(n, k) \in Values
      OBVIOUS
    <3>1. CASE IsNode(k) /\ Kind(k) = "reference" /\ Refcount(k) = 1 /\ Kids(k)[1] # n
      <4>1. k \in Nodes(graph)
        BY <3>1 DEF IsNode, Values, Scalar
      <4> QED BY <1>1, <3>1, <4>1, GraphTyped DEF DupKid
    <3>2. CASE ~ (IsNode(k) /\ Kind(k) = "reference" /\ Refcount(k) = 1 /\ Kids(k)[1] # n)
      BY <3>2 DEF DupKid
    <3> QED BY <3>1, <3>2
  <2>3. DOMAIN Kids(n) = 1 .. Len(Kids(n)) /\ Len(Kids(n)) \in Nat
    BY <1>2, LenProperties
  <2>4. Dup(n) \in [1 .. Len(Kids(n)) -> Values]
    BY <2>1, <2>2, <2>3 DEF Dup
  <2> QED BY <2>3, <2>4 DEF Dup
<1>6. /\ values \in Seq(Values) /\ Len(values) \in Nat /\ DOMAIN values = DOMAIN Kids(n)
      /\ values = Kids(n) \/ (WalksDup(n) /\ values = Dup(n))
  <2>1. values \in Seq(Values) /\ DOMAIN values = DOMAIN Kids(n)
    BY <1>2, <1>5
  <2> QED BY <2>1, LenProperties
<1>7. claiming \in BOOLEAN /\ rcn \in BOOLEAN /\ borrowed \in BOOLEAN
      /\ (~ rcn => ~ task.rcn /\ ~ IsShared(n) /\ ~ WalksDup(n))
  BY <1>3 DEF WorthClaiming, IsShared, WalksDup
<1>8. locked \in Seq(Nat)
  <2>0. values \in Seq(Nat)
    <3> HIDE DEF values
    <3> QED BY <1>2, <1>6, SeqMonotonic
  <2>1. <<n>> \in Seq(Nat) /\ copied \in Seq(Nat)
    BY <1>2, <2>0
  <2> HIDE DEF copied
  <2> QED BY <2>1, ConcatProperties
<1> HIDE DEF values, claiming, rcn, borrowed, locked
<1>9. ListFor(list, values, task.depth + 1, rcn, TRUE)
  BY <1>2, <1>3, <1>6, <1>7, Listed
<1>10. /\ end \in EncTask /\ end.do = "arrayDone" /\ end.n = n /\ end.claimed = claiming
       /\ end.at = Len(body) + 1
  <2>1. Len(body) + 1 \in Nat /\ refsSeen \in Nat
    BY RestTyped, LenProperties DEF EncRest, EncInv, EncTyped
  <2> QED BY <1>2, <1>7, <1>8, <2>1 DEF ArrayDoneTask, EncTask
<1> HIDE DEF end, list
<1>11. /\ tasks \in Seq(EncTask) /\ DOMAIN values = 1 .. Len(values)
       /\ DOMAIN tasks = 1 .. Len(values) + 1
       /\ \A i \in DOMAIN values : tasks[i] = list[i]
       /\ tasks[Len(values) + 1] = end
  <2>1. PICK e \in EncTask : e = end
    BY <1>10
  <2>2. PICK d, r, b : d = task.depth + 1 /\ r = rcn /\ b = TRUE
    OBVIOUS
  <2>3. ListFor(list, values, d, r, b)
    BY <1>9, <2>2
  <2>4. /\ list \o <<e>> \in Seq(EncTask) /\ DOMAIN values = 1 .. Len(values)
        /\ DOMAIN (list \o <<e>>) = 1 .. Len(values) + 1
        /\ \A i \in DOMAIN values : (list \o <<e>>)[i] = list[i]
        /\ (list \o <<e>>)[Len(values) + 1] = e
    BY <2>3, ListedAnd
  <2> QED BY <2>1, <2>4
<1>12. \A i \in DOMAIN tasks :
         \/ /\ i \in DOMAIN values /\ tasks[i].do = "value" /\ tasks[i].v = values[i]
            /\ tasks[i].rcn = rcn
         \/ tasks[i] = end
  <2>1. \A i \in DOMAIN values : list[i].do = "value" /\ list[i].v = values[i] /\ list[i].rcn = rcn
    BY <1>9 DEF ListFor
  <2>2. \A i \in 1 .. Len(values) + 1 : i \in 1 .. Len(values) \/ i = Len(values) + 1
    BY <1>6
  <2> QED BY <1>11, <2>1, <2>2
<1>13. Token("shared", 0, n) \in NodeToken /\ Token("array", Len(values), n) \in NodeToken
       /\ Token("shared", 0, n).tag = "shared" /\ Token("array", Len(values), n).tag = "array"
       /\ Token("array", Len(values), n).node = n
  BY <1>2, <1>6, TokensAreNamed DEF WireTags, ScalarTags, Token
<1>14. /\ tokens \in Seq(NodeToken)
       /\ \A i \in DOMAIN tokens : \/ tokens[i] = Token("shared", 0, n)
                                   \/ tokens[i] = Token("array", Len(values), n)
       /\ \E i \in DOMAIN tokens : tokens[i] = Token("array", Len(values), n)
       /\ claiming => 1 \in DOMAIN tokens /\ tokens[1] = Token("shared", 0, n)
  <2> DEFINE a == Token("array", Len(values), n)
             s == Token("shared", 0, n)
  <2>1. a \in NodeToken /\ s \in NodeToken
    BY <1>13
  <2> HIDE DEF a, s
  <2>2. CASE claiming
    <3>1. <<s>> \in Seq(NodeToken) /\ Len(<<s>>) = 1 /\ <<s>>[1] = s /\ DOMAIN <<s>> = {1}
          /\ <<a>> \in Seq(NodeToken) /\ Len(<<a>>) = 1 /\ <<a>>[1] = a /\ DOMAIN <<a>> = {1}
      BY <2>1
    <3>2. PICK c : c = <<s>> \o <<a>>
      OBVIOUS
    <3>3. /\ c \in Seq(NodeToken)
          /\ \A i \in DOMAIN c : c[i] = s \/ c[i] = a
          /\ 1 \in DOMAIN c /\ c[1] = s /\ 2 \in DOMAIN c /\ c[2] = a
      <4>1. /\ c \in Seq(NodeToken)
            /\ \A i \in DOMAIN <<s>> : i \in DOMAIN c /\ c[i] = <<s>>[i]
            /\ \A i \in DOMAIN <<a>> : i + 1 \in DOMAIN c /\ c[i + 1] = <<a>>[i]
            /\ \A i \in DOMAIN c : \/ i \in DOMAIN <<s>> /\ c[i] = <<s>>[i]
                                   \/ i - 1 \in DOMAIN <<a>> /\ c[i] = <<a>>[i - 1]
        BY <3>1, <3>2, Appended
      <4> QED BY <3>1, <4>1
    <3>4. tokens = c
      BY <2>2, <3>2 DEF a, s
    <3> QED BY <3>3, <3>4 DEF a, s
  <2>3. CASE ~ claiming
    <3>1. <<>> \o <<a>> = <<a>>
      OBVIOUS
    <3>2. tokens = <<a>>
      BY <2>3, <3>1 DEF a
    <3>3. <<a>> \in Seq(NodeToken) /\ DOMAIN <<a>> = {1} /\ <<a>>[1] = a
      BY <2>1
    <3> QED BY <2>3, <3>2, <3>3 DEF a, s
  <2> QED BY <1>7, <2>2, <2>3
<1> HIDE DEF tokens, tasks
<1>15. Visits(task, n)
  BY <1>1, HeadVisits
<1>16. Names(tokens, n)
  <2>1. "array" \notin ObjectTags /\ "shared" \notin EntityTags /\ "array" # "new_ref"
    BY DEF ObjectTags, EntityTags
  <2>2. \A i \in DOMAIN tokens : tokens[i].tag \notin ObjectTags \cup {"new_ref"}
                                 /\ (tokens[i].tag \in EntityTags => tokens[i].node = n)
    BY <1>13, <1>14, <2>1 DEF ObjectTags
  <2> QED BY <1>14, <1>15, <2>2 DEF Names
<1>17. \A i \in DOMAIN values, k \in Private : values[i] = k => <<n, i>> \in KidPositions(graph, k)
  <2> SUFFICES ASSUME NEW i \in DOMAIN values, NEW k \in Private, values[i] = k
               PROVE  <<n, i>> \in KidPositions(graph, k)
    OBVIOUS
  <2>1. i \in DOMAIN Kids(n)
    BY <1>6
  <2>2. CASE Kids(n)[i] = k
    BY <2>1, <2>2 DEF KidPositions, Kids
  <2>3. CASE Kids(n)[i] # k
    <3> DEFINE r == Kids(n)[i]
    <3>1. values[i] = DupKid(n, r) /\ r # k
      BY <1>5, <1>6, <2>1, <2>3
    <3>2. IsNode(r) /\ Kind(r) = "reference" /\ Kids(r)[1] = k
      BY <3>1 DEF DupKid
    <3>3. r \in Nodes(graph)
      <4>1. r \in Values
        BY <1>2, <2>1
      <4> QED BY <3>2, <4>1 DEF Values, IsNode, Scalar
    <3> HIDE DEF r
    <3>4. 1 \in DOMAIN Kids(r)
      <4>1. KidsFitKind(graph, r)
        BY <1>1, <3>3 DEF EncInv, EncTyped, WellFormed
      <4>2. Len(Kids(r)) = 1
        BY <3>2, <4>1 DEF KidsFitKind, Kind, Kids
      <4>3. Kids(r) \in Seq(Values)
        BY <1>1, <3>3, GraphTyped
      <4> QED BY <4>2, <4>3, LenProperties
    <3>5. <<r, 1>> \in KidPositions(graph, k)
      BY <3>2, <3>3, <3>4 DEF KidPositions, Kids
    <3>6. Kind(<<r, 1>>[1]) \in ArrayKinds
      BY <1>1, <3>5, PrivateHolder
    <3> QED BY <3>2, <3>6 DEF ArrayKinds
  <2> QED BY <2>2, <2>3
<1>18. Announces(tasks, tokens, n)
  <2>1. WroteIn(tokens, {"array"}, n)
    BY <1>13, <1>14 DEF WroteIn
  <2>2. \A i \in DOMAIN tasks, k \in Private : Visits(tasks[i], k) => <<n, i>> \in KidPositions(graph, k)
    BY <1>10, <1>12, <1>17 DEF Visits
  <2> QED BY <1>15, <2>1, <2>2 DEF Announces
<1>19. Reaches(tasks, tokens)
  <2>1. claiming => body'[end.at].tag = "shared"
    <3> SUFFICES ASSUME claiming PROVE body'[end.at].tag = "shared"
      OBVIOUS
    <3>1. PICK c : c = body'
      OBVIOUS
    <3>2. c = body \o tokens /\ body \in Seq(NodeToken)
      BY <1>4, <3>1 DEF Emit, KnownAgain, TokensNamed
    <3>3. c[1 + Len(body)] = tokens[1] /\ Len(body) \in Nat
      BY <1>14, <3>2, Appended
    <3>4. end.at = 1 + Len(body)
      BY <1>10, <3>3
    <3> QED BY <1>13, <1>14, <3>1, <3>3, <3>4
  <2>2. ASSUME NEW i \in DOMAIN values, ~ rcn, values[i] # Scalar, Kind(values[i]) # "immutable"
        PROVE  HolderIsPrivateArray(values[i])
    <3>1. values = Kids(n) /\ ~ task.rcn /\ ~ IsShared(n)
      BY <1>6, <1>7, <2>2
    <3>2. KidsFitKind(graph, n)
      BY <1>1 DEF EncInv, EncTyped, WellFormed
    <3>3. values[i] \in Nodes(graph)
      <4>1. values[i] \in Values
        BY <1>6
      <4> QED BY <2>2, <4>1 DEF Values
    <3>4. Kind(n) # "immutable"
      <4> SUFFICES ASSUME Kind(n) = "immutable" PROVE FALSE
        OBVIOUS
      <4>1. i \in DOMAIN graph.kids[n] /\ graph.kids[n][i] = values[i]
        BY <3>1 DEF Kids
      <4>2. IsNode(values[i])
        BY <1>2, <2>2, <3>3 DEF IsNode, Scalar
      <4>3. graph.kind[graph.kids[n][i]] = "immutable"
        BY <3>2, <4>1, <4>2 DEF KidsFitKind, Kind
      <4> QED BY <2>2, <4>1, <4>3 DEF Kind
    <3>5. n \in Private
      <4>1. ~ (Refcount(n) > 1)
        BY <3>1, <3>4 DEF IsShared, IsImmutable
      <4>2. Provenance
        BY DEF KnownAgain
      <4> QED BY <1>1, <3>1, <3>4, <4>1, <4>2, UnsharedIsPrivate
    <3>6. <<n, i>> \in KidPositions(graph, values[i])
      BY <3>1 DEF KidPositions, Kids
    <3> QED BY <1>1, <3>5, <3>6 DEF HolderIsPrivateArray
  <2> QED BY <1>1, <1>10, <1>12, <2>1, <2>2 DEF Reaches
<1>20. IdsStay
  <2>1. claim \in [Nodes(graph) -> {NoEntry, Pending, Unshared} \cup Nat]
    BY RestTyped DEF EncRest
  <2>2. ~ Wrote(ObjectTags \cup {"new_ref"}, n)
    BY <1>1 DEF KnownAgain, TokensNamed, Wrote, WroteIn, ArrayKinds, ObjectKinds
  <2> QED BY <1>4, <2>1, <2>2 DEF IdsStay, HasId
<1> QED BY <1>1, <1>4, <1>11, <1>16, <1>18, <1>19, <1>20, StepKnows

(* The tokens after one is taken out: the others, in order.                *)
Cut(b, at) == SubSeq(b, 1, at - 1) \o SubSeq(b, at + 1, Len(b))
HasTheOthers(c, b, at) ==
  /\ Len(c) = Len(b) - 1 /\ Len(b) \in Nat /\ DOMAIN c = 1 .. Len(b) - 1
  /\ \A i \in DOMAIN c : IF i < at THEN i \in DOMAIN b /\ c[i] = b[i]
                                   ELSE i + 1 \in DOMAIN b /\ c[i] = b[i + 1]
  /\ \A i \in DOMAIN b : i # at => \E j \in DOMAIN c : c[j] = b[i]

(* None but that one is lost, and none is added.                           *)
LEMMA Removed ==
  ASSUME NEW X, NEW b \in Seq(X), NEW at \in 1 .. Len(b), NEW c, c = Cut(b, at)
  PROVE  c \in Seq(X) /\ HasTheOthers(c, b, at)
<1> DEFINE l == SubSeq(b, 1, at - 1)
           r == SubSeq(b, at + 1, Len(b))
           n == Len(b)
<1>1. n \in Nat /\ DOMAIN b = 1 .. n /\ (\A i \in 1 .. n : b[i] \in X) /\ at \in 1 .. n
  BY LenProperties
<1>2. l \in Seq(X) /\ Len(l) = at - 1 /\ \A i \in 1 .. at - 1 : l[i] = b[i]
  <2>1. \A i \in 1 .. at - 1 : b[i] \in X
    BY <1>1
  <2>2. /\ l \in Seq(X) /\ Len(l) = IF 1 <= at - 1 THEN at - 1 - 1 + 1 ELSE 0
        /\ \A i \in 1 .. at - 1 - 1 + 1 : l[i] = b[1 + i - 1]
    BY <1>1, <2>1, SubSeqProperties
  <2> HIDE DEF l
  <2> QED BY <1>1, <2>2
<1>3. r \in Seq(X) /\ Len(r) = n - at /\ \A i \in 1 .. n - at : r[i] = b[i + at]
  <2>1. \A i \in at + 1 .. n : b[i] \in X
    BY <1>1
  <2>2. /\ r \in Seq(X) /\ Len(r) = IF at + 1 <= n THEN n - (at + 1) + 1 ELSE 0
        /\ \A i \in 1 .. n - (at + 1) + 1 : r[i] = b[at + 1 + i - 1]
    BY <1>1, <2>1, SubSeqProperties
  <2> HIDE DEF r, n
  <2>3. Len(r) = n - at
    BY <1>1, <2>2
  <2>4. ASSUME NEW i \in 1 .. n - at PROVE r[i] = b[i + at]
    <3>1. i \in 1 .. n - (at + 1) + 1 /\ at + 1 + i - 1 = i + at
      BY <1>1
    <3>2. r[i] = b[at + 1 + i - 1]
      BY <2>2, <3>1
    <3> QED BY <3>1, <3>2
  <2> QED BY <2>2, <2>3, <2>4
<1> HIDE DEF l, r, n
<1>4. c = l \o r
  BY DEF l, r, n, Cut
<1>5. /\ c \in Seq(X) /\ Len(c) = n - 1 /\ DOMAIN c = 1 .. n - 1
      /\ \A i \in 1 .. n - 1 : c[i] = IF i <= at - 1 THEN l[i] ELSE r[i - (at - 1)]
  <2>0. l \in Seq(X) /\ r \in Seq(X)
    BY <1>2, <1>3
  <2>1. /\ l \o r \in Seq(X) /\ Len(l \o r) = Len(l) + Len(r)
        /\ \A i \in 1 .. Len(l) + Len(r) :
             (l \o r)[i] = IF i <= Len(l) THEN l[i] ELSE r[i - Len(l)]
    BY <2>0, ConcatProperties
  <2>2. Len(l) = at - 1 /\ Len(r) = n - at /\ (at - 1) + (n - at) = n - 1
    BY <1>1, <1>2, <1>3
  <2>3. /\ c \in Seq(X) /\ Len(c) = n - 1
        /\ \A i \in 1 .. n - 1 : c[i] = IF i <= at - 1 THEN l[i] ELSE r[i - (at - 1)]
    BY <1>4, <2>1, <2>2
  <2> QED BY <2>3, LenProperties
<1>6. ASSUME NEW i \in 1 .. n - 1
      PROVE  IF i < at THEN i \in 1 .. n /\ c[i] = b[i] ELSE i + 1 \in 1 .. n /\ c[i] = b[i + 1]
  <2>1. CASE i < at
    <3>1. i \in 1 .. at - 1 /\ i <= at - 1 /\ i \in 1 .. n
      BY <1>1, <2>1
    <3> QED BY <1>2, <1>5, <2>1, <3>1
  <2>2. CASE ~ (i < at)
    <3>1. i - (at - 1) \in 1 .. n - at /\ ~ (i <= at - 1) /\ i + 1 \in 1 .. n
          /\ i - (at - 1) + at = i + 1
      BY <1>1, <2>2
    <3>2. c[i] = r[i - (at - 1)]
      BY <1>5, <3>1
    <3>3. r[i - (at - 1)] = b[i - (at - 1) + at]
      BY <1>3, <3>1
    <3> QED BY <2>2, <3>1, <3>2, <3>3
  <2> QED BY <2>1, <2>2
<1>7. ASSUME NEW i \in 1 .. n, i # at PROVE \E j \in 1 .. n - 1 : c[j] = b[i]
  <2>1. CASE i < at
    <3>1. i \in 1 .. n - 1
      BY <1>1, <2>1
    <3> QED BY <1>6, <2>1, <3>1
  <2>2. CASE ~ (i < at)
    <3>1. i - 1 \in 1 .. n - 1 /\ ~ (i - 1 < at) /\ i - 1 + 1 = i
      BY <1>1, <1>7, <2>2
    <3>2. c[i - 1] = b[i - 1 + 1]
      BY <1>6, <3>1
    <3> QED BY <3>1, <3>2
  <2> QED BY <2>1, <2>2
<1> QED BY <1>1, <1>5, <1>6, <1>7 DEF n, HasTheOthers

(* The end of a walk or of a snapshot.                                     *)
LEMMA EndStepsKnow ==
  ASSUME EncInv, KnownAgain, ArrayDone \/ ReleaseSnapshot
  PROVE  KnownAgain'
<1>1. /\ agenda # <<>> /\ graph' = graph /\ Then(<<>>) /\ task.do \in {"arrayDone", "release"}
  BY DEF ArrayDone, ReleaseSnapshot, NothingMore
<1>2. /\ agenda \in Seq(EncTask) /\ Len(agenda) \in Nat /\ DOMAIN agenda = 1 .. Len(agenda)
      /\ 1 \in DOMAIN agenda /\ task = agenda[1]
  BY <1>1, HeadOfAgenda
<1>3. claim \in [Nodes(graph) -> {NoEntry, Pending, Unshared} \cup Nat] /\ nextId \in Nat
  BY RestTyped DEF EncRest
<1>4. body \in Seq(NodeToken) /\ <<>> \in Seq(EncTask)
  BY DEF KnownAgain, TokensNamed
<1>5. task.do = "arrayDone" =>
        /\ task.n \in Nodes(graph) /\ Kind(task.n) \in ArrayKinds /\ task.at \in 1 .. Len(body)
        /\ task.claimed => body[task.at].tag = "shared"
  <2>1. task.do = "arrayDone" => task.n \in Nodes(graph)
    BY <1>1, HeadTyped
  <2> QED BY <1>2, <2>1 DEF KnownAgain, WalksAndHooks, EncInv, WalksNest
<1>6. task.do = "arrayDone" => ~ Wrote(ObjectTags \cup {"new_ref"}, task.n)
  BY <1>5 DEF KnownAgain, TokensNamed, Wrote, WroteIn, ArrayKinds, ObjectKinds
<1>7. IdsStay
  <2>1. CASE ReleaseSnapshot
    BY <2>1 DEF ReleaseSnapshot, table, IdsStay, HasId
  <2>2. CASE ArrayDone
    <3>1. task.do = "arrayDone"
      BY <2>2 DEF ArrayDone
    <3>2. \/ claim' = claim
          \/ claim' = [claim EXCEPT ![task.n] = nextId]
          \/ claim' = [claim EXCEPT ![task.n] = Unshared]
      BY <2>2 DEF ArrayDone, Claim, table
    <3> QED BY <1>3, <1>5, <1>6, <3>1, <3>2 DEF IdsStay, HasId
  <2> QED BY <2>1, <2>2
<1>8. Announces(<<>>, <<>>, 0) /\ Names(<<>>, 0) /\ Reaches(<<>>, <<>>)
  BY DEF Announces, Names, Reaches
<1>9. CASE body' = body
  <2>1. Emit(<<>>)
    BY <1>4, <1>9, ConcatEmptySeq DEF Emit
  <2> QED BY <1>1, <1>4, <1>7, <1>8, <2>1, StepKnows
<1>10. CASE ArrayDone /\ body' = WithoutToken(task.at) /\ task.claimed
  <2> DEFINE at == task.at
  <2>1. task.do = "arrayDone" /\ at \in 1 .. Len(body) /\ body[at].tag = "shared"
    BY <1>5, <1>10 DEF ArrayDone
  <2>2. PICK c : c = body' /\ c = SubSeq(body, 1, at - 1) \o SubSeq(body, at + 1, Len(body))
    BY <1>10 DEF WithoutToken
  <2>3. /\ c \in Seq(NodeToken) /\ Len(body) \in Nat /\ DOMAIN c = 1 .. Len(body) - 1
        /\ \A i \in DOMAIN c : IF i < at THEN i \in DOMAIN body /\ c[i] = body[i]
                                         ELSE i + 1 \in DOMAIN body /\ c[i] = body[i + 1]
        /\ \A i \in DOMAIN body : i # at => \E j \in DOMAIN c : c[j] = body[i]
    <3>1. PICK b \in Seq(NodeToken) : b = body
      BY <1>4
    <3>2. PICK a \in 1 .. Len(b) : a = at
      BY <2>1, <3>1
    <3>3. c = Cut(b, a)
      BY <2>2, <3>1, <3>2 DEF Cut
    <3> HIDE DEF at
    <3>4. c \in Seq(NodeToken) /\ HasTheOthers(c, b, a)
      BY <3>3, Removed
    <3> QED BY <3>1, <3>2, <3>4 DEF HasTheOthers
  <2> HIDE DEF at
  <2>4. \A i \in DOMAIN c : \E j \in DOMAIN body : j = (IF i < at THEN i ELSE i + 1) /\ c[i] = body[j]
    BY <2>3
  <2>5. \A k, tags : "shared" \notin tags => (WroteIn(c, tags, k) <=> Wrote(tags, k))
    BY <2>1, <2>3, <2>4 DEF Wrote, WroteIn
  <2>6. /\ Private' = Private /\ Nodes(graph)' = Nodes(graph) /\ \A k : graph'.kind[k] = Kind(k)
    BY <1>1, GraphStays
  <2>7. TokensNamed'
    <3>1. \A i \in DOMAIN body : body[i].tag \in ObjectTags \cup {"new_ref"} /\ HasId(body[i].node)
            => claim'[body[i].node] >= 0
      BY <1>7 DEF KnownAgain, TokensNamed, IdsStay, Wrote, WroteIn
    <3>2. \A i \in DOMAIN c :
           /\ c[i].tag \in ObjectTags =>
                /\ c[i].node \in Nodes(graph) /\ Kind(c[i].node) \in ObjectKinds
                /\ claim'[c[i].node] >= 0 \/ c[i].node \in Private
           /\ c[i].tag = "new_ref" =>
                /\ c[i].node \in Nodes(graph) /\ Kind(c[i].node) = "reference"
                /\ claim'[c[i].node] >= 0
      <4> SUFFICES ASSUME NEW i \in DOMAIN c, NEW j \in DOMAIN body, c[i] = body[j]
                   PROVE
           /\ c[i].tag \in ObjectTags =>
                /\ c[i].node \in Nodes(graph) /\ Kind(c[i].node) \in ObjectKinds
                /\ claim'[c[i].node] >= 0 \/ c[i].node \in Private
           /\ c[i].tag = "new_ref" =>
                /\ c[i].node \in Nodes(graph) /\ Kind(c[i].node) = "reference"
                /\ claim'[c[i].node] >= 0
        BY <2>4
      <4> QED BY <3>1 DEF KnownAgain, TokensNamed
    <3> QED BY <2>2, <2>3, <2>6, <3>2 DEF TokensNamed, HasId, Kind
  <2>8. WrittenOnce'
    <3>1. WrittenOnce
      BY DEF KnownAgain
    <3>2. \A i, j \in DOMAIN c :
            /\ c[i].tag = c[j].tag \/ {c[i].tag, c[j].tag} \subseteq ObjectTags
            /\ c[i].tag \in ObjectTags \cup {"new_ref"}
            /\ c[i].node = c[j].node
            => i = j
      <4> SUFFICES ASSUME NEW i \in DOMAIN c, NEW j \in DOMAIN c,
                          c[i].tag = c[j].tag \/ {c[i].tag, c[j].tag} \subseteq ObjectTags,
                          c[i].tag \in ObjectTags \cup {"new_ref"},
                          c[i].node = c[j].node
                   PROVE  i = j
        OBVIOUS
      <4>1. PICK k \in DOMAIN body : k = (IF i < at THEN i ELSE i + 1) /\ c[i] = body[k]
        BY <2>4
      <4>2. PICK l \in DOMAIN body : l = (IF j < at THEN j ELSE j + 1) /\ c[j] = body[l]
        BY <2>4
      <4>3. k = l
        BY <3>1, <4>1, <4>2 DEF WrittenOnce
      <4>4. i \in Int /\ j \in Int /\ at \in Int
        BY <2>1, <2>3
      <4> QED BY <4>1, <4>2, <4>3, <4>4
    <3> QED BY <2>2, <3>2 DEF WrittenOnce
  <2>9. PrivateOnce'
    <3>1. \A k : \A tags \in {ObjectTags \cup {"array"}, {"array"}} :
            WroteIn(c, tags, k) <=> Wrote(tags, k)
      BY <2>5 DEF ObjectTags
    <3>2. WritesNodes(<<>>)
      <4>1. \A k, tags : ~ WroteIn(<<>>, tags, k)
        BY DEF WroteIn
      <4> QED BY <2>2, <3>1, <4>1 DEF WritesNodes
    <3> QED BY <1>1, <1>4, <1>8, <3>2, StepVisits
  <2>10. Provenance' /\ WalksAndHooks'
    <3> DEFINE t == Token("null", 0, 0)
    <3>1. t \in NodeToken
      BY TokensAreNamed DEF WireTags, ScalarTags
    <3> HIDE DEF t
    <3>2. <<t>> \in Seq(NodeToken) /\ <<t>> # <<>> /\ Reaches(<<>>, <<t>>)
      BY <3>1 DEF Reaches
    <3>3. \A i \in DOMAIN agenda : i > 1 /\ agenda[i].do = "arrayDone" /\ agenda[i].claimed =>
            body'[agenda[i].at].tag = body[agenda[i].at].tag
      <4> SUFFICES ASSUME NEW i \in DOMAIN agenda, i > 1, agenda[i].do = "arrayDone"
                   PROVE  c[agenda[i].at] = body[agenda[i].at]
        BY <2>2
      <4>1. agenda[i].at \in 1 .. Len(body) /\ agenda[i].at < at
        BY <1>2, <2>1 DEF EncInv, WalksNest, at
      <4>2. agenda[i].at \in DOMAIN c
        BY <2>1, <2>3, <4>1
      <4> QED BY <2>3, <4>1, <4>2
    <3> QED BY <1>1, <1>4, <3>2, <3>3, StepReaches
  <2> QED BY <2>7, <2>8, <2>9, <2>10 DEF KnownAgain
<1>11. body' = body \/ (ArrayDone /\ body' = WithoutToken(task.at) /\ task.claimed)
  BY DEF ArrayDone, ReleaseSnapshot
<1> QED BY <1>9, <1>10, <1>11

(* Every step of the encoder.                                              *)
LEMMA EncoderKnows ==
  ASSUME EncInv, KnownAgain, EncNext
  PROVE  KnownAgain'
<1>1. CASE EncFinish
  <2>1. UNCHANGED <<graph, agenda, body, claim>>
    BY <1>1 DEF EncFinish, table
  <2>2. Private' = Private
    BY <2>1, GraphStays
  <2>3. TokensNamed' /\ WrittenOnce'
    BY <2>1, <2>2 DEF KnownAgain, TokensNamed, WrittenOnce, HasId, Kind, Nodes
  <2>4. PrivateOnce'
    <3>1. \A n, tags : (Wrote(tags, n)' <=> Wrote(tags, n))
      BY <2>1 DEF Wrote, WroteIn
    <3>2. \A n : Waits(n)' <=> Waits(n)
      BY <2>1 DEF Waits, Visits
    <3>3. \A n : KidPositions(graph', n) = KidPositions(graph, n)
      BY <2>1
    <3>4. PrivateOnce
      BY DEF KnownAgain
    <3> QED BY <2>1, <2>2, <3>1, <3>2, <3>3, <3>4 DEF PrivateOnce, Visits
  <2>5. Provenance'
    BY <2>1, <2>2 DEF KnownAgain, Provenance, Protected, KidPositions, Kind, Nodes
  <2>6. WalksAndHooks'
    BY <2>1, <2>2 DEF KnownAgain, WalksAndHooks, Wrote, HasId, Kind
  <2> QED BY <2>3, <2>4, <2>5, <2>6 DEF KnownAgain
<1>2. ASSUME NEW n \in Nodes(graph), EncodeValue(n) \/ AfterHook(n) PROVE KnownAgain'
  <2>1. CASE \/ ArrayRepeat(n) \/ ReferenceRepeat(n) \/ ObjectRepeat(n)
             \/ Refuse(n) \/ HookYieldsNull(n) \/ HookThrows(n)
    BY <2>1, PlainStepsKnow
  <2>2. CASE ArrayWalk(n)
    BY <2>2, WalkKnows
  <2>3. CASE ReferenceNew(n) \/ EncodeSlots(n) \/ EncodeKeyed(n) \/ EncodeEnum(n) \/ CallHook(n)
    BY <2>3, ValueStepsKnow
  <2>4. CASE EncodeHooked(n) \/ EncodeLegacy(n) \/ EncodeMagic(n) \/ EncodeFactory(n)
    BY <2>4, HookStepsKnow
  <2> QED BY <1>2, <2>1, <2>2, <2>3, <2>4 DEF EncodeValue, AfterHook
<1> QED BY <1>1, <1>2, PlainStepsKnow, EndStepsKnow DEF EncNext

(* Before the first step nothing is written, and the argument's holder, if *)
(* it is private, is nobody.                                               *)
LEMMA NothingKnown ==
  ASSUME Init
  PROVE  IdentInv
<1>1. CASE Idle
  BY <1>1 DEF Idle, IdentInv
<1>2. CASE EncInit
  <2>1. EncInv
    BY EncoderBegins
  <2> DEFINE t == ValueTask(1, 0, FALSE, FALSE)
  <2>2. agenda = <<t>> /\ body = <<>>
    BY <1>2 DEF EncInit
  <2>3. t.do = "value" /\ t.v = 1
    BY DEF ValueTask
  <2> HIDE DEF t
  <2>4. DOMAIN agenda = {1} /\ agenda[1] = t /\ agenda # <<>> /\ body \in Seq(NodeToken) /\ DOMAIN body = {}
    BY <2>2
  <2>5. TokensNamed /\ WrittenOnce
    BY <2>4 DEF TokensNamed, WrittenOnce
  <2>6. \A tags, n : ~ Wrote(tags, n)
    BY <2>4 DEF Wrote, WroteIn
  <2>7. ASSUME NEW n \in Private
        PROVE  /\ \A i, j \in DOMAIN agenda : Visits(agenda[i], n) /\ Visits(agenda[j], n) => i = j
               /\ Waits(n) => KidPositions(graph, n) = {}
    <3>1. Waits(n) => n = 1
      BY <2>3, <2>4 DEF Waits, Visits
    <3>2. OwnRefcount(graph, n) = 1
      BY PrivateLargest DEF PrivateSet
    <3>3. n = 1 => KidPositions(graph, n) = {}
      BY <2>1, <2>4, <3>2, HeldByOne
    <3> QED BY <2>4, <3>1, <3>3
  <2>8. PrivateOnce
    BY <2>6, <2>7 DEF PrivateOnce
  <2>9. Provenance /\ WalksAndHooks
    BY <2>3, <2>4 DEF Provenance, WalksAndHooks
  <2> QED BY <2>5, <2>8, <2>9 DEF IdentInv, KnownAgain
<1> QED BY <1>1, <1>2 DEF Init

(* What the encoder knows does not depend on the decoder.                  *)
LEMMA KnownUnmoved ==
  ASSUME KnownAgain, UNCHANGED encVars
  PROVE  KnownAgain'
<1>1. UNCHANGED <<graph, agenda, body, claim>>
  BY DEF encVars, table
<1>2. Private' = Private
  BY <1>1, GraphStays
<1>3. TokensNamed' /\ WrittenOnce'
  BY <1>1, <1>2 DEF KnownAgain, TokensNamed, WrittenOnce, HasId, Kind, Nodes
<1>4. PrivateOnce'
  <2>1. \A n, tags : (Wrote(tags, n)' <=> Wrote(tags, n))
    BY <1>1 DEF Wrote, WroteIn
  <2>2. \A n : Waits(n)' <=> Waits(n)
    BY <1>1 DEF Waits, Visits
  <2>3. \A n : KidPositions(graph', n) = KidPositions(graph, n)
    BY <1>1
  <2>4. PrivateOnce
    BY DEF KnownAgain
  <2> QED BY <1>1, <1>2, <2>1, <2>2, <2>3, <2>4 DEF PrivateOnce, Visits
<1>5. Provenance'
  BY <1>1, <1>2 DEF KnownAgain, Provenance, Protected, KidPositions, Kind, Nodes
<1>6. WalksAndHooks'
  BY <1>1, <1>2 DEF KnownAgain, WalksAndHooks, Wrote, WroteIn, HasId, Kind
<1> QED BY <1>3, <1>4, <1>5, <1>6 DEF KnownAgain

(* Which step of the encoder may be taken when.                            *)
LEMMA EncoderSteps ==
  ASSUME LinkInv, EncNext
  PROVE  /\ encoded = "no"
         /\ \/ encoded' = "no"
            \/ agenda = <<>> /\ agenda' = <<>> /\ encoded' = Outcome /\ UNCHANGED <<failed, depthExceeded>>
<1>1. CASE EncFinish
  BY <1>1 DEF EncFinish
<1>2. CASE ~ EncFinish
  <2>1. agenda # <<>> /\ encoded' = encoded
    <3>1. CASE FailedPlaceholder \/ TooDeep \/ EncodeScalar \/ ArrayDone \/ ReleaseSnapshot
      BY <3>1 DEF FailedPlaceholder, TooDeep, EncodeScalar, ArrayDone, ReleaseSnapshot, IsValue
    <3>2. ASSUME NEW n, EncodeValue(n) PROVE agenda # <<>> /\ encoded' = encoded
      BY <3>2 DEF EncodeValue, ArrayRepeat, ArrayWalk, ReferenceRepeat, ReferenceNew, ObjectRepeat,
         EncodeSlots, EncodeKeyed, EncodeEnum, Refuse, CallHook, NewObject, Visiting, IsValue
    <3>3. ASSUME NEW n, AfterHook(n) PROVE agenda # <<>> /\ encoded' = encoded
      BY <3>3 DEF AfterHook, EncodeHooked, EncodeLegacy, EncodeMagic, EncodeFactory,
         HookYieldsNull, HookThrows, HookReturned
    <3> QED BY <1>2, <3>1, <3>2, <3>3 DEF EncNext
  <2> QED BY <2>1 DEF LinkInv
<1> QED BY <1>1, <1>2

(* A frame is decoded after it was returned, and is what was written.      *)
LEMMA Linked ==
  ASSUME LinkInv, EncInv, [Next]_vars
  PROVE  LinkInv'
<1>0. encoded \in {"no", "ok", "depth", "exception", "none"} /\ failed \in BOOLEAN /\ depthExceeded \in BOOLEAN
  BY DEF EncInv, EncTyped, EncTypeOK
<1>1. CASE EncNext /\ UNCHANGED decVars
  <2>1. /\ encoded = "no" /\ decoded = "no" /\ decoded' = "no"
        /\ \/ encoded' = "no"
           \/ agenda' = <<>> /\ encoded' = Outcome /\ UNCHANGED <<failed, depthExceeded>>
    BY <1>1, EncoderSteps DEF LinkInv, decVars
  <2> QED BY <1>0, <2>1 DEF LinkInv, Outcome
<1>2. CASE Deliver \/ Arrive
  <2>1. UNCHANGED <<agenda, body, failed, depthExceeded, encoded>>
    BY <1>2 DEF Deliver, Arrive, encVars
  <2>2. CASE Deliver
    BY <2>1, <2>2 DEF Deliver, DecStart, LinkInv
  <2>3. CASE Arrive
    BY <2>1, <2>3 DEF Arrive, LinkInv
  <2> QED BY <1>2, <2>2, <2>3
<1>3. CASE DecNext /\ UNCHANGED encVars
  <2>1. decoded = "running" /\ frame' = frame
    <3>1. CASE DecFail \/ DecFinish
      BY <3>1 DEF DecFail, DecFinish
    <3>2. CASE DecStep
      BY <3>2 DEF DecStep, ReadScalar, ReadBackReference, ReadArray, ReadSharedArray, SharedArrayComplete,
         ReadNewReference, ReferenceComplete, ReadObject, ReadMagicObject, MagicObjectComplete, Reading
    <3> QED BY <1>3, <3>1, <3>2 DEF DecNext
  <2> QED BY <1>0, <1>3, <2>1 DEF LinkInv, encVars
<1>4. CASE UNCHANGED vars
  BY <1>4 DEF vars, encVars, decVars, LinkInv
<1> QED BY <1>1, <1>2, <1>3, <1>4 DEF Next, Stop

----------------------------------------------------------------------------
(* Where in the frame an entity comes from.                                *)

TagMakes(tag, kind) ==
  \/ kind = "array" /\ tag = "array"
  \/ kind = "reference" /\ tag = "new_ref"
  \/ kind = "object" /\ tag \in ObjectTags

(* Each entity comes from a token of its own, one already consumed.        *)
OwnTokens ==
  \E src \in [Entities -> Nat] :
    /\ \A e \in Entities :
         /\ src[e] \in 1 .. pos
         /\ made[e].from = frame[src[e]] /\ TagMakes(made[e].from.tag, made[e].kind)
    /\ \A d, e \in Entities : src[d] = src[e] => d = e

(* A value stored in an entity changes no entity's kind or token.          *)
LEMMA StoreIsInside ==
  ASSUME DecInv, NEW base \in Seq(EntityRec), NEW v, Store(base, v)
  PROVE  /\ DOMAIN made' = DOMAIN base
         /\ \A e \in DOMAIN base : made'[e].kind = base[e].kind /\ made'[e].from = base[e].from
<1>1. CASE todoHead.into = 0
  BY <1>1 DEF Store, StoreIn
<1>2. CASE todoHead.into # 0
  <2>1. PICK p : p = todoHead.into
    OBVIOUS
  <2>2. PICK r : r = [base[p] EXCEPT !.kids = Append(@, v)]
    OBVIOUS
  <2>3. made' = [base EXCEPT ![p] = r]
    BY <1>2, <2>1, <2>2 DEF Store, StoreIn
  <2>4. DOMAIN made' = DOMAIN base /\ \A e \in DOMAIN base : made'[e] = IF e = p THEN r ELSE base[e]
    BY <2>3
  <2>5. p \in DOMAIN base => r.kind = base[p].kind /\ r.from = base[p].from
    <3> SUFFICES ASSUME p \in DOMAIN base PROVE r.kind = base[p].kind /\ r.from = base[p].from
      OBVIOUS
    <3>1. PICK b : b = base[p]
      OBVIOUS
    <3>2. b \in [kind : {"array", "reference", "object"}, kids : Seq(Int), from : AnyToken]
      <4>1. base[p] \in EntityRec
        BY LenProperties
      <4> QED BY <3>1, <4>1 DEF EntityRec
    <3>3. PICK k : k = Append(b.kids, v)
      OBVIOUS
    <3>4. r = [b EXCEPT !.kids = k]
      BY <2>2, <3>1, <3>3
    <3> QED BY <3>1, <3>2, <3>4
  <2> QED BY <2>4, <2>5
<1> QED BY <1>1, <1>2

(* A step that makes no entity.                                            *)
LEMMA TokensStay ==
  ASSUME DecInv, OwnTokens, frame' = frame, pos \in Nat, pos' \in Nat, pos <= pos',
         Entities' = Entities,
         \A e \in Entities : made'[e].kind = made[e].kind /\ made'[e].from = made[e].from
  PROVE  OwnTokens'
<1>1. PICK src \in [Entities -> Nat] :
        /\ \A e \in Entities :
             /\ src[e] \in 1 .. pos
             /\ made[e].from = frame[src[e]] /\ TagMakes(made[e].from.tag, made[e].kind)
        /\ \A d, e \in Entities : src[d] = src[e] => d = e
  BY DEF OwnTokens
<1>2. \A e \in Entities :
        /\ src[e] \in 1 .. pos'
        /\ made'[e].from = frame'[src[e]] /\ TagMakes(made'[e].from.tag, made'[e].kind)
  BY <1>1
<1> QED BY <1>1, <1>2 DEF OwnTokens

(* A step that makes one, from a token it consumes.                        *)
LEMMA TokenTaken ==
  ASSUME DecInv, OwnTokens, frame' = frame, pos \in Nat, pos' \in Nat,
         NEW q \in Nat, pos < q, q <= pos',
         NEW kind, TagMakes(frame[q].tag, kind),
         frame[q] \in AnyToken, kind \in {"array", "reference", "object"},
         Store(Append(made, [kind |-> kind, kids |-> <<>>, from |-> frame[q]]), new)
  PROVE  OwnTokens'
<1>1. PICK src \in [Entities -> Nat] :
        /\ \A e \in Entities :
             /\ src[e] \in 1 .. pos
             /\ made[e].from = frame[src[e]] /\ TagMakes(made[e].from.tag, made[e].kind)
        /\ \A d, e \in Entities : src[d] = src[e] => d = e
  BY DEF OwnTokens
<1> DEFINE rec == [kind |-> kind, kids |-> <<>>, from |-> frame[q]]
           base == Append(made, rec)
<1>2. /\ made \in Seq(EntityRec) /\ Len(made) \in Nat /\ Entities = 1 .. Len(made)
      /\ new = Len(made) + 1
  BY MadeTyped DEF new
<1>3. rec \in EntityRec /\ rec.kind = kind /\ rec.from = frame[q]
  BY DEF EntityRec
<1> HIDE DEF rec
<1>4. /\ base \in Seq(EntityRec) /\ DOMAIN base = 1 .. Len(made) + 1
      /\ \A e \in 1 .. Len(made) : base[e] = made[e]
      /\ base[Len(made) + 1] = rec
  BY <1>2, <1>3, AppendProperties, LenProperties
<1>5. Store(base, new)
  BY DEF rec
<1> HIDE DEF base
<1>6. /\ DOMAIN made' = DOMAIN base
      /\ \A e \in DOMAIN base : made'[e].kind = base[e].kind /\ made'[e].from = base[e].from
  BY <1>4, <1>5, StoreIsInside
<1>7. Entities' = 1 .. Len(made) + 1
  BY <1>4, <1>6 DEF Entities
<1> DEFINE s == [e \in 1 .. Len(made) + 1 |-> IF e = Len(made) + 1 THEN q ELSE src[e]]
<1>8. /\ s \in [1 .. Len(made) + 1 -> Nat] /\ s[Len(made) + 1] = q
      /\ \A e \in 1 .. Len(made) : s[e] = src[e]
  BY <1>1, <1>2
<1> HIDE DEF s
<1>9. \A e \in 1 .. Len(made) + 1 : e \in 1 .. Len(made) \/ e = Len(made) + 1
  BY <1>2
<1>10. \A e \in 1 .. Len(made) : s[e] \in 1 .. pos /\ s[e] # q
  BY <1>1, <1>2, <1>8
<1>11. ASSUME NEW e \in 1 .. Len(made) + 1
       PROVE  /\ s[e] \in 1 .. pos'
              /\ made'[e].from = frame'[s[e]] /\ TagMakes(made'[e].from.tag, made'[e].kind)
  <2>1. CASE e \in 1 .. Len(made)
    <3>1. s[e] \in 1 .. pos'
      BY <1>10, <2>1
    <3>2. made'[e].from = made[e].from /\ made'[e].kind = made[e].kind
      BY <1>4, <1>6, <2>1
    <3> QED BY <1>1, <1>2, <1>8, <2>1, <3>1, <3>2
  <2>2. CASE e = Len(made) + 1
    <3>1. made'[e].from = frame[q] /\ made'[e].kind = kind
      BY <1>3, <1>4, <1>6, <2>2
    <3>2. q \in 1 .. pos'
      OBVIOUS
    <3> QED BY <1>8, <2>2, <3>1, <3>2
  <2> QED BY <1>9, <2>1, <2>2
<1>12. \A d, e \in 1 .. Len(made) + 1 : s[d] = s[e] => d = e
  BY <1>1, <1>2, <1>8, <1>9, <1>10
<1> QED BY <1>7, <1>8, <1>11, <1>12 DEF OwnTokens

(* Every step of the decoder takes a token for the entity it makes.        *)
LEMMA DecoderTakes ==
  ASSUME DecInv, OwnTokens, DecNext
  PROVE  OwnTokens'
<1>1. made \in Seq(EntityRec) /\ pos \in Nat /\ pos + 1 \in Nat /\ pos + 2 \in Nat
  <2>1. pos \in 0 .. Len(frame) /\ Len(frame) \in Nat
    BY LenProperties DEF DecInv, DecTyped, DecTypeOK
  <2> QED BY <2>1, MadeTyped
<1>2. ASSUME UNCHANGED <<frame, made, pos>> PROVE OwnTokens'
  BY <1>1, <1>2, TokensStay DEF Entities
<1>3. ASSUME NEW v, Store(made, v), pos' = pos + 1, frame' = frame PROVE OwnTokens'
  <2>1. /\ DOMAIN made' = DOMAIN made
        /\ \A e \in DOMAIN made : made'[e].kind = made[e].kind /\ made'[e].from = made[e].from
    BY <1>1, <1>3, StoreIsInside
  <2> QED BY <1>1, <1>3, <2>1, TokensStay DEF Entities
<1>4. CASE SharedArrayComplete \/ ReferenceComplete \/ MagicObjectComplete \/ DecFail \/ DecFinish
  BY <1>2, <1>4 DEF SharedArrayComplete, ReferenceComplete, MagicObjectComplete, DecFail, DecFinish
<1>5. CASE ReadScalar \/ ReadBackReference
  BY <1>3, <1>5 DEF ReadScalar, ReadBackReference, Advance
<1>6. ASSUME NEW tags, Reading(tags)
      PROVE  token.tag \in tags /\ token = frame[pos + 1] /\ token \in AnyToken
  BY <1>6, ReadingTyped DEF Reading, token
<1>7. ASSUME NEW kind \in {"array", "reference", "object"}, NEW tags, Reading(tags),
             \A tag \in tags : TagMakes(tag, kind),
             Store(Create(kind), new), pos' = pos + 1, frame' = frame
      PROVE  OwnTokens'
  <2>1. PICK q : q = pos + 1
    OBVIOUS
  <2>2. q \in Nat /\ pos < q /\ q <= pos' /\ pos' \in Nat
    BY <1>1, <1>7, <2>1
  <2>3. frame[q].tag \in tags /\ token = frame[q] /\ frame[q] \in AnyToken
    BY <1>6, <1>7, <2>1
  <2>4. Store(Append(made, [kind |-> kind, kids |-> <<>>, from |-> frame[q]]), new)
    BY <1>7, <2>3 DEF Create
  <2> QED BY <1>1, <1>7, <2>2, <2>3, <2>4, TokenTaken
<1>8. CASE ReadArray
  BY <1>7, <1>8 DEF ReadArray, Advance, TagMakes
<1>9. CASE ReadNewReference
  BY <1>7, <1>9 DEF ReadNewReference, Advance, TagMakes
<1>10. CASE ReadObject
  BY <1>7, <1>10 DEF ReadObject, Advance, TagMakes, ObjectTags
<1>11. CASE ReadMagicObject
  BY <1>7, <1>11 DEF ReadMagicObject, Advance, TagMakes, ObjectTags
<1>12. CASE ReadSharedArray
  <2>1. PICK q : q = pos + 2
    OBVIOUS
  <2>2. Reading({"shared"}) /\ NextTagIs("array") /\ pos' = q /\ frame' = frame
    BY <1>12, <2>1 DEF ReadSharedArray
  <2>3. q \in Nat /\ pos < q /\ q <= pos' /\ pos' \in Nat
    BY <1>1, <2>1, <2>2
  <2>4. TagMakes(frame[q].tag, "array") /\ frame[q] \in AnyToken
    BY <2>1, <2>2, ReadingTyped DEF NextTagIs, TagMakes
  <2>5. PICK kind : kind = "array"
    OBVIOUS
  <2>6. Store(Append(made, [kind |-> kind, kids |-> <<>>, from |-> frame[q]]), new)
    BY <1>12, <2>1, <2>5 DEF ReadSharedArray
  <2> QED BY <1>1, <2>2, <2>3, <2>4, <2>5, <2>6, TokenTaken
<1> QED BY <1>4, <1>5, <1>8, <1>9, <1>10, <1>11, <1>12 DEF DecNext, DecStep

(* Every step keeps what identity rests on.                                *)
LEMMA IdentityKept ==
  ASSUME EncInv, DecInv, IdentInv, LinkInv, OwnTokens, [Next]_vars
  PROVE  IdentInv' /\ OwnTokens'
<1>1. CASE EncNext /\ UNCHANGED decVars
  <2>1. UNCHANGED <<frame, made, pos>>
    BY <1>1 DEF decVars
  <2>2. OwnTokens'
    BY <2>1 DEF OwnTokens, Entities
  <2>3. encoded = "no"
    BY <1>1, EncoderSteps
  <2>4. KnownAgain'
    BY <1>1, <2>3, EncoderKnows DEF IdentInv
  <2> QED BY <2>2, <2>4 DEF IdentInv
<1>2. ASSUME UNCHANGED encVars PROVE IdentInv'
  <2>1. encoded' = encoded
    BY <1>2 DEF encVars
  <2> QED BY <1>2, <2>1, KnownUnmoved DEF IdentInv
<1>3. CASE Deliver \/ Arrive
  <2>1. UNCHANGED encVars /\ decoded = "no" /\ made' = made
    BY <1>3 DEF Deliver, Arrive, DecStart
  <2>2. made = <<>>
    BY <2>1 DEF DecInv, DecTyped
  <2>3. Entities' = {}
    BY <2>1, <2>2 DEF Entities
  <2>4. OwnTokens'
    <3>1. PICK src : src = [e \in {} |-> 0]
      OBVIOUS
    <3>2. src \in [{} -> Nat]
      BY <3>1
    <3> QED BY <2>3, <3>2 DEF OwnTokens
  <2> QED BY <1>2, <2>1, <2>4
<1>4. CASE DecNext /\ UNCHANGED encVars
  BY <1>2, <1>4, DecoderTakes
<1>5. CASE UNCHANGED vars
  <2>1. UNCHANGED encVars /\ UNCHANGED <<frame, made, pos>>
    BY <1>5 DEF vars, decVars
  <2>2. OwnTokens'
    BY <2>1 DEF OwnTokens, Entities
  <2> QED BY <1>2, <2>1, <2>2
<1> QED BY <1>1, <1>3, <1>4, <1>5 DEF Next, Stop

(* Before the first step.                                                  *)
LEMMA IdentityBegins ==
  ASSUME Init
  PROVE  LinkInv /\ OwnTokens
<1>1. decoded = "no" /\ made = <<>>
  BY DEF Init, DecInit
<1>2. (encoded = "no" /\ decoded = "no") \/ (encoded = "none" /\ agenda = <<>>)
  BY <1>1 DEF Init, EncInit, Idle
<1>3. Entities = {}
  BY <1>1 DEF Entities
<1>4. PICK src : src = [e \in {} |-> 0]
  OBVIOUS
<1>5. src \in [{} -> Nat]
  BY <1>4
<1> QED BY <1>1, <1>2, <1>3, <1>5 DEF LinkInv, OwnTokens

(* What identity rests on: the encoder writes an object or a reference     *)
(* once, and each entity of the copy comes from a token of its own.        *)
THEOREM IdentityInvariant == Spec => [](IdentInv /\ LinkInv /\ OwnTokens)
<1>1. Init => IdentInv /\ LinkInv /\ OwnTokens
  BY NothingKnown, IdentityBegins
<1>2. (EncInv /\ DecInv) /\ (IdentInv /\ LinkInv /\ OwnTokens) /\ [Next]_vars
        => (IdentInv /\ LinkInv /\ OwnTokens)'
  BY IdentityKept, Linked
<1> QED BY <1>1, <1>2, WalksInvariant, PTL DEF Spec

(* In the decoded value an object or a reference of the original has one   *)
(* copy, however many paths lead to it: through the id table, through      *)
(* arrays copied for a walk, through hooks that encode in between.         *)
THEOREM OneCopyOfEach == Spec => []SameIdentity
<1>1. ASSUME DecInv, IdentInv, LinkInv, OwnTokens PROVE SameIdentity
  <2> SUFFICES ASSUME Done, NEW d \in Entities, NEW e \in Entities,
                      made[d].kind \in {"object", "reference"},
                      made[e].kind = made[d].kind, Origin(d) = Origin(e)
               PROVE  d = e
    BY DEF SameIdentity
  <2>1. frame = body /\ WrittenOnce /\ body \in Seq(NodeToken)
    BY <1>1 DEF Done, LinkInv, IdentInv, KnownAgain, TokensNamed
  <2>2. PICK src \in [Entities -> Nat] :
          /\ \A x \in Entities :
               /\ src[x] \in 1 .. pos
               /\ made[x].from = frame[src[x]] /\ TagMakes(made[x].from.tag, made[x].kind)
          /\ \A x, y \in Entities : src[x] = src[y] => x = y
    BY <1>1 DEF OwnTokens
  <2>3. \A x \in Entities : src[x] \in DOMAIN body
    <3>1. pos \in 0 .. Len(body) /\ Len(body) \in Nat /\ DOMAIN body = 1 .. Len(body)
      BY <1>1, <2>1, LenProperties DEF DecInv, DecTyped, DecTypeOK
    <3> QED BY <2>2, <3>1
  <2>4. PICK i \in DOMAIN body : i = src[d]
    BY <2>3
  <2>5. PICK j \in DOMAIN body : j = src[e]
    BY <2>3
  <2>6. /\ body[i].node = body[j].node
        /\ TagMakes(body[i].tag, made[d].kind) /\ TagMakes(body[j].tag, made[d].kind)
    BY <2>1, <2>2, <2>4, <2>5 DEF Origin
  <2>7. /\ body[i].tag = body[j].tag \/ {body[i].tag, body[j].tag} \subseteq ObjectTags
        /\ body[i].tag \in ObjectTags \cup {"new_ref"}
    BY <2>6 DEF TagMakes
  <2>8. i = j
    BY <2>1, <2>6, <2>7 DEF WrittenOnce
  <2> QED BY <2>2, <2>4, <2>5, <2>8
<1> QED BY <1>1, IdentityInvariant, WalksInvariant, PTL
=============================================================================
