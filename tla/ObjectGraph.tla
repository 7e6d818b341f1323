---------------------------- MODULE ObjectGraph ----------------------------
(***************************************************************************)
(* The PHP values phpser walks.  A graph is a record                       *)
(*   kind    : kind[n] for the nodes 1 .. Len(kind); node 1 is the argument*)
(*   kids    : kids[n], the values node n holds, in iteration order        *)
(*   outside : nodes also held by variables that are not serialized        *)
(* A value is a node, or Scalar: which number or string a leaf holds does  *)
(* not matter here.  Null is what the encoder writes for a dropped object. *)
(***************************************************************************)
EXTENDS Integers, Sequences, FiniteSets

Scalar == 0
Null   == -1

ArrayKinds  == {"array", "immutable"}
ObjectKinds == {"slots",         \* declared properties, read slot by slot
                "keyed",         \* properties read from a table or by key
                "sleep",         \* has __sleep()
                "magic",         \* __serialize() returns its array property
                "factory",       \* __serialize() returns an array it builds
                "legacy",        \* C-level serialize handler: a blob
                "lazy",          \* properties table produced by user code
                "enum",
                "forbidden"}     \* ZEND_ACC_NOT_SERIALIZABLE
HookKinds   == {"sleep", "magic", "factory", "legacy", "lazy"}
Kinds == ArrayKinds \cup ObjectKinds \cup {"reference"}

Nodes(g) == DOMAIN g.kind
IsNode(v) == v > 0

KidPositions(g, n) ==
  UNION {{m} \X {i \in DOMAIN g.kids[m] : g.kids[m][i] = n} : m \in Nodes(g)}

(* References the program holds on a node: one per place that holds it.    *)
OwnRefcount(g, n) ==
  Cardinality(KidPositions(g, n))
    + (IF n = 1 THEN 1 ELSE 0) + (IF n \in g.outside THEN 1 ELSE 0)

(* Copy-on-write keeps an array from containing itself except through a    *)
(* reference or an object: nested arrays only get lower.                   *)
NoArrayCycle(g) ==
  \E height \in [Nodes(g) -> Nodes(g)] :
    \A m \in Nodes(g) : \A i \in DOMAIN g.kids[m] :
      LET k == g.kids[m][i]
      IN g.kind[m] \in ArrayKinds /\ IsNode(k) /\ g.kind[k] \in ArrayKinds
           => height[k] < height[m]

KidsFitKind(g, n) ==
  CASE g.kind[n] = "reference" ->
         Len(g.kids[n]) = 1 /\ \A k \in {g.kids[n][1]} :
           IsNode(k) => g.kind[k] # "reference"
    [] g.kind[n] = "immutable" ->
         \A i \in DOMAIN g.kids[n] :
           IsNode(g.kids[n][i]) => g.kind[g.kids[n][i]] = "immutable"
    [] g.kind[n] = "magic" ->
         /\ Len(g.kids[n]) = 1
         /\ IsNode(g.kids[n][1]) /\ g.kind[g.kids[n][1]] \in ArrayKinds
    [] g.kind[n] \in {"legacy", "enum", "forbidden"} -> g.kids[n] = <<>>
    [] OTHER -> TRUE

WellFormed(g) ==
  /\ g.kind \in Seq(Kinds)
  /\ g.kids \in [Nodes(g) -> Seq(Nodes(g) \cup {Scalar})]
  /\ \A n \in Nodes(g) : KidsFitKind(g, n)
  /\ 1 \in Nodes(g) /\ g.kind[1] # "reference"        \* an argument is passed by value
  /\ g.outside \subseteq Nodes(g)
  /\ NoArrayCycle(g)
=============================================================================
