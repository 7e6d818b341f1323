---------------------------- MODULE MCGraphCodec ----------------------------
(***************************************************************************)
(* Small instances of GraphCodec: every graph of the given kinds, up to    *)
(* renaming of its nodes, with at most two values per node and at most     *)
(* maxEdges values in all; and every frame of at most MaxTokens tokens,    *)
(* most of which no encoder writes: truncated, out of order, with ids that *)
(* do not exist.                                                           *)
(***************************************************************************)
EXTENDS GraphCodec, FiniteSetsExt

CONSTANT MaxTokens

Lists(size) == UNION {[1 .. len -> 0 .. size] : len \in 0 .. 2}

(* Nodes are numbered in the order in which a breadth-first listing of the *)
(* kids first mentions them; every node but the first is mentioned earlier.*)
FirstMention(kids, m) ==
  Min({3 * j + i : <<j, i>> \in {p \in (DOMAIN kids) \X (1 .. 2) :
                     p[2] \in DOMAIN kids[p[1]] /\ kids[p[1]][p[2]] = m}} \cup {99})

Canonical(kids) ==
  \A m \in 2 .. Len(kids) :
    /\ FirstMention(kids, m) < 3 * m
    /\ m > 2 => FirstMention(kids, m - 1) < FirstMention(kids, m)

Edges(kids) == MapThenSumSet(LAMBDA n : Len(kids[n]), DOMAIN kids)

Shapes(size, maxEdges) ==
  {kids \in [1 .. size -> Lists(size)] : Edges(kids) <= maxEdges /\ Canonical(kids)}

GraphsOf(size, maxEdges, kinds, holders) ==
  {g \in [kind : [1 .. size -> kinds], kids : Shapes(size, maxEdges), outside : holders] :
     WellFormed(g)}

(* Arrays, references and plain objects; one node also held by a variable. *)
Plain == {"array", "reference", "slots"}
PlainGraphs == GraphsOf(2, 4, Plain, {{}, {2}}) \cup GraphsOf(3, 5, Plain, {{}, {2}, {3}})

(* Classes that run user code, alone with a sibling of any kind, and two   *)
(* of them around arrays and plain objects.                                *)
HookGraphs ==
  GraphsOf(2, 3, Kinds, {{}, {2}})
    \cup GraphsOf(3, 4, {"array", "sleep", "magic", "factory"}, {{}})
    \cup GraphsOf(3, 3, {"array", "immutable", "keyed", "lazy", "legacy", "forbidden"}, {{}})

(* Arrays and references that nobody but their array holds.                *)
LoneReferenceGraphs == GraphsOf(3, 3, {"array", "reference"}, {{}})

MCGraphs == PlainGraphs \cup HookGraphs

Tok(tag, arg) == [tag |-> tag, arg |-> arg]
Tokens ==
  {Tok("scalar", 0), Tok("ref", 0), Tok("ref", 1), Tok("array", 1), Tok("array", 2),
   Tok("shared", 0), Tok("new_ref", 1), Tok("object", 1), Tok("magic", 1)}

MCFrames == UNION {[1 .. len -> Tokens] : len \in 1 .. MaxTokens}
=============================================================================
