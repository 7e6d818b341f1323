------------------------------ MODULE Budgets ------------------------------
(***************************************************************************)
(* What the encoder may emit and what the decoder is willing to build.     *)
(* Rows of a table, and the elements of an arithmetic run, cost memory out *)
(* of proportion to the bytes they come in.  The decoder has an allowance  *)
(* for rows, a fixed one and so much per byte of the frame, and a number   *)
(* of run elements; both are used up over the whole frame.  The encoder    *)
(* does not know how long the frame will be, so it counts what a table     *)
(* costs beyond the bytes its cells are sure to take, and writes the list  *)
(* by value when that would exceed the fixed part.                         *)
(*                                                                         *)
(* Objects decoded without an __unserialize hook draw on the same          *)
(* allowance, for the copy of their data into properties.                  *)
(***************************************************************************)
EXTENDS Integers, Sequences

CONSTANTS
  Sizes,        \* allocation sizes of a hash table: HT_MIN_SIZE and its doubles
  Columns,      \* numbers of columns
  Lengths,      \* numbers of rows, of run elements, of data elements
  Allowance,    \* PHPSER_MATERIALIZE_ALLOWANCE
  MaxElems,     \* PHPSER_SUBLINEAR_MAX_ELEMS
  MaxItems      \* bound: tables, runs and objects in a frame

Ratio == 64  \* PHPSER_MATERIALIZE_RATIO

ASSUME BudgetsAssumption ==
  /\ Sizes \subseteq Nat /\ Columns \subseteq Nat \ {0} /\ Lengths \subseteq Nat
  /\ \A c \in Columns \cup Lengths :
       \E s \in Sizes : c <= s /\ \A u \in Sizes : c <= u => s <= u
  /\ Allowance \in Nat /\ MaxElems \in Nat /\ MaxItems \in Nat

VARIABLES
  phase,          \* "encoding", "decoding", "refused" or "done"
  items,          \* of the frame; wire is their length and what is between them
  wire,
  excess,         \* e->materialization_excess
  encElems,       \* e->sublinear_elems
  next,           \* the item the decoder reads next
  left,           \* d->materialize_left
  decElems,       \* d->sublinear_elems
  due, counted    \* history: what the decoder charges and counts for the first items

budgetVars == <<phase, items, wire, excess, encElems, next, left, decElems, due, counted>>

(* phpser_mixed_array_bytes, in the sizes of 64-bit builds. *)
Capacity(count) == CHOOSE s \in Sizes : count <= s /\ \A u \in Sizes : count <= u => s <= u
ArrayBytes(count) == 56 + Capacity(count) * 40
RowBytes(ncols)   == ArrayBytes(ncols) + 48

(* What the decoder charges for an item, and the elements it counts.        *)
Table(n, c) == [kind |-> "table", rows |-> n, cols |-> c]
Run(n)      == [kind |-> "run", elems |-> n]
Object(n, hook) == [kind |-> "object", elems |-> n, hook |-> hook]
Charge(i) == CASE i.kind = "table"  -> i.rows * RowBytes(i.cols)
               [] i.kind = "run"    -> 0
               [] i.kind = "object" -> IF i.hook THEN 0 ELSE ArrayBytes(i.elems) + i.elems * 48
Elems(i)  == IF i.kind = "run" THEN i.elems ELSE 0

-----------------------------------------------------------------------------
(* The encoder.                                                             *)

Encoding == phase = "encoding" /\ Len(items) < MaxItems
Emit(item, bytes) ==
  LET n == Len(items) IN
  /\ items' = Append(items, item)
  /\ wire' = wire + bytes
  /\ due' = [due EXCEPT ![n + 1] = due[n] + Charge(item)]
  /\ counted' = [counted EXCEPT ![n + 1] = counted[n] + Elems(item)]

Excess(c) == IF RowBytes(c) > c * Ratio THEN RowBytes(c) - c * Ratio ELSE 0

Fits(n, c) ==
  LET available == Allowance - excess IN
  Excess(c) <= available /\ IF Excess(c) = 0 THEN TRUE ELSE n <= available \div Excess(c)

(* Mutant: what a table costs is counted once, not for every row. *)
SpendOnce(n, c) == excess + Excess(c)

Spend(n, c) == excess + n * Excess(c)

(* enc_try_table: tag and dimensions, a key and a tag for every column, and *)
(* a byte for every cell at least.                                          *)
EncodeTable(n, c) ==
  /\ Encoding /\ n >= 2
  /\ Fits(n, c)
  /\ excess' = Spend(n, c)
  /\ Emit(Table(n, c), 3 + 2 * c + n * c)
  /\ UNCHANGED <<phase, encElems, next, left, decElems>>

(* enc_pick_long_run_tag: tag, length, base and step. *)
EncodeRun(n) ==
  /\ Encoding /\ n >= 4
  /\ n <= MaxElems /\ encElems <= MaxElems - n
  /\ encElems' = encElems + n
  /\ Emit(Run(n), 4)
  /\ UNCHANGED <<phase, excess, next, left, decElems>>

(* Anything else, lists and runs that did not fit among it, is in           *)
(* proportion to its bytes.                                                 *)
EncodeOther ==
  /\ phase = "encoding" /\ wire = 0
  /\ wire' = 1
  /\ UNCHANGED <<phase, items, excess, encElems, next, left, decElems, due, counted>>

(* An object and its data: tag and class, tag and count, and elements.  The *)
(* encoder cannot tell that its class will lack the hook where it is read,  *)
(* or will not be allowed there.                                            *)
EncodeObject(n, hook) ==
  /\ Encoding
  /\ Emit(Object(n, hook), 4 + n)
  /\ UNCHANGED <<phase, excess, encElems, next, left, decElems>>

-----------------------------------------------------------------------------
(* The decoder.  It knows the length of the frame.                          *)

BeginDecode ==
  /\ phase = "encoding"
  /\ phase' = "decoding"
  /\ next' = 1
  /\ left' = Allowance + wire * Ratio
  /\ decElems' = 0
  /\ UNCHANGED <<items, wire, excess, encElems, due, counted>>

(* nrows > left / row_bytes, n > MAX or used > MAX - n, bytes > left. *)
Affords(i) ==
  CASE i.kind = "table"  -> i.rows <= left \div RowBytes(i.cols)
    [] i.kind = "run"    -> i.elems <= MaxElems /\ decElems <= MaxElems - i.elems
    [] i.kind = "object" -> Charge(i) <= left

DecodeItem ==
  /\ phase = "decoding" /\ next <= Len(items)
  /\ LET i == items[next] IN
     IF Affords(i)
     THEN /\ left' = left - Charge(i)
          /\ decElems' = decElems + Elems(i)
          /\ next' = next + 1
          /\ UNCHANGED phase
     ELSE phase' = "refused" /\ UNCHANGED <<left, decElems, next>>
  /\ UNCHANGED <<items, wire, excess, encElems, due, counted>>

EndDecode ==
  /\ phase = "decoding" /\ next > Len(items)
  /\ phase' = "done"
  /\ UNCHANGED <<items, wire, excess, encElems, next, left, decElems, due, counted>>

BudgetInit ==
  /\ phase = "encoding"
  /\ items = <<>> /\ wire = 0
  /\ excess = 0 /\ encElems = 0
  /\ next = 1 /\ left = 0 /\ decElems = 0
  /\ due = [i \in 0 .. MaxItems |-> 0] /\ counted = [i \in 0 .. MaxItems |-> 0]

BudgetNext ==
  \/ \E n \in Lengths, c \in Columns : EncodeTable(n, c)
  \/ \E n \in Lengths : EncodeRun(n) \/ \E hook \in BOOLEAN : EncodeObject(n, hook)
  \/ EncodeOther
  \/ BeginDecode \/ DecodeItem \/ EndDecode

BudgetSpec == BudgetInit /\ [][BudgetNext]_budgetVars

-----------------------------------------------------------------------------
(* Properties.                                                              *)

(* No object of the frame is decoded without its hook.                      *)
HooksKept == \A i \in DOMAIN items : items[i].kind = "object" => items[i].hook

(* What the encoder lets pass the decoder affords: no frame of the encoder  *)
(* is refused for what its tables and runs cost, at the boundary either     *)
(* ("so encoder fallback decisions also fit a decoder with larger buckets", *)
(* phpser.c:278).  Only an object that is decoded without its hook can take *)
(* away what the tables need: it shares their allowance (SECURITY.md:61),   *)
(* and the encoder does not count it.                                       *)
NothingRefused == phase = "refused" => ~ HooksKept

(* Why: what the decoder charges for the items so far is covered by what    *)
(* the encoder counted and by the bytes, while hooks are kept; the decoder  *)
(* is never ahead of that.                                                  *)
Covered ==
  LET n == Len(items) IN
  /\ due[n] <= excess + wire * Ratio /\ excess <= Allowance
  /\ counted[n] = encElems /\ encElems <= MaxElems
  /\ \A i \in 1 .. n :
       /\ due[i] = due[i - 1] + Charge(items[i]) /\ due[i - 1] <= due[i] /\ due[i] <= due[n]
       /\ counted[i] = counted[i - 1] + Elems(items[i]) /\ counted[i] <= counted[n]
  /\ phase # "encoding" =>
       /\ left = Allowance + wire * Ratio - due[next - 1]
       /\ decElems = counted[next - 1]
=============================================================================
