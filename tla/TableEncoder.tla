---------------------------- MODULE TableEncoder ----------------------------
(***************************************************************************)
(* A list of rows written column by column (enc_try_table).  The encoder   *)
(* gathers a pointer to every cell before it writes the first, and writing *)
(* a cell that holds an object runs user code.  What keeps the pointers    *)
(* good: a row that others hold is duplicated, because one of them may be  *)
(* an ArrayObject, which writes to its storage in place whatever its       *)
(* reference count; a row that only the list holds is pinned, because the  *)
(* list itself may be such storage and lose it.                            *)
(*                                                                         *)
(* Tables are numbered as they are allocated, and a table has a version,   *)
(* which changes when its buckets move.  Cells are values: PHP references  *)
(* share what they show by intent and are left out.                        *)
(***************************************************************************)
EXTENDS Integers, Sequences, FiniteSets, SequencesExt

CONSTANTS
  NRows, NCols,
  Scalar,        \* contents of a cell other than an object with a hook
  Hook,          \* an object whose hook runs when it is written
  Wild,          \* what a stale pointer reads
  MaxTables,     \* bound: tables ever allocated
  MaxWrites      \* bound: writes of user code

ASSUME TableAssumption ==
  /\ NRows \in Nat \ {0, 1} /\ NCols \in Nat \ {0}
  /\ MaxTables \in Nat /\ MaxTables >= NRows /\ MaxWrites \in Nat
  /\ Hook \notin Scalar /\ Wild \notin Scalar \cup {Hook}

Row   == 1 .. NRows
Col   == 1 .. NCols
Table == 1 .. MaxTables
Value == Scalar \cup {Hook}
None  == 0

VARIABLES
  allocated,    \* tables 1 .. allocated have been allocated
  immutable,    \* tables that are neither counted nor changed
  refcount, version, cells,     \* of each table
  slots,        \* the list: Row -> table
  var,          \* a table a variable of the program holds
  storage,      \* a table an ArrayObject holds
  writes,
  phase,        \* "start", "gather", "emit", "release", "done" or "declined"
  failed,       \* e->failed
  row, col,     \* the encoder's loop variables
  pin,          \* row_pin
  pointer,      \* Row -> the table and version its cell pointers go into
  out,          \* the cells written, column by column
  userCode,
  before        \* history: the rows when the gather began

heapVars == <<allocated, immutable, refcount, version, cells>>
userVars == <<slots, var, storage, writes>>
encVars  == <<phase, failed, row, col, pin, pointer, out, before>>
vars == <<heapVars, userVars, encVars, userCode>>

Alive(t) == t \in immutable \/ refcount[t] > 0

AddRef(rc, t) == IF t \in immutable THEN rc ELSE [rc EXCEPT ![t] = @ + 1]
DelRef(rc, t) == IF t = None \/ t \in immutable THEN rc ELSE [rc EXCEPT ![t] = @ - 1]

(* A new table with one reference, in place of one reference to t. *)
Separate(t, contents, rc) ==
  /\ allocated < MaxTables
  /\ allocated' = allocated + 1
  /\ refcount' = [rc EXCEPT ![allocated + 1] = 1]
  /\ version' = [version EXCEPT ![allocated + 1] = 1]
  /\ cells' = [cells EXCEPT ![allocated + 1] = contents]

-----------------------------------------------------------------------------
(* User code.                                                               *)

Write == userCode /\ writes < MaxWrites /\ writes' = writes + 1

(* $v = $list[$r], or the same row fetched elsewhere. *)
UserTakes(t) ==
  /\ Write
  /\ var = None /\ t # None /\ t \in {slots[r] : r \in Row} \cup {storage}
  /\ var' = t
  /\ refcount' = AddRef(refcount, t)
  /\ UNCHANGED <<allocated, immutable, version, cells, slots, storage, encVars, userCode>>

UserDrops ==
  /\ Write
  /\ var # None
  /\ var' = None
  /\ refcount' = DelRef(refcount, var)
  /\ UNCHANGED <<allocated, immutable, version, cells, slots, storage, encVars, userCode>>

(* The list is ArrayObject storage, and a row is unset in place. *)
UserUnsets(r) ==
  /\ Write
  /\ slots[r] # None
  /\ slots' = [slots EXCEPT ![r] = None]
  /\ refcount' = DelRef(refcount, slots[r])
  /\ UNCHANGED <<allocated, immutable, version, cells, var, storage, encVars, userCode>>

(* new ArrayObject($v) takes the table over if nobody else holds it. *)
UserWraps ==
  /\ Write
  /\ var # None /\ storage = None /\ refcount[var] = 1
  /\ storage' = var /\ var' = None
  /\ UNCHANGED <<heapVars, slots, encVars, userCode>>

(* A new value in a cell; a new key that makes the buckets move. *)
InPlace(t) ==
  /\ \/ \E c \in Col : \E v \in Value \ {cells[t][c]} :
          cells' = [cells EXCEPT ![t][c] = v] /\ UNCHANGED version
     \/ version' = [version EXCEPT ![t] = @ + 1] /\ UNCHANGED cells
  /\ UNCHANGED <<allocated, refcount>>

(* An ordinary write separates a table somebody else holds, too. *)
UserAssigns(r) ==
  /\ Write
  /\ LET t == slots[r] IN
     /\ t # None
     /\ IF t \notin immutable /\ refcount[t] = 1
        THEN InPlace(t) /\ UNCHANGED slots
        ELSE /\ \E c \in Col : \E v \in Value \ {cells[t][c]} :
                  Separate(t, [cells[t] EXCEPT ![c] = v], DelRef(refcount, t))
             /\ slots' = [slots EXCEPT ![r] = allocated + 1]
  /\ UNCHANGED <<immutable, var, storage, encVars, userCode>>

(* A write through an ArrayObject does not. *)
UserWritesStorage ==
  /\ Write
  /\ storage # None
  /\ InPlace(storage)
  /\ UNCHANGED <<immutable, slots, var, storage, encVars, userCode>>

UserReturns ==
  /\ userCode
  /\ userCode' = FALSE
  /\ UNCHANGED <<heapVars, userVars, encVars>>

-----------------------------------------------------------------------------
(* The encoder.                                                             *)

(* All rows have the same keys.  Budgets says when the table is too large;  *)
(* a list that is declined is walked by value.                              *)
TryTable ==
  /\ phase = "start"
  /\ phase' \in {"gather", "declined"}
  /\ before' = [r \in Row |-> cells[slots[r]]]
  /\ row' = 1
  /\ UNCHANGED <<heapVars, userVars, failed, col, pin, pointer, out, userCode>>

(* Mutant: a row others hold is pinned, not duplicated. *)
PinRowInPlace(t) ==
  /\ pin' = [pin EXCEPT ![row] = IF t \in immutable THEN None ELSE t]
  /\ pointer' = [pointer EXCEPT ![row] = [table |-> t, version |-> version[t]]]
  /\ refcount' = AddRef(refcount, t)
  /\ UNCHANGED <<allocated, version, cells>>

PinRow(t) ==
  IF t \notin immutable /\ refcount[t] > 1
  THEN /\ Separate(t, cells[t], refcount)      \* zend_array_dup
       /\ pin' = [pin EXCEPT ![row] = allocated + 1]
       /\ pointer' = [pointer EXCEPT ![row] = [table |-> allocated + 1, version |-> 1]]
  ELSE /\ pin' = [pin EXCEPT ![row] = IF t \in immutable THEN None ELSE t]
       /\ pointer' = [pointer EXCEPT ![row] = [table |-> t, version |-> version[t]]]
       /\ refcount' = AddRef(refcount, t)
       /\ UNCHANGED <<allocated, version, cells>>

GatherRow ==
  /\ phase = "gather"
  /\ PinRow(slots[row])
  /\ IF row < NRows
     THEN row' = row + 1 /\ UNCHANGED <<phase, col>>
     ELSE row' = 1 /\ col' = 1 /\ phase' = "emit"
  /\ UNCHANGED <<immutable, userVars, failed, out, before, userCode>>

(* Mutant: the rows gathered so far stay pinned. *)
StopKeepingPins ==
  /\ phase' = "done" /\ failed' = TRUE
  /\ pin' = [r \in Row |-> None]
  /\ UNCHANGED row

Stop ==
  /\ phase' = "release" /\ failed' = TRUE
  /\ row' = 1
  /\ UNCHANGED pin

(* PHPSER_HAS_OOM. *)
OutOfMemory ==
  /\ phase = "gather"
  /\ Stop
  /\ UNCHANGED <<heapVars, userVars, col, pointer, out, before, userCode>>

Read(r, c) ==
  LET p == pointer[r] IN
  IF Alive(p.table) /\ version[p.table] = p.version THEN cells[p.table][c] ELSE Wild

(* Mutant: the cells of a column with hooks are followed by their rows.     *)
NextCellByRow ==
  IF col < NCols THEN col' = col + 1 /\ UNCHANGED <<row, phase>>
  ELSE /\ col' = 1
       /\ IF row < NRows THEN row' = row + 1 /\ UNCHANGED phase
                         ELSE phase' = "release" /\ row' = 1

NextCell ==
  IF row < NRows THEN row' = row + 1 /\ UNCHANGED <<col, phase>>
  ELSE /\ row' = 1
       /\ IF col < NCols THEN col' = col + 1 /\ UNCHANGED phase
                         ELSE phase' = "release" /\ UNCHANGED col

(* A typed column has no hooks; enc_detect_column_tag looks at the cells    *)
(* when their column is due.  In a mixed one the hooks of a cell run before *)
(* the next cell is read.                                                   *)
TypedColumn ==
  /\ phase = "emit" /\ ~ userCode /\ row = 1
  /\ \A r \in Row : Read(r, col) # Hook
  /\ out' = out \o [r \in Row |-> Read(r, col)]
  /\ IF col < NCols THEN col' = col + 1 /\ UNCHANGED phase
                    ELSE phase' = "release" /\ UNCHANGED col
  /\ UNCHANGED <<heapVars, userVars, failed, row, pin, pointer, before, userCode>>

MixedCell ==
  /\ phase = "emit" /\ ~ userCode
  /\ row = 1 => \E r \in Row : Read(r, col) = Hook
  /\ out' = Append(out, Read(row, col))
  /\ userCode' = (Read(row, col) = Hook)
  /\ NextCell
  /\ UNCHANGED <<heapVars, userVars, failed, pin, pointer, before>>

(* Mutant: the loop ends at the first row without a pin. *)
NextPinWhile ==
  IF row < NRows /\ pin[row] # None THEN row' = row + 1 /\ UNCHANGED phase
                                    ELSE phase' = "done" /\ UNCHANGED row

NextPin ==
  IF row < NRows THEN row' = row + 1 /\ UNCHANGED phase
                 ELSE phase' = "done" /\ UNCHANGED row

(* enc_free_row_pins.  The last reference to a row that was dropped from    *)
(* the list may be the last to its objects, whose destructors run.          *)
ReleasePin ==
  /\ phase = "release" /\ ~ userCode
  /\ pin' = [pin EXCEPT ![row] = None]
  /\ refcount' = DelRef(refcount, pin[row])
  /\ userCode' \in {FALSE, pin[row] # None /\ refcount[pin[row]] = 1
                           /\ \E c \in Col : cells[pin[row]][c] = Hook}
  /\ NextPin
  /\ UNCHANGED <<allocated, immutable, version, cells, userVars, failed, col, pointer,
                 out, before>>

Holders(t) ==
  Cardinality({r \in Row : slots[r] = t}) + Cardinality({r \in Row : pin[r] = t})
    + (IF var = t THEN 1 ELSE 0) + (IF storage = t THEN 1 ELSE 0)

Init ==
  /\ allocated = NRows
  /\ immutable \in SUBSET (1 .. NRows)
  /\ slots \in [Row -> 1 .. NRows]
  /\ var \in 0 .. NRows /\ storage \in (0 .. NRows) \ immutable
  /\ \E rows \in [1 .. NRows -> [Col -> Value]] :
       cells = [t \in Table |-> IF t <= NRows THEN rows[t] ELSE [c \in Col |-> Hook]]
  /\ pin = [r \in Row |-> None]
  /\ refcount = [t \in Table |-> IF t \in immutable THEN 0 ELSE Holders(t)]
  /\ version = [t \in Table |-> 1]
  /\ writes = 0
  /\ phase = "start" /\ failed = FALSE
  /\ row = 1 /\ col = 1
  /\ pointer = [r \in Row |-> [table |-> r, version |-> 0]]
  /\ out = <<>>
  /\ userCode = FALSE
  /\ before = [r \in Row |-> cells[r]]

UserStep ==
  \/ \E t \in Table : UserTakes(t)
  \/ \E r \in Row : UserUnsets(r) \/ UserAssigns(r)
  \/ UserDrops \/ UserWraps \/ UserWritesStorage

EncoderStep ==
  \/ TryTable \/ GatherRow \/ OutOfMemory
  \/ TypedColumn \/ MixedCell \/ ReleasePin

Next == UserStep \/ UserReturns \/ EncoderStep

(* One thread: when no hook runs the encoder does, and hooks return.        *)
Spec == Init /\ [][Next]_vars /\ WF_vars(EncoderStep) /\ WF_vars(UserReturns)

-----------------------------------------------------------------------------
(* Properties.                                                              *)

(* The frame has every row as it was when the encoder reached the list,     *)
(* whatever the hooks of the cells did to the rows, to the list, and to     *)
(* ArrayObjects that share them; no cell is read through a pointer into     *)
(* buckets that have moved or were freed.                                   *)
RowsAsTheyWere ==
  \A i \in DOMAIN out :
    out[i] = before[((i - 1) % NRows) + 1][((i - 1) \div NRows) + 1]

(* Reference counts agree with who holds a table, at every step and on      *)
(* every way out: a pin or duplicate is released once, also when a hook     *)
(* removed its row from the list or memory ran out half-way.                *)
HoldersCounted ==
  /\ \A t \in Table \ immutable : refcount[t] = Holders(t)
  /\ phase \in {"start", "done", "declined"} => \A r \in Row : pin[r] = None
  /\ \A r \in Row : pin[r] \notin immutable

(* A list that is begun is finished and its pins given up, provided hooks   *)
(* return.                                                                  *)
TableEnds ==
  phase = "gather" ~>
    /\ phase = "done" /\ \A r \in Row : pin[r] = None
    /\ failed \/ Len(out) = NRows * NCols
=============================================================================
