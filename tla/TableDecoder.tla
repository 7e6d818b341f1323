---------------------------- MODULE TableDecoder ----------------------------
(***************************************************************************)
(* Tables and row sets read back (dec_decode_table, dec_decode_rowset,     *)
(* dec_table_column).  A table arrives column by column: each is decoded   *)
(* into a buffer and then moved into rows that are built, all at once,     *)
(* when the first column is there.  The frame may end or be wrong at any   *)
(* byte and memory may run out at any allocation; what was decoded by then *)
(* is in the buffer, in rows, or in both, and the rows borrow their keys.  *)
(*                                                                         *)
(* A cell is the value decoded for a row and column.  Of a key only the    *)
(* references of rows are counted, not the dictionary's.                   *)
(***************************************************************************)
EXTENDS Integers, FiniteSets

CONSTANTS NRows, NCols

Row  == 1 .. NRows
Col  == 1 .. NCols
Cell == Row \X Col

(* Other contents of a slot: IS_UNDEF, and bytes nobody has written. *)
Undef   == <<0, 0>>
Garbage == <<-1, -1>>
Slot    == Cell \cup {Undef, Garbage}

VARIABLES
  tag,        \* "table" or "rowset"
  interned,   \* keys that are interned and not counted
  phase,      \* "header", "keys", "fill", "build", "scatter", "rows", "failed" or "done"
  row, col,   \* the decoder's loop variables
  colbuf,     \* Row -> slot
  built,      \* rows built so far
  bucket,     \* Row -> Col -> slot
  keyRefs,    \* Col -> references rows hold on the key
  decoded,    \* cells decoded
  releases,   \* Cell -> times it was released
  wild        \* something other than a decoded cell was released

vars == <<tag, interned, phase, row, col, colbuf, built, bucket, keyRefs,
          decoded, releases, wild>>

NoRow == [c \in Col |-> Undef]

(* zval_ptr_dtor of every slot in a sequence or set of slots; IS_UNDEF is    *)
(* nothing.  holds[x] is how many of them are cell x.                        *)
Release(holds) ==
  releases' = [x \in Cell |-> releases[x] + holds[x]]

InBuffer(buf) == [x \in Cell |-> Cardinality({r \in Row : buf[r] = x})]
InRows(n)     == [x \in Cell |-> Cardinality({p \in (1 .. n) \X Col : bucket[p[1]][p[2]] = x})]
Both(f, g)    == [x \in Cell |-> f[x] + g[x]]
Nowhere       == [x \in Cell |-> 0]

(* zend_array_destroy of the first n rows: their keys are let go, too. *)
KeysOfRows(n, refs) == [c \in Col |-> IF c \in interned THEN refs[c] ELSE refs[c] - n]

-----------------------------------------------------------------------------
(* Both tags.                                                               *)

(* The dimensions, held against the budget and the bytes that are left.     *)
Header ==
  /\ phase = "header"
  /\ phase' \in {"keys", "failed"}
  /\ UNCHANGED <<tag, interned, row, col, colbuf, built, bucket, keyRefs,
                 decoded, releases, wild>>

(* Keys are distinct and not numeric, or the frame is refused.              *)
Keys ==
  /\ phase = "keys"
  /\ phase' \in {IF tag = "table" THEN "fill" ELSE "rows", "failed"}
  /\ UNCHANGED <<tag, interned, row, col, colbuf, built, bucket, keyRefs,
                 decoded, releases, wild>>

-----------------------------------------------------------------------------
(* TAG_TABLE.                                                               *)

(* table_fail: the rows built so far are destroyed with what is in them.    *)
TableFail(inFlight) ==
  /\ phase' = "failed"
  /\ Release(Both(inFlight, InRows(built)))
  /\ keyRefs' = KeysOfRows(built, keyRefs)
  /\ UNCHANGED <<row, col, built, bucket>>

(* Before a column its tag is read, and may not be there.                   *)
NoColumn ==
  /\ phase = "fill" /\ row = 1
  /\ TableFail(Nowhere)
  /\ UNCHANGED <<tag, interned, colbuf, decoded, wild>>

FillCell ==
  /\ phase = "fill"
  /\ colbuf' = [colbuf EXCEPT ![row] = <<row, col>>]
  /\ decoded' = decoded \cup {<<row, col>>}
  /\ IF row < NRows
     THEN row' = row + 1 /\ UNCHANGED phase
     ELSE row' = 1 /\ phase' = IF built = 0 THEN "build" ELSE "scatter"
  /\ UNCHANGED <<tag, interned, col, built, bucket, keyRefs, releases, wild>>

(* Mutant: the tail of a column that failed keeps what the column before    *)
(* left there.                                                              *)
StaleTail == colbuf

(* dec_table_column blanks what it did not fill.                            *)
BlankTail == [r \in Row |-> IF r < row THEN colbuf[r] ELSE Undef]

ColumnFails ==
  /\ phase = "fill"
  /\ LET buf == BlankTail IN
     /\ wild' = (wild \/ \E r \in Row : buf[r] = Garbage)
     /\ TableFail(InBuffer(buf))
  /\ UNCHANGED <<tag, interned, colbuf, decoded>>

(* Mutant: keys get a reference for every row there was to be.              *)
BumpKeysAll(n) == [c \in Col |-> IF c \in interned THEN keyRefs[c] ELSE keyRefs[c] + NRows]

(* Rows borrow the keys of the dictionary until all are built.              *)
BumpKeys(n) == [c \in Col |-> IF c \in interned THEN keyRefs[c] ELSE keyRefs[c] + n]

(* dec_new_array of the list fails, or the list and n rows are built: fewer *)
(* than there should be if memory runs out.                                 *)
ListFails ==
  /\ phase = "build"
  /\ TableFail(InBuffer(colbuf))
  /\ UNCHANGED <<tag, interned, colbuf, decoded, wild>>

BuildRows(n) ==
  /\ phase = "build"
  /\ IF n = NRows
     THEN /\ phase' = "scatter" /\ built' = n
          /\ keyRefs' = BumpKeys(n)
          /\ UNCHANGED releases
     ELSE /\ phase' = "failed"
          /\ keyRefs' = KeysOfRows(n, BumpKeys(n))
          /\ Release(Both(InBuffer(colbuf), InRows(n)))
          /\ UNCHANGED built
  /\ UNCHANGED <<tag, interned, row, col, colbuf, bucket, decoded, wild>>

(* The cells move; the buffer keeps stale copies for the next column.       *)
Scatter ==
  /\ phase = "scatter"
  /\ bucket' = [r \in Row |-> [bucket[r] EXCEPT ![col] = colbuf[r]]]
  /\ IF col < NCols THEN col' = col + 1 /\ phase' = "fill"
                    ELSE UNCHANGED col /\ phase' = "done"
  /\ UNCHANGED <<tag, interned, row, colbuf, built, keyRefs, decoded, releases, wild>>

-----------------------------------------------------------------------------
(* TAG_ROWSET: row by row.  Row row is being filled up to column col.       *)

RowsetCell ==
  /\ phase = "rows"
  /\ decoded' = decoded \cup {<<row, col>>}
  /\ bucket' = [bucket EXCEPT ![row][col] = <<row, col>>]
  /\ keyRefs' = [c \in Col |-> IF c = col /\ c \notin interned THEN keyRefs[c] + 1
                               ELSE keyRefs[c]]
  /\ IF col < NCols
     THEN col' = col + 1 /\ UNCHANGED <<row, built, phase>>
     ELSE /\ built' = built + 1
          /\ IF row < NRows THEN row' = row + 1 /\ col' = 1 /\ UNCHANGED phase
                            ELSE phase' = "done" /\ UNCHANGED <<row, col>>
  /\ UNCHANGED <<tag, interned, colbuf, releases, wild>>

(* The row under way, then the rows before it.  The list does not own them  *)
(* yet: its count is still zero.                                            *)
RowsetFails ==
  /\ phase = "rows"
  /\ phase' = "failed"
  /\ Release(Both(InRows(built),
                  [x \in Cell |-> Cardinality({c \in 1 .. col - 1 : bucket[row][c] = x})]))
  /\ keyRefs' = [c \in Col |-> IF c \in interned THEN keyRefs[c]
                               ELSE keyRefs[c] - built - (IF c < col THEN 1 ELSE 0)]
  /\ UNCHANGED <<tag, interned, row, col, colbuf, built, bucket, decoded, wild>>

-----------------------------------------------------------------------------
Init ==
  /\ tag \in {"table", "rowset"}
  /\ interned \in SUBSET Col
  /\ phase = "header"
  /\ row = 1 /\ col = 1
  /\ colbuf = [r \in Row |-> Garbage]
  /\ built = 0
  /\ bucket = [r \in Row |-> NoRow]
  /\ keyRefs = [c \in Col |-> 0]
  /\ decoded = {}
  /\ releases = Nowhere
  /\ wild = FALSE

Next ==
  \/ Header \/ Keys
  \/ NoColumn \/ FillCell \/ ColumnFails
  \/ ListFails \/ (\E n \in 0 .. NRows : BuildRows(n)) \/ Scatter
  \/ RowsetCell \/ RowsetFails

Spec == Init /\ [][Next]_vars

-----------------------------------------------------------------------------
(* Properties.                                                              *)

(* Wherever decoding stops, each cell decoded by then is released exactly   *)
(* once, though copies of it may be in the column buffer and in a row, and  *)
(* nothing else is; on success every cell is where it belongs, unreleased.  *)
CellsReleasedOnce ==
  /\ ~ wild
  /\ phase = "failed" => \A x \in Cell : releases[x] = IF x \in decoded THEN 1 ELSE 0
  /\ phase # "failed" => releases = Nowhere
  /\ phase = "done" => \A x \in Cell : bucket[x[1]][x[2]] = x

(* The references rows hold on their keys balance, although the rows of a   *)
(* table borrow them first and are paid for in one sum: a frame that fails  *)
(* costs the dictionary nothing, one that succeeds holds a key per row.     *)
KeysBalance ==
  \A c \in Col :
    /\ keyRefs[c] >= 0
    /\ phase = "failed" => keyRefs[c] = 0
    /\ phase = "done" => keyRefs[c] = IF c \in interned THEN 0 ELSE NRows
=============================================================================
