----------------------------- MODULE TableCodec -----------------------------
(***************************************************************************)
(* Tables end to end.  A list of rows is written column by column while    *)
(* the hooks of its cells write to it; the frame is read elsewhere, where  *)
(* it may be cut off or wrong at any byte.  So may a frame that this       *)
(* encoder did not write, among them every row set.                        *)
(***************************************************************************)
EXTENDS TableEncoder

VARIABLES
  decTag, interned, decPhase, decRow, decCol, colbuf, built, bucket, keyRefs,
  decoded, releases, wild,     \* of TableDecoder
  value                        \* Cell -> what was read for it

Dec == INSTANCE TableDecoder
         WITH tag <- decTag, phase <- decPhase, row <- decRow, col <- decCol

decVars   == <<decTag, interned, decPhase, decRow, decCol, colbuf, built, bucket,
               keyRefs, decoded, releases, wild, value>>
codecVars == <<vars, decVars>>

NoValues == [x \in Row \X Col |-> Wild]
Ours == Len(out) = NRows * NCols

(* Nothing to encode where the frame is read. *)
Quiet == [refcount |-> [t \in Table |-> 0], version |-> [t \in Table |-> 1],
          cells |-> [t \in Table |-> [c \in Col |-> Hook]],
          slots |-> [r \in Row |-> r], pin |-> [r \in Row |-> None],
          pointer |-> [r \in Row |-> [table |-> r, version |-> 0]]]

Elsewhere ==
  /\ allocated' = NRows /\ immutable' = Row
  /\ refcount' = Quiet.refcount /\ version' = Quiet.version /\ cells' = Quiet.cells
  /\ slots' = Quiet.slots /\ var' = None /\ storage' = None /\ writes' = 0
  /\ phase' = "declined" /\ failed' = FALSE /\ row' = 1 /\ col' = 1
  /\ pin' = Quiet.pin /\ pointer' = Quiet.pointer /\ userCode' = FALSE

Deliver ==
  /\ decPhase = "none"
  /\ phase = "done" /\ ~ failed /\ ~ userCode
  /\ Elsewhere
  /\ decPhase' = "header" /\ interned' \in SUBSET Col
  /\ UNCHANGED <<out, before, decTag, decRow, decCol, colbuf, built, bucket,
                 keyRefs, decoded, releases, wild, value>>

Arrive ==
  /\ decPhase = "none"
  /\ phase = "start"
  /\ Elsewhere
  /\ before' = [r \in Row |-> Quiet.cells[r]]
  /\ decPhase' = "header" /\ interned' \in SUBSET Col
  /\ decTag' \in {"table", "rowset"}
  /\ UNCHANGED <<out, decRow, decCol, colbuf, built, bucket,
                 keyRefs, decoded, releases, wild, value>>

(* The next cell of the frame is the next one read.                        *)
ReadCell ==
  /\ Dec!FillCell
  /\ value' = IF Ours
              THEN [value EXCEPT ![<<decRow, decCol>>] = out[Cardinality(decoded) + 1]]
              ELSE value

DecoderStep ==
  /\ \/ ReadCell
     \/ /\ \/ Dec!Header \/ Dec!Keys
           \/ Dec!NoColumn \/ Dec!ColumnFails
           \/ Dec!ListFails \/ (\E n \in 0 .. NRows : Dec!BuildRows(n)) \/ Dec!Scatter
           \/ Dec!RowsetCell \/ Dec!RowsetFails
        /\ UNCHANGED value
  /\ UNCHANGED vars

CodecInit ==
  /\ Init
  /\ decTag = "table"
  /\ interned = {}
  /\ decPhase = "none"
  /\ decRow = 1 /\ decCol = 1
  /\ colbuf = [r \in Row |-> Dec!Garbage]
  /\ built = 0
  /\ bucket = [r \in Row |-> Dec!NoRow]
  /\ keyRefs = [c \in Col |-> 0]
  /\ decoded = {}
  /\ releases = Dec!Nowhere
  /\ wild = FALSE
  /\ value = NoValues

Encode == EncoderStep /\ UNCHANGED decVars
Return == UserReturns /\ UNCHANGED decVars

CodecNext ==
  \/ UserStep /\ UNCHANGED decVars
  \/ Return \/ Encode
  \/ Deliver \/ Arrive \/ DecoderStep

(* One thread: when no hook runs the encoder does, and hooks return.        *)
CodecSpec == CodecInit /\ [][CodecNext]_codecVars
               /\ WF_codecVars(Encode) /\ WF_codecVars(Return)

-----------------------------------------------------------------------------
(* Properties.                                                              *)

(* A table that is decoded has the rows its encoder was given, as they were *)
(* then: the hooks in between, the choice of a column's form, and the order *)
(* of cells on the wire do not show.                                        *)
RowsComeBack ==
  decPhase = "done" /\ Ours =>
    \A r \in Row, c \in Col : value[bucket[r][c]] = before[r][c]

(* The properties of the decoder, whoever wrote the frame: what was decoded *)
(* when it fails is released once, and the references on keys balance.      *)
CellsReleasedOnce == Dec!CellsReleasedOnce
KeysBalance       == Dec!KeysBalance
=============================================================================
