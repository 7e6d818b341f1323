---------------------------- MODULE MCTableCodec ----------------------------
(***************************************************************************)
(* Two rows of two columns.  Rows may share a table, be immutable, or be   *)
(* the storage of an ArrayObject.  A frame can fail in the middle of a row *)
(* and of a column, with one before or after it.                           *)
(***************************************************************************)
EXTENDS TableCodec
=============================================================================
