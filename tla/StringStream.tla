---------------------------- MODULE StringStream ----------------------------
(***************************************************************************)
(* What the string side of the encoder promises: the strings a caller asks *)
(* it to write are read back by the decoder in order, whatever happens     *)
(* later to the strings themselves.  A frame is sealed once, or thrown     *)
(* away as a whole when one of its strings was too long for the wire.      *)
(***************************************************************************)
EXTENDS Sequences

CONSTANT Content          \* what a string can say

VARIABLES log,            \* what a decoder reads back, in order
          frame           \* "open", "sealed" or "discarded"

Init == log = <<>> /\ frame = "open"

Write == /\ frame = "open"
         /\ \E c \in Content : log' = Append(log, c)
         /\ UNCHANGED frame

Seal == frame = "open" /\ frame' = "sealed" /\ UNCHANGED log

Discard == frame = "open" /\ frame' = "discarded" /\ log' = <<>>

Next == Write \/ Seal \/ Discard

Spec == Init /\ [][Next]_<<log, frame>>
=============================================================================
