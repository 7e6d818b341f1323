--------------------------- MODULE MCClassResolve ---------------------------
(* Three classes, one of a kind; the first is spelled in two ways.          *)
EXTENDS ClassResolve

MCClass == {"plain", "suit", "store"}
MCEnums == {"suit"}
MCLegacy == {"store"}
MCDict == <<"Plain", "PLAIN", "Suit", "Store">>
MCLower == [n \in {"Plain", "PLAIN", "Suit", "Store"} |->
              CASE n \in {"Plain", "PLAIN"} -> "plain" [] n = "Suit" -> "suit"
                [] n = "Store" -> "store"]
MCFilters == {MCClass, {"suit", "store"}}
MCHomes == {[lock |-> 0, level |-> 0], [lock |-> 1, level |-> 1]}
=============================================================================
