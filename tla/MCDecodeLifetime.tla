-------------------------- MODULE MCDecodeLifetime --------------------------
(* Small instances of DecodeLifetime.                                      *)
EXTENDS DecodeLifetime

Class(hook, destructor) == [hook |-> hook, destructor |-> destructor]

(* Objects without hooks after the walk: what the fast release frees.      *)
PlainClasses == {Class("none", TRUE), Class("unknown", FALSE), Class("legacy", FALSE)}

(* Objects with deferred hooks, and one with a destructor alone.           *)
HookClasses == {Class("unserialize", TRUE), Class("wakeup", TRUE), Class("none", TRUE)}

MixedClasses == PlainClasses \cup HookClasses

(* A frame has objects of one family; a step of user code needs a hook.    *)
OneFamily ==
  LET classes == {heap[e].class : e \in Entities} \ {NoClass} IN
  \/ classes \subseteq PlainClasses /\ steps = 0
  \/ classes \subseteq HookClasses

(* No user code at all.                                                    *)
QuietClasses == {Class("none", FALSE)}
=============================================================================
