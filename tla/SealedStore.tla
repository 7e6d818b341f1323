---------------------------- MODULE SealedStore ----------------------------
(***************************************************************************)
(* What the keyed layer promises: a store of sealed frames.  A frame is    *)
(* put under a seal; it is handed back under the same seal only, or not    *)
(* at all.  There are no caches, no threads and no nested calls here.      *)
(***************************************************************************)
EXTENDS SealTerms

CONSTANTS Slot, NoBlob

VARIABLES
  store,    \* Slot -> blob: a frame with the tag that follows it
  answer    \* what the last fetch gave its caller

Blob(f, t) == [frame |-> f, tag |-> t]
Refused    == [ok |-> FALSE]
Got(f, seal) == [ok |-> TRUE, frame |-> f, seal |-> seal]

Init == store = [s \in Slot |-> NoBlob] /\ answer = Refused

Put(s, seal, f) ==
  /\ store' = [store EXCEPT ![s] = Blob(f, Tag(seal, f))]
  /\ answer' = Refused

Fetch(s, seal) ==
  /\ store[s] # NoBlob
  /\ store[s].tag = Tag(seal, store[s].frame)
  /\ store[s].frame \notin Malformed
  /\ answer' = Got(store[s].frame, seal)
  /\ UNCHANGED store

Refuse == answer' = Refused /\ UNCHANGED store

(* The store is not ours: blobs are lost, copied elsewhere, damaged. *)
Damage(s) ==
  /\ \/ store' = [store EXCEPT ![s] = NoBlob]
     \/ \E t \in Slot : store' = [store EXCEPT ![s] = store[t]]
     \/ \E f \in Frame, t \in {NoTag} \cup {store[u].tag : u \in {v \in Slot : store[v] # NoBlob}} :
          store' = [store EXCEPT ![s] = Blob(f, t)]
  /\ answer' = Refused

Next ==
  \/ \E s \in Slot, seal \in Seal : Fetch(s, seal) \/ \E f \in Frame : Put(s, seal, f)
  \/ \E s \in Slot : Damage(s)
  \/ Refuse

Spec == Init /\ [][Next]_<<store, answer>>
=============================================================================
