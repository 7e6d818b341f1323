---------------------------- MODULE EncoderPins ----------------------------
(***************************************************************************)
(* Who keeps an entity alive while the encoder runs user code (the id      *)
(* table, enc_pins_activate, enc_release_copy_zval, enc_unvisit_last).     *)
(*                                                                         *)
(* The id table knows objects, references and arrays by address.  A hook   *)
(* may drop the last reference to one of them and allocate another at the  *)
(* same address, which must not pass for the first.  Every entity that is  *)
(* ever allocated has a number of its own here; the code has no such thing *)
(* and only sees addresses and reference counts.                           *)
(*                                                                         *)
(* GraphEncoder says which entity the walk reaches when; this module lets  *)
(* it reach any entity at any time.                                        *)
(***************************************************************************)
EXTENDS Integers, Sequences

CONSTANTS
  Addr,         \* addresses of objects, references and arrays
  Immutable,    \* addresses of immutable arrays: never freed, not counted
  NoHook,       \* no hook runs
  MaxEntities,  \* bound: entities ever allocated
  MaxRefs,      \* bound: references the program, and the encoder, hold on one
  MaxWire       \* bound: ids claimed, and back-references written

ASSUME PinsAssumption ==
  /\ Immutable \subseteq Addr
  /\ NoHook \notin Addr
  /\ MaxEntities \in Nat /\ MaxRefs \in Nat /\ MaxWire \in Nat

VARIABLES
  lives,        \* the number of the entity that lives at an address; 0: none
  allocated,    \* entities allocated so far
  prog,         \* references the program holds
  copies,       \* references the encoder holds: snapshots, duplicates, walks
  entry,        \* id table: address -> [id, entity]
  open,         \* claimed arrays being walked, innermost last
  pinsActive,
  pinned,       \* addresses an id-table entry holds a reference to
  owners,       \* the entity that claimed id 0, 1, ..., as the frame has it
  wire,         \* TAG_REFs: the id written, the entity that was meant
  hook,         \* the object whose hook runs, or NoHook
  userCode,     \* user code is running
  encoding

heapVars  == <<lives, allocated, prog>>
tableVars == <<entry, open, owners, wire>>
vars == <<lives, allocated, prog, copies, entry, open, pinsActive, pinned,
          owners, wire, hook, userCode, encoding>>

NoEntry  == -3
Pending  == -2
Unshared == -1
Vacant   == [id |-> NoEntry, entity |-> 0]

InTable(a) == entry[a].id # NoEntry
HasId(a)   == entry[a].id >= 0
Walked(a)  == entry[a].id = Pending

(* GC_REFCOUNT.  A claimed array's walk has its own protective reference.  *)
Refcount(a) ==
  prog[a] + copies[a] + (IF Walked(a) THEN 1 ELSE 0) + (IF a \in pinned THEN 1 ELSE 0)

Dies(a) == a \notin Immutable /\ Refcount(a) = 1
DropRef(a) == lives' = IF Dies(a) THEN [lives EXCEPT ![a] = 0] ELSE lives

Init ==
  /\ allocated \in 0 .. MaxEntities
  /\ lives \in [Addr -> 0 .. allocated]
  /\ \A n \in 1 .. allocated : \E a \in Addr : \A b \in Addr : lives[b] = n <=> a = b
  /\ \A a \in Immutable : lives[a] # 0
  /\ prog \in [Addr -> 0 .. MaxRefs]
  /\ \A a \in Addr : prog[a] > 0 <=> lives[a] # 0
  /\ copies = [a \in Addr |-> 0]
  /\ entry = [a \in Addr |-> Vacant]
  /\ open = <<>>
  /\ pinsActive = FALSE
  /\ pinned = {}
  /\ owners = <<>>
  /\ wire = <<>>
  /\ hook = NoHook
  /\ userCode = FALSE
  /\ encoding = TRUE

----------------------------------------------------------------------------
(* User code: hooks, and destructors of what the encoder lets go of.       *)

Take(a) ==
  /\ userCode
  /\ lives[a] # 0
  /\ prog[a] < MaxRefs
  /\ prog' = [prog EXCEPT ![a] = @ + 1]
  /\ UNCHANGED <<lives, allocated, copies, tableVars, pinsActive, pinned, hook,
                 userCode, encoding>>

Drop(a) ==
  /\ userCode
  /\ prog[a] > (IF a \in Immutable THEN 1 ELSE 0)
  /\ prog' = [prog EXCEPT ![a] = @ - 1]
  /\ DropRef(a)
  /\ UNCHANGED <<allocated, copies, tableVars, pinsActive, pinned, hook, userCode, encoding>>

Allocate(a) ==
  /\ userCode
  /\ lives[a] = 0
  /\ allocated < MaxEntities
  /\ allocated' = allocated + 1
  /\ lives' = [lives EXCEPT ![a] = allocated + 1]
  /\ prog' = [prog EXCEPT ![a] = 1]
  /\ UNCHANGED <<copies, tableVars, pinsActive, pinned, hook, userCode, encoding>>

(* A destructor is over; so is the garbage collection that ran it.         *)
Resume ==
  /\ userCode
  /\ hook = NoHook
  /\ userCode' = FALSE
  /\ UNCHANGED <<heapVars, copies, tableVars, pinsActive, pinned, hook, encoding>>

----------------------------------------------------------------------------
(* The encoder.  It reaches an entity that the program or itself holds.    *)

Reaches(a) ==
  /\ encoding
  /\ ~ userCode
  /\ lives[a] # 0
  /\ Len(owners) < MaxWire

NewId == Len(owners)
EntryFor(a, id) == entry' = [entry EXCEPT ![a] = [id |-> id, entity |-> lives[a]]]
TakeId(a) == owners' = Append(owners, lives[a])

(* enc_visit and enc_visit_array pin what they add once pins are active.   *)
PinIfActive(a) == pinned' = IF pinsActive THEN pinned \cup ({a} \ Immutable) ELSE pinned

(* A repeat: the table only compares addresses.                            *)
BackReference(a) ==
  /\ Reaches(a)
  /\ HasId(a)
  /\ Len(wire) < MaxWire
  /\ wire' = Append(wire, [id |-> entry[a].id, meant |-> lives[a]])
  /\ UNCHANGED <<heapVars, copies, entry, open, pinsActive, pinned, owners,
                 hook, userCode, encoding>>

(* A reference, or an object somebody else may lead back to.               *)
VisitTracked(a) ==
  /\ Reaches(a)
  /\ ~ InTable(a)
  /\ EntryFor(a, NewId)
  /\ TakeId(a)
  /\ PinIfActive(a)
  /\ UNCHANGED <<heapVars, copies, open, pinsActive, wire, hook, userCode, encoding>>

(* A plain object with one holder takes an id but no table entry.          *)
VisitUnique(a) ==
  /\ Reaches(a)
  /\ ~ InTable(a)
  /\ Refcount(a) = 1
  /\ TakeId(a)
  /\ UNCHANGED <<heapVars, copies, entry, open, pinsActive, pinned, wire, hook,
                 userCode, encoding>>

(* enc_visit_array, ENC_ARR_NEW: no id before the contents have theirs.    *)
ArrayBegin(a) ==
  /\ Reaches(a)
  /\ entry[a].id \in {NoEntry, Unshared}
  /\ EntryFor(a, Pending)
  /\ PinIfActive(a)
  /\ open' = Append(open, a)
  /\ UNCHANGED <<heapVars, copies, pinsActive, owners, wire, hook, userCode, encoding>>

(* enc_array_done, then the protective reference goes.                     *)
ArrayEnd(shareable) ==
  /\ encoding
  /\ ~ userCode
  /\ open # <<>>
  /\ LET a == open[Len(open)]
     IN /\ open' = SubSeq(open, 1, Len(open) - 1)
        /\ entry' = [entry EXCEPT ![a].id = IF shareable THEN NewId ELSE Unshared]
        /\ owners' = IF shareable THEN Append(owners, lives[a]) ELSE owners
        /\ DropRef(a)
  /\ UNCHANGED <<allocated, prog, copies, pinsActive, pinned, wire, hook, userCode, encoding>>

(* A property snapshot, a duplicate's element, a walk by value.            *)
Copy(a) ==
  /\ Reaches(a)
  /\ copies[a] < MaxRefs
  /\ copies' = [copies EXCEPT ![a] = @ + 1]
  /\ UNCHANGED <<heapVars, tableVars, pinsActive, pinned, hook, userCode, encoding>>

(* Mutant: copies are released with destructors and garbage collection     *)
(* before pins are active, too.                                            *)
ReleaseCopyCollecting(a) ==
  /\ encoding
  /\ ~ userCode
  /\ copies[a] > 0
  /\ copies' = [copies EXCEPT ![a] = @ - 1]
  /\ DropRef(a)
  /\ userCode' \in BOOLEAN
  /\ UNCHANGED <<allocated, prog, tableVars, pinsActive, pinned, hook, encoding>>

(* enc_release_copy_zval.  Before pins are active the count is lowered and *)
(* nothing else: no destructor, no garbage collection.  Afterwards both    *)
(* may run user code.                                                      *)
ReleaseCopy(a) ==
  /\ encoding
  /\ ~ userCode
  /\ copies[a] > 0
  /\ copies' = [copies EXCEPT ![a] = @ - 1]
  /\ IF pinsActive THEN DropRef(a) ELSE UNCHANGED lives
  /\ userCode' \in {FALSE, pinsActive}
  /\ UNCHANGED <<allocated, prog, tableVars, pinsActive, pinned, hook, encoding>>

----------------------------------------------------------------------------
(* Hooks.                                                                  *)

(* Mutant: entries made before the first hook are not pinned.              *)
ActivateLater(entries) ==
  /\ pinsActive' = TRUE
  /\ UNCHANGED pinned

(* enc_pins_activate: every entry so far, and the one just made.           *)
Activate(entries) ==
  /\ pinsActive' = TRUE
  /\ pinned' = entries \ Immutable

CallHook(a, tracked) ==
  /\ Reaches(a)
  /\ ~ InTable(a)
  /\ a \notin Immutable
  /\ ~ tracked => Refcount(a) = 1
  /\ IF tracked THEN EntryFor(a, NewId) ELSE UNCHANGED entry
  /\ TakeId(a)
  /\ Activate({b \in Addr : InTable(b)} \cup (IF tracked THEN {a} ELSE {}))
  /\ hook' = a
  /\ userCode' = TRUE
  /\ UNCHANGED <<heapVars, copies, open, wire, encoding>>

HookReturns ==
  /\ hook # NoHook
  /\ hook' = NoHook
  /\ userCode' = FALSE
  /\ UNCHANGED <<heapVars, copies, tableVars, pinsActive, pinned, encoding>>

(* Mutants: the pin is forgotten, not released; the entry stays.           *)
UnvisitLeaks(a, tracked) ==
  /\ owners' = SubSeq(owners, 1, Len(owners) - 1)
  /\ entry' = IF tracked THEN [entry EXCEPT ![a] = Vacant] ELSE entry
  /\ pinned' = IF tracked THEN pinned \ {a} ELSE pinned
  /\ UNCHANGED lives
UnvisitIdOnly(a, tracked) ==
  /\ owners' = SubSeq(owners, 1, Len(owners) - 1)
  /\ UNCHANGED <<entry, pinned, lives>>

(* enc_unvisit_last: the id and the entry go, and its pin, possibly the    *)
(* last reference to the object.                                           *)
Unvisit(a, tracked) ==
  /\ owners' = SubSeq(owners, 1, Len(owners) - 1)
  /\ entry' = IF tracked THEN [entry EXCEPT ![a] = Vacant] ELSE entry
  /\ pinned' = IF tracked THEN pinned \ {a} ELSE pinned
  /\ IF tracked THEN DropRef(a) ELSE UNCHANGED lives

(* The object is in the table exactly if it is identity_tracked.           *)
HookFails ==
  /\ hook # NoHook
  /\ Unvisit(hook, InTable(hook))
  /\ hook' = NoHook
  /\ UNCHANGED <<allocated, prog, copies, open, pinsActive, wire, userCode, encoding>>

(* enc_ctx_destroy.                                                        *)
Finish ==
  /\ encoding
  /\ ~ userCode
  /\ open = <<>>
  /\ \A a \in Addr : copies[a] = 0
  /\ encoding' = FALSE
  /\ lives' = [a \in Addr |-> IF a \in pinned /\ Dies(a) THEN 0 ELSE lives[a]]
  /\ entry' = [a \in Addr |-> Vacant]
  /\ pinned' = {}
  /\ UNCHANGED <<allocated, prog, copies, open, pinsActive, owners, wire, hook, userCode>>

UserStep(a) == Take(a) \/ Drop(a) \/ Allocate(a)

EncoderStep(a) ==
  \/ BackReference(a) \/ VisitTracked(a) \/ VisitUnique(a)
  \/ ArrayBegin(a) \/ Copy(a) \/ ReleaseCopy(a)
  \/ \E tracked \in BOOLEAN : CallHook(a, tracked)

Next ==
  \/ \E a \in Addr : UserStep(a) \/ EncoderStep(a)
  \/ \E shareable \in BOOLEAN : ArrayEnd(shareable)
  \/ Resume \/ HookReturns \/ HookFails \/ Finish

Spec == Init /\ [][Next]_vars

----------------------------------------------------------------------------
(* Properties.                                                             *)

Entry == [id : {NoEntry, Pending, Unshared} \cup Nat, entity : Nat]

PinsTypeOK ==
  /\ lives \in [Addr -> Nat]
  /\ allocated \in Nat
  /\ prog \in [Addr -> Nat]
  /\ copies \in [Addr -> Nat]
  /\ entry \in [Addr -> Entry]
  /\ open \in Seq(Addr)
  /\ pinsActive \in BOOLEAN
  /\ pinned \subseteq Addr
  /\ owners \in Seq(Nat)
  /\ wire \in Seq([id : Nat, meant : Nat])
  /\ hook \in (Addr \ Immutable) \cup {NoHook}
  /\ userCode \in BOOLEAN
  /\ encoding \in BOOLEAN

(* A back-reference names the entity it was written for, whatever hooks    *)
(* freed and allocated at its address since the id was claimed.            *)
BackRefsFaithful ==
  \A i \in DOMAIN wire :
    /\ wire[i].id < Len(owners)
    /\ owners[wire[i].id + 1] = wire[i].meant

(* "So a hook cannot destroy a table entry and let a same-address          *)
(* reallocation masquerade as a back-reference" (enc_pins_activate).       *)
EntriesAlive ==
  \A a \in Addr : InTable(a) => lives[a] = entry[a].entity /\ lives[a] # 0

(* "Until pins activate no user code has run, so every copied value still  *)
(* has its graph owner": what makes a bare GC_DELREF enough, and the       *)
(* assertion rc > 0 of enc_release_copy_zval true.                         *)
CopiesHaveOwner ==
  encoding /\ ~ pinsActive => \A a \in Addr : lives[a] # 0 => prog[a] > 0

(* The assertion of enc_array_done: the array it resolves is pending; no   *)
(* array is claimed twice at once.                                         *)
OpenArraysPending ==
  /\ \A i \in DOMAIN open : Walked(open[i])
  /\ \A i, j \in DOMAIN open : open[i] = open[j] => i = j

(* Reference counts balance: an entity lives exactly as long as somebody   *)
(* holds it, and the encoder leaves nothing behind.                        *)
CountsBalance ==
  \A a \in Addr \ Immutable : lives[a] # 0 <=> Refcount(a) > 0

(* What every step preserves.  Pins are the table's entries exactly; an id *)
(* names the entity of its entry; a running hook's object holds the newest *)
(* id, which nothing else refers to yet, so that it can be given back.     *)
PinsMatchTable ==
  pinned = IF pinsActive THEN {a \in Addr : InTable(a)} \ Immutable ELSE {}

IdsOwned ==
  /\ \A a \in Addr : HasId(a) => /\ entry[a].id < Len(owners)
                                 /\ owners[entry[a].id + 1] = entry[a].entity
  /\ \A a, b \in Addr : HasId(a) /\ entry[a].id = entry[b].id => a = b

NewestIdIsHooks ==
  hook # NoHook =>
    /\ userCode
    /\ Len(owners) > 0
    /\ InTable(hook) => entry[hook].id = Len(owners) - 1
    /\ \A a \in Addr : entry[a].id = Len(owners) - 1 => a = hook
    /\ \A i \in DOMAIN wire : wire[i].id # Len(owners) - 1

PinsInv ==
  /\ PinsTypeOK
  /\ PinsMatchTable
  /\ userCode => pinsActive
  /\ \A a \in Immutable : lives[a] # 0
  /\ \A a \in Addr : Walked(a) => \E i \in DOMAIN open : open[i] = a
  /\ OpenArraysPending
  /\ EntriesAlive
  /\ CountsBalance
  /\ CopiesHaveOwner
  /\ IdsOwned
  /\ NewestIdIsHooks
  /\ BackRefsFaithful
=============================================================================
