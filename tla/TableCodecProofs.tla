-------------------------- MODULE TableCodecProofs --------------------------
(***************************************************************************)
(* Tables of any size: every cell is written as it was when the encoder    *)
(* reached its row and read back where it belongs, reference counts agree  *)
(* with who holds a table, and what is decoded is released once.           *)
(***************************************************************************)
EXTENDS TableCodec, FiniteSetTheorems, SequenceTheorems, TLAPS

(* The encoder.  A gathered row's pointer goes into a table whose cells    *)
(* and buckets nobody changes: it is immutable, or pinned and not storage. *)
Phases == {"start", "gather", "emit", "release", "done", "declined"}

EncTypeOK ==
  /\ allocated \in NRows .. MaxTables
  /\ immutable \subseteq 1 .. NRows
  /\ refcount \in [Table -> Nat]
  /\ \A t \in immutable : refcount[t] = 0
  /\ version \in [Table -> Nat]
  /\ cells \in [Table -> [Col -> Value]]
  /\ slots \in [Row -> 0 .. allocated]
  /\ var \in 0 .. allocated
  /\ storage \in (0 .. allocated) \ immutable
  /\ phase \in Phases
  /\ failed \in BOOLEAN
  /\ row \in Row /\ col \in Col
  /\ pin \in [Row -> 0 .. allocated]
  /\ pointer \in [Row -> [table : 1 .. allocated, version : Nat]]
  /\ out \in Seq(Value \cup {Wild})
  /\ userCode \in BOOLEAN
  /\ before \in [Row -> [Col -> Value]]

Gathered(r) ==
  LET p == pointer[r] IN
  /\ cells[p.table] = before[r]
  /\ version[p.table] = p.version
  /\ p.table \in immutable \/ pin[r] = p.table

PinsGuard == \A r \in Row : pin[r] # None => pin[r] # storage

GatherInv ==
  /\ userCode => phase \in {"emit", "release", "done"}
  /\ phase \in {"start", "gather"} => \A r \in Row : slots[r] # None
  /\ phase = "gather" => \A r \in Row :
       /\ cells[slots[r]] = before[r]
       /\ r < row => Gathered(r)
       /\ r >= row => pin[r] = None
  /\ phase = "emit" => \A r \in Row : Gathered(r)
  /\ phase = "release" => \A r \in Row : r < row => pin[r] = None

(* The frame: so many cells, column by column.  Each has its place in it.  *)
Place(r, c) == (c - 1) * NRows + r

FrameInv ==
  /\ phase \in {"start", "gather"} => out = <<>>
  /\ phase \in {"start", "gather", "emit"} => ~ failed
  /\ phase = "emit" => Len(out) + 1 = Place(row, col)
  /\ phase \in {"release", "done"} /\ ~ failed => Len(out) = NCols * NRows

EncInv == EncTypeOK /\ HoldersCounted /\ PinsGuard /\ GatherInv /\ FrameInv /\ RowsAsTheyWere

----------------------------------------------------------------------------
(* How many rows a function from rows takes to a table.                    *)
Count(f, t) == Cardinality({r \in Row : f[r] = t})
One(p) == IF p THEN 1 ELSE 0

LEMMA RowsFinite == IsFiniteSet(Row) /\ Cardinality(Row) = NRows /\ NRows \in Nat \ {0, 1}
<1>1. NRows \in Nat \ {0, 1}
  BY TableAssumption
<1>2. IsFiniteSet(1 .. NRows) /\ Cardinality(1 .. NRows) = NRows
  BY <1>1, FS_Interval
<1>3. QED
  BY <1>1, <1>2 DEF Row

LEMMA CountSet ==
  ASSUME NEW f, NEW t
  PROVE  /\ IsFiniteSet({r \in Row : f[r] = t})
         /\ Count(f, t) \in Nat
         /\ (\E r \in Row : f[r] = t) => Count(f, t) >= 1
         /\ (\A r \in Row : f[r] # t) => Count(f, t) = 0
<1> DEFINE S == {r \in Row : f[r] = t}
<1>1. IsFiniteSet(S) /\ Cardinality(S) \in Nat
  BY RowsFinite, FS_Subset, FS_CardinalityType
<1>2. Cardinality(S) = 0 <=> S = {}
  BY <1>1, FS_EmptySet
<1>3. QED
  BY <1>1, <1>2 DEF Count

(* One row's value changed.                                                *)
LEMMA CountUpdate ==
  ASSUME NEW f, f = [q \in Row |-> f[q]], NEW r \in Row, NEW v, NEW t
  PROVE  Count([f EXCEPT ![r] = v], t) = Count(f, t) - One(f[r] = t) + One(v = t)
<1> DEFINE S == {q \in Row : f[q] = t}
           g == [f EXCEPT ![r] = v]
           U == {q \in Row : g[q] = t}
<1>1. IsFiniteSet(S) /\ Count(f, t) = Cardinality(S) /\ Cardinality(S) \in Nat
  BY CountSet DEF Count
<1>2. g[r] = v /\ \A q \in Row : q # r => g[q] = f[q]
  OBVIOUS
<1> HIDE DEF g
<1>3. U = IF v = t THEN (S \ {r}) \cup {r} ELSE S \ {r}
  BY <1>2
<1>4. IsFiniteSet(S \ {r}) /\ Cardinality(S \ {r}) = Cardinality(S) - One(f[r] = t)
  <2>1. r \in S <=> f[r] = t
    OBVIOUS
  <2> HIDE DEF S
  <2>2. IsFiniteSet(S \ {r})
        /\ Cardinality(S \ {r}) = IF r \in S THEN Cardinality(S) - 1 ELSE Cardinality(S)
    BY <1>1, FS_RemoveElement
  <2>3. QED
    BY <1>1, <2>1, <2>2 DEF One
<1>5. Cardinality(U) = Cardinality(S \ {r}) + One(v = t)
  <2>1. Cardinality((S \ {r}) \cup {r}) = Cardinality(S \ {r}) + 1
    BY <1>4, FS_AddElement
  <2>2. Cardinality(S \ {r}) \in Nat
    BY <1>4, FS_CardinalityType
  <2>3. QED
    BY <1>3, <2>1, <2>2 DEF One
<1>6. Count(g, t) = Cardinality(U)
  BY DEF Count
<1>7. QED
  BY <1>1, <1>4, <1>5, <1>6 DEF g

LEMMA HoldersAre ==
  ASSUME NEW t
  PROVE  /\ Holders(t) = Count(slots, t) + Count(pin, t) + One(var = t) + One(storage = t)
         /\ Count(slots, t) \in Nat /\ Count(pin, t) \in Nat
         /\ One(var = t) \in {0, 1} /\ One(storage = t) \in {0, 1}
         /\ Holders(t) \in Nat
<1>1. Holders(t) = Count(slots, t) + Count(pin, t) + One(var = t) + One(storage = t)
  BY DEF Holders, Count, One
<1>2. Count(slots, t) \in Nat /\ Count(pin, t) \in Nat
  BY CountSet
<1>3. One(var = t) \in {0, 1} /\ One(storage = t) \in {0, 1}
  BY DEF One
<1>4. QED
  BY <1>1, <1>2, <1>3

LEMMA HoldersNext ==
  ASSUME NEW t
  PROVE  Holders(t)' = Count(slots', t) + Count(pin', t) + One(var' = t) + One(storage' = t)
BY DEF Holders, Count, One

(* A table that has not been allocated is held by nobody.                  *)
LEMMA Unallocated ==
  ASSUME EncTypeOK, NEW t \in Nat, t > allocated
  PROVE  Holders(t) = 0
<1>1. allocated \in Nat
  BY RowsFinite DEF EncTypeOK
<1>2. var # t /\ storage # t /\ \A r \in Row : slots[r] # t /\ pin[r] # t
  BY <1>1 DEF EncTypeOK
<1>3. Count(slots, t) = 0 /\ Count(pin, t) = 0
  BY <1>2, CountSet
<1>4. QED
  BY <1>2, <1>3, HoldersAre DEF One

(* Tables that live are numbers of the model.                              *)
LEMMA TableNumbers ==
  ASSUME EncTypeOK, NEW t \in 0 .. allocated, t # None
  PROVE  t \in Table /\ t \in Nat /\ t # 0 /\ t <= allocated
BY RowsFinite, TableAssumption DEF EncTypeOK, Table, None

LEMMA ImmutableTables == ASSUME EncTypeOK PROVE immutable \subseteq Table
BY RowsFinite, TableAssumption DEF EncTypeOK, Table

(* References added and dropped.                                           *)
LEMMA RefsAdded ==
  ASSUME EncTypeOK, NEW t \in Table
  PROVE  /\ AddRef(refcount, t) \in [Table -> Nat]
         /\ \A u \in immutable : AddRef(refcount, t)[u] = 0
         /\ \A u \in Table \ immutable : AddRef(refcount, t)[u] = refcount[u] + One(t = u)
BY ImmutableTables DEF EncTypeOK, AddRef, One

LEMMA RefsDropped ==
  ASSUME EncTypeOK, NEW t \in Table \cup {None},
         t \in Table \ immutable => refcount[t] >= 1
  PROVE  /\ DelRef(refcount, t) \in [Table -> Nat]
         /\ \A u \in immutable : DelRef(refcount, t)[u] = 0
         /\ \A u \in Table \ immutable : DelRef(refcount, t)[u] = refcount[u] - One(t = u)
<1>1. None \notin Table
  BY DEF None, Table
<1>2. refcount \in [Table -> Nat]
  BY DEF EncTypeOK
<1>3. CASE t = None \/ t \in immutable
  BY <1>1, <1>2, <1>3, ImmutableTables DEF DelRef, One, EncTypeOK
<1>4. CASE t \in Table \ immutable
  <2>1. refcount[t] - 1 \in Nat
    BY <1>2, <1>4
  <2>2. DelRef(refcount, t) = [refcount EXCEPT ![t] = refcount[t] - 1]
    BY <1>1, <1>4 DEF DelRef
  <2>3. \A u \in Table : DelRef(refcount, t)[u] = IF t = u THEN refcount[t] - 1 ELSE refcount[u]
    BY <1>2, <2>2
  <2>4. DelRef(refcount, t) \in [Table -> Nat]
    BY <1>2, <1>4, <2>1, <2>2
  <2>5. \A u \in immutable : u \in Table /\ u # t /\ refcount[u] = 0
    BY <1>4, ImmutableTables DEF EncTypeOK
  <2>6. \A u \in immutable : DelRef(refcount, t)[u] = 0
    BY <2>3, <2>5
  <2>7. \A u \in Table \ immutable : DelRef(refcount, t)[u] = refcount[u] - One(t = u)
    BY <1>2, <2>3 DEF One
  <2>8. QED
    BY <2>4, <2>6, <2>7
<1>5. QED
  BY <1>3, <1>4

----------------------------------------------------------------------------
(* User code.  Whatever it does, it writes in place neither to an immutable *)
(* table nor to a pinned one.                                               *)

LEMMA UserKeeps ==
  ASSUME EncInv, userCode, UNCHANGED <<immutable, encVars, userCode>>,
         EncTypeOK', HoldersCounted', PinsGuard',
         \A r \in Row : Gathered(r) =>
           /\ cells'[pointer[r].table] = cells[pointer[r].table]
           /\ version'[pointer[r].table] = version[pointer[r].table]
  PROVE  EncInv'
<1>1. /\ phase' = phase /\ failed' = failed /\ row' = row /\ col' = col /\ pin' = pin
      /\ pointer' = pointer /\ out' = out /\ before' = before
  BY DEF encVars
<1>2. phase \notin {"start", "gather", "declined"}
  BY DEF EncInv, GatherInv
<1>3. \A r \in Row : Gathered(r) => Gathered(r)'
  BY <1>1 DEF Gathered
<1>4. GatherInv'
  BY <1>1, <1>2, <1>3 DEF EncInv, GatherInv
<1>5. FrameInv' /\ RowsAsTheyWere'
  BY <1>1 DEF EncInv, FrameInv, RowsAsTheyWere
<1>6. QED
  BY <1>4, <1>5 DEF EncInv

(* HoldersCounted, when nothing but counts and holders changed.            *)
LEMMA CountsKept ==
  ASSUME EncInv, UNCHANGED <<immutable, phase, pin>>,
         \A u \in Table \ immutable :
           refcount'[u] = refcount[u] + Holders(u)' - Holders(u)
  PROVE  HoldersCounted'
<1>1. HoldersCounted
  BY DEF EncInv
<1>2. ASSUME NEW u \in Table \ immutable PROVE refcount'[u] = Holders(u)'
  <2>1. refcount[u] = Holders(u) /\ Holders(u) \in Nat
    BY <1>1, HoldersAre DEF HoldersCounted
  <2>2. Holders(u)' \in Nat
    <3>1. Count(slots', u) \in Nat /\ Count(pin', u) \in Nat
      BY CountSet
    <3>2. QED
      BY <3>1, HoldersNext DEF One
  <2>3. QED
    BY <2>1, <2>2
<1>3. QED
  BY <1>1, <1>2 DEF HoldersCounted

(* A slot, a pin, the variable and the storage each count.                 *)
LEMMA HoldersAtLeast ==
  ASSUME EncInv, NEW t \in Table \ immutable
  PROVE  /\ refcount[t] = Holders(t) /\ refcount[t] \in Nat
         /\ \A r \in Row : slots[r] = t => refcount[t] >= 1
         /\ \A r \in Row : pin[r] = t => refcount[t] >= 1
         /\ var = t \/ storage = t => refcount[t] >= 1
         /\ \A q, r \in Row : slots[q] = t /\ pin[r] = t => refcount[t] >= 2
         /\ \A r \in Row : slots[r] = t /\ storage = t => refcount[t] >= 2
         /\ \A r \in Row : pin[r] = t /\ var = t => refcount[t] >= 2
<1>1. refcount[t] = Holders(t)
  BY DEF EncInv, HoldersCounted
<1>2. \A r \in Row : slots[r] = t => Count(slots, t) >= 1
  BY CountSet
<1>3. \A r \in Row : pin[r] = t => Count(pin, t) >= 1
  BY CountSet
<1>4. (var = t => One(var = t) = 1) /\ (storage = t => One(storage = t) = 1)
  BY DEF One
<1>5. QED
  BY <1>1, <1>2, <1>3, <1>4, HoldersAre

LEMMA UserTakesKeeps ==
  ASSUME EncInv, NEW t \in Table, UserTakes(t)
  PROVE  EncInv'
<1>1. EncTypeOK
  BY DEF EncInv
<1>2. /\ userCode /\ var = None /\ t # None /\ var' = t /\ refcount' = AddRef(refcount, t)
      /\ UNCHANGED <<allocated, immutable, version, cells, slots, storage, encVars, userCode>>
      /\ writes' = writes + 1
  BY DEF UserTakes, Write
<1>3. t \in 0 .. allocated
  BY <1>1 DEF EncTypeOK, UserTakes
<1>4. EncTypeOK'
  BY <1>1, <1>2, <1>3, RefsAdded DEF EncTypeOK, encVars
<1>5. HoldersCounted'
  <2>1. ASSUME NEW u \in Table \ immutable
        PROVE  refcount'[u] = refcount[u] + Holders(u)' - Holders(u)
    <3>1. Holders(u)' = Count(slots, u) + Count(pin, u) + One(t = u) + One(storage = u)
      BY <1>2, HoldersNext DEF encVars
    <3>2. One(var = u) = 0
      BY <1>2 DEF One, None, Table
    <3>3. refcount'[u] = refcount[u] + One(t = u)
      BY <1>1, <1>2, RefsAdded
    <3>4. refcount[u] \in Nat /\ One(t = u) \in {0, 1}
      BY <1>1 DEF EncTypeOK, One
    <3>5. QED
      BY <3>1, <3>2, <3>3, <3>4, HoldersAre
  <2>2. QED
    BY <1>2, <2>1, CountsKept DEF encVars
<1>6. PinsGuard'
  BY <1>2 DEF EncInv, PinsGuard, encVars
<1>7. QED
  BY <1>2, <1>4, <1>5, <1>6, UserKeeps

LEMMA UserDropsKeeps ==
  ASSUME EncInv, UserDrops
  PROVE  EncInv'
<1>1. EncTypeOK
  BY DEF EncInv
<1>2. /\ userCode /\ var # None /\ var' = None /\ refcount' = DelRef(refcount, var)
      /\ UNCHANGED <<allocated, immutable, version, cells, slots, storage, encVars, userCode>>
  BY DEF UserDrops, Write
<1>3. var \in Table
  BY <1>1, <1>2, TableNumbers DEF EncTypeOK
<1>4. /\ DelRef(refcount, var) \in [Table -> Nat]
      /\ \A u \in immutable : DelRef(refcount, var)[u] = 0
      /\ \A u \in Table \ immutable : DelRef(refcount, var)[u] = refcount[u] - One(var = u)
  BY <1>1, <1>3, HoldersAtLeast, RefsDropped
<1>5. EncTypeOK'
  <2>1. 0 \in 0 .. allocated
    BY <1>1, RowsFinite DEF EncTypeOK
  <2>2. QED
    BY <1>1, <1>2, <1>4, <2>1 DEF EncTypeOK, encVars, None
<1>6. HoldersCounted'
  <2>1. ASSUME NEW u \in Table \ immutable
        PROVE  refcount'[u] = refcount[u] + Holders(u)' - Holders(u)
    <3>1. Holders(u)' = Count(slots, u) + Count(pin, u) + One(None = u) + One(storage = u)
      BY <1>2, HoldersNext DEF encVars
    <3>2. One(None = u) = 0
      BY DEF One, None, Table
    <3>3. refcount'[u] = refcount[u] - One(var = u)
      BY <1>2, <1>4
    <3>4. refcount[u] \in Nat
      BY <1>1 DEF EncTypeOK
    <3>5. QED
      BY <3>1, <3>2, <3>3, <3>4, HoldersAre
  <2>2. QED
    BY <1>2, <2>1, CountsKept DEF encVars
<1>7. PinsGuard'
  BY <1>2 DEF EncInv, PinsGuard, encVars
<1>8. QED
  BY <1>2, <1>5, <1>6, <1>7, UserKeeps

LEMMA UserUnsetsKeeps ==
  ASSUME EncInv, NEW r \in Row, UserUnsets(r)
  PROVE  EncInv'
<1>1. EncTypeOK
  BY DEF EncInv
<1>2. /\ userCode /\ slots[r] # None /\ slots' = [slots EXCEPT ![r] = None]
      /\ refcount' = DelRef(refcount, slots[r])
      /\ UNCHANGED <<allocated, immutable, version, cells, var, storage, encVars, userCode>>
  BY DEF UserUnsets, Write
<1>3. slots[r] \in Table /\ slots \in [Row -> 0 .. allocated] /\ None \in 0 .. allocated
  <2>1. slots[r] \in 0 .. allocated /\ slots \in [Row -> 0 .. allocated]
    BY <1>1 DEF EncTypeOK
  <2>2. None \in 0 .. allocated
    BY <1>1, RowsFinite DEF EncTypeOK, None
  <2>3. QED
    BY <1>1, <1>2, <2>1, <2>2, TableNumbers
<1>4. /\ DelRef(refcount, slots[r]) \in [Table -> Nat]
      /\ \A u \in immutable : DelRef(refcount, slots[r])[u] = 0
      /\ \A u \in Table \ immutable :
           DelRef(refcount, slots[r])[u] = refcount[u] - One(slots[r] = u)
  BY <1>1, <1>3, HoldersAtLeast, RefsDropped
<1>5. EncTypeOK'
  BY <1>1, <1>2, <1>3, <1>4 DEF EncTypeOK, encVars
<1>6. HoldersCounted'
  <2>1. ASSUME NEW u \in Table \ immutable
        PROVE  refcount'[u] = refcount[u] + Holders(u)' - Holders(u)
    <3>1. Holders(u)' = Count(slots', u) + Count(pin, u) + One(var = u) + One(storage = u)
      BY <1>2, HoldersNext DEF encVars
    <3>2. Count(slots', u) = Count(slots, u) - One(slots[r] = u) + One(None = u)
      <4>1. slots = [q \in Row |-> slots[q]]
        BY <1>3
      <4>2. QED
        BY <1>2, <4>1, CountUpdate
    <3>3. One(None = u) = 0 /\ One(slots[r] = u) \in {0, 1}
      BY DEF One, None, Table
    <3>4. refcount'[u] = refcount[u] - One(slots[r] = u)
      BY <1>2, <1>4
    <3>5. refcount[u] \in Nat
      BY <1>1 DEF EncTypeOK
    <3>6. QED
      BY <3>1, <3>2, <3>3, <3>4, <3>5, HoldersAre
  <2>2. QED
    BY <1>2, <2>1, CountsKept DEF encVars
<1>7. PinsGuard'
  BY <1>2 DEF EncInv, PinsGuard, encVars
<1>8. QED
  BY <1>2, <1>5, <1>6, <1>7, UserKeeps

(* Only a table that nobody else holds becomes storage: not a pinned one.  *)
LEMMA UserWrapsKeeps ==
  ASSUME EncInv, UserWraps
  PROVE  EncInv'
<1>1. EncTypeOK
  BY DEF EncInv
<1>2. /\ userCode /\ var # None /\ storage = None /\ refcount[var] = 1
      /\ storage' = var /\ var' = None
      /\ UNCHANGED <<heapVars, slots, encVars, userCode>>
  BY DEF UserWraps, Write
<1>3. var \in Table
  BY <1>1, <1>2, TableNumbers DEF EncTypeOK
<1>4. var \notin immutable
  BY <1>1, <1>2 DEF EncTypeOK
<1>5. EncTypeOK'
  <2>1. None \in 0 .. allocated
    BY <1>1, RowsFinite DEF EncTypeOK, None
  <2>2. QED
    BY <1>1, <1>2, <1>4, <2>1 DEF EncTypeOK, encVars, heapVars
<1>6. HoldersCounted'
  <2>1. ASSUME NEW u \in Table \ immutable
        PROVE  refcount'[u] = refcount[u] + Holders(u)' - Holders(u)
    <3>1. Holders(u)' = Count(slots, u) + Count(pin, u) + One(None = u) + One(var = u)
      BY <1>2, HoldersNext DEF encVars
    <3>2. One(None = u) = 0 /\ One(storage = u) = 0
      BY <1>2 DEF One, None, Table
    <3>3. refcount'[u] = refcount[u] /\ refcount[u] \in Nat
      BY <1>1, <1>2 DEF EncTypeOK, heapVars
    <3>4. QED
      BY <3>1, <3>2, <3>3, HoldersAre
  <2>2. QED
    BY <1>2, <2>1, CountsKept DEF encVars, heapVars
<1>7. PinsGuard'
  <2>1. \A r \in Row : pin[r] # var
    BY <1>2, <1>3, <1>4, HoldersAtLeast
  <2>2. QED
    BY <1>2, <2>1 DEF PinsGuard, encVars
<1>8. QED
  BY <1>2, <1>5, <1>6, <1>7, UserKeeps DEF heapVars

(* A write in place touches one table; a new table, none there was.        *)
LEMMA InPlaceEffect ==
  ASSUME EncTypeOK, NEW t \in Table, InPlace(t)
  PROVE  /\ cells' \in [Table -> [Col -> Value]] /\ version' \in [Table -> Nat]
         /\ \A u \in Table : u # t => cells'[u] = cells[u] /\ version'[u] = version[u]
         /\ UNCHANGED <<allocated, refcount>>
<1>1. cells \in [Table -> [Col -> Value]] /\ version \in [Table -> Nat]
  BY DEF EncTypeOK
<1>2. CASE \E c \in Col : \E v \in Value \ {cells[t][c]} :
             cells' = [cells EXCEPT ![t][c] = v] /\ UNCHANGED version
  <2>1. PICK c \in Col, v \in Value : cells' = [cells EXCEPT ![t][c] = v] /\ UNCHANGED version
    BY <1>2
  <2>2. [cells[t] EXCEPT ![c] = v] \in [Col -> Value]
    BY <1>1
  <2>3. cells' = [cells EXCEPT ![t] = [cells[t] EXCEPT ![c] = v]]
    BY <1>1, <2>1
  <2>4. QED
    BY <1>1, <2>1, <2>2, <2>3 DEF InPlace
<1>3. CASE version' = [version EXCEPT ![t] = @ + 1] /\ UNCHANGED cells
  BY <1>1, <1>3 DEF InPlace
<1>4. QED
  BY <1>2, <1>3 DEF InPlace

LEMMA SeparateEffect ==
  ASSUME EncTypeOK, NEW t, NEW contents \in [Col -> Value], NEW rc \in [Table -> Nat],
         Separate(t, contents, rc)
  PROVE  LET n == allocated + 1 IN
         /\ allocated' = n /\ n \in NRows .. MaxTables /\ n \in Table \ immutable
         /\ n \in 1 .. n /\ n # None /\ 0 .. allocated \subseteq 0 .. n /\ 1 .. allocated \subseteq 1 .. n
         /\ n \notin 0 .. allocated
         /\ refcount' \in [Table -> Nat] /\ cells' \in [Table -> [Col -> Value]]
         /\ version' \in [Table -> Nat]
         /\ refcount'[n] = 1 /\ version'[n] = 1 /\ cells'[n] = contents
         /\ \A u \in Table : u # n => /\ refcount'[u] = rc[u] /\ cells'[u] = cells[u]
                                      /\ version'[u] = version[u]
<1> DEFINE n == allocated + 1
<1>1. /\ allocated \in Nat /\ allocated >= NRows /\ allocated < MaxTables /\ MaxTables \in Nat
      /\ immutable \subseteq 1 .. NRows /\ cells \in [Table -> [Col -> Value]]
      /\ version \in [Table -> Nat]
  BY RowsFinite, TableAssumption DEF EncTypeOK, Separate
<1>2. /\ n \in NRows .. MaxTables /\ n \in Table \ immutable /\ n \in 1 .. n /\ n # None
      /\ 0 .. allocated \subseteq 0 .. n /\ 1 .. allocated \subseteq 1 .. n
      /\ n \notin 0 .. allocated
  BY <1>1, RowsFinite DEF Table, None
<1>3. /\ allocated' = n /\ refcount' = [rc EXCEPT ![n] = 1]
      /\ version' = [version EXCEPT ![n] = 1] /\ cells' = [cells EXCEPT ![n] = contents]
  BY DEF Separate
<1> HIDE DEF n
<1>4. refcount' \in [Table -> Nat] /\ cells' \in [Table -> [Col -> Value]] /\ version' \in [Table -> Nat]
  BY <1>1, <1>2, <1>3
<1>5. /\ refcount'[n] = 1 /\ version'[n] = 1 /\ cells'[n] = contents
      /\ \A u \in Table : u # n => /\ refcount'[u] = rc[u] /\ cells'[u] = cells[u]
                                   /\ version'[u] = version[u]
  BY <1>1, <1>2, <1>3
<1>6. QED
  BY <1>2, <1>3, <1>4, <1>5 DEF n

(* A pointer that was gathered goes into a table that lives, into one that *)
(* is pinned or immutable.                                                 *)
LEMMA PointerTable ==
  ASSUME EncTypeOK, NEW r \in Row
  PROVE  pointer[r].table \in Table /\ pointer[r].table \in 1 .. allocated
<1>1. pointer[r] \in [table : 1 .. allocated, version : Nat]
  BY DEF EncTypeOK
<1>2. pointer[r].table \in 1 .. allocated
  BY <1>1
<1>3. QED
  BY <1>2, RowsFinite, TableAssumption DEF EncTypeOK, Table

LEMMA InPlaceKeeps ==
  ASSUME EncInv, userCode, NEW t \in Table \ immutable, InPlace(t),
         UNCHANGED <<immutable, slots, var, storage, encVars, userCode>>,
         \A r \in Row : pin[r] # t
  PROVE  EncInv'
<1>1. EncTypeOK
  BY DEF EncInv
<1>2. EncTypeOK'
  BY <1>1, InPlaceEffect DEF EncTypeOK, encVars
<1>3. HoldersCounted'
  <2>1. ASSUME NEW u \in Table \ immutable
        PROVE  refcount'[u] = refcount[u] + Holders(u)' - Holders(u)
    <3>1. Holders(u)' = Holders(u)
      BY HoldersNext, HoldersAre DEF encVars
    <3>2. refcount'[u] = refcount[u] /\ refcount[u] \in Nat /\ Holders(u) \in Nat
      BY <1>1, HoldersAre, InPlaceEffect DEF EncTypeOK
    <3>3. QED
      BY <3>1, <3>2
  <2>2. QED
    BY <2>1, CountsKept DEF encVars
<1>4. PinsGuard'
  BY DEF EncInv, PinsGuard, encVars
<1>5. ASSUME NEW r \in Row, Gathered(r) PROVE pointer[r].table \in Table /\ pointer[r].table # t
  BY <1>1, <1>5, PointerTable DEF Gathered
<1>6. QED
  BY <1>1, <1>2, <1>3, <1>4, <1>5, UserKeeps, InPlaceEffect

LEMMA UserWritesStorageKeeps ==
  ASSUME EncInv, UserWritesStorage
  PROVE  EncInv'
<1>1. EncTypeOK /\ userCode /\ storage # None /\ InPlace(storage)
      /\ UNCHANGED <<immutable, slots, var, storage, encVars, userCode>>
  BY DEF EncInv, UserWritesStorage, Write
<1>2. storage \in Table \ immutable
  BY <1>1, TableNumbers DEF EncTypeOK
<1>3. \A r \in Row : pin[r] # storage
  BY <1>1 DEF EncInv, PinsGuard
<1>4. QED
  BY <1>1, <1>2, <1>3, InPlaceKeeps

(* A table that one slot alone holds is not pinned.                        *)
LEMMA UserAssignsKeeps ==
  ASSUME EncInv, NEW r \in Row, UserAssigns(r)
  PROVE  EncInv'
<1> DEFINE t == slots[r]
<1>1. /\ EncTypeOK /\ userCode /\ t # None
      /\ UNCHANGED <<immutable, var, storage, encVars, userCode>>
  BY DEF EncInv, UserAssigns, Write
<1>2. t \in Table /\ t \in 0 .. allocated /\ slots \in [Row -> 0 .. allocated]
  <2>1. t \in 0 .. allocated /\ slots \in [Row -> 0 .. allocated]
    BY <1>1 DEF EncTypeOK
  <2>2. QED
    BY <1>1, <2>1, TableNumbers
<1>3. CASE t \notin immutable /\ refcount[t] = 1
  <2>1. InPlace(t) /\ UNCHANGED slots
    BY <1>3 DEF UserAssigns
  <2>2. \A q \in Row : pin[q] # t
    BY <1>2, <1>3, HoldersAtLeast
  <2>3. QED
    BY <1>1, <1>2, <1>3, <2>1, <2>2, InPlaceKeeps
<1>4. CASE ~ (t \notin immutable /\ refcount[t] = 1)
  <2>1. PICK c \in Col, v \in Value :
          Separate(t, [cells[t] EXCEPT ![c] = v], DelRef(refcount, t))
    BY <1>4 DEF UserAssigns
  <2> DEFINE n == allocated + 1
             rc == DelRef(refcount, t)
  <2>2. slots' = [slots EXCEPT ![r] = n]
    BY <1>4 DEF UserAssigns
  <2>3. /\ rc \in [Table -> Nat] /\ \A u \in immutable : rc[u] = 0
        /\ \A u \in Table \ immutable : rc[u] = refcount[u] - One(t = u)
    BY <1>1, <1>2, HoldersAtLeast, RefsDropped
  <2>4. [cells[t] EXCEPT ![c] = v] \in [Col -> Value]
    BY <1>1, <1>2 DEF EncTypeOK
  <2> HIDE DEF t, rc
  <2>5. /\ allocated' = n /\ n \in NRows .. MaxTables /\ n \in Table \ immutable
        /\ n \in 1 .. n /\ n # None /\ 0 .. allocated \subseteq 0 .. n
        /\ 1 .. allocated \subseteq 1 .. n /\ n \notin 0 .. allocated
        /\ refcount' \in [Table -> Nat] /\ cells' \in [Table -> [Col -> Value]]
        /\ version' \in [Table -> Nat] /\ refcount'[n] = 1
        /\ \A u \in Table : u # n => /\ refcount'[u] = rc[u] /\ cells'[u] = cells[u]
                                     /\ version'[u] = version[u]
    BY <1>1, <2>1, <2>3, <2>4, SeparateEffect DEF rc
  <2> HIDE DEF n
  <2>6. EncTypeOK'
    <3>1. slots' \in [Row -> 0 .. n]
      BY <1>2, <2>2, <2>5
    <3>2. pointer \in [Row -> [table : 1 .. n, version : Nat]]
      <4>1. [table : 1 .. allocated, version : Nat] \subseteq [table : 1 .. n, version : Nat]
        BY <2>5
      <4>2. QED
        BY <1>1, <4>1 DEF EncTypeOK
    <3>3. pin \in [Row -> 0 .. n] /\ var \in 0 .. n /\ storage \in (0 .. n) \ immutable
      BY <1>1, <2>5 DEF EncTypeOK
    <3>4. \A u \in immutable : refcount'[u] = 0
      BY <1>1, <2>3, <2>5, ImmutableTables
    <3>5. QED
      BY <1>1, <2>5, <3>1, <3>2, <3>3, <3>4 DEF EncTypeOK, encVars
  <2>7. HoldersCounted'
    <3>1. ASSUME NEW u \in Table \ immutable
          PROVE  refcount'[u] = refcount[u] + Holders(u)' - Holders(u)
      <4>1. slots = [q \in Row |-> slots[q]]
        BY <1>2
      <4>2. Count(slots', u) = Count(slots, u) - One(t = u) + One(n = u)
        BY <2>2, <4>1, CountUpdate DEF t
      <4>3. Holders(u)' = Count(slots', u) + Count(pin, u) + One(var = u) + One(storage = u)
        BY <1>1, HoldersNext DEF encVars
      <4>4. refcount[u] \in Nat /\ One(t = u) \in {0, 1} /\ One(n = u) \in {0, 1}
        BY <1>1 DEF EncTypeOK, One
      <4>5. CASE u = n
        <5>1. refcount[u] = 0 /\ One(n = u) = 1 /\ t # u
          <6>1. u \in Nat /\ u > allocated
            BY <1>1, <4>5, RowsFinite DEF EncTypeOK, n
          <6>2. Holders(u) = 0
            BY <1>1, <6>1, Unallocated
          <6>3. QED
            BY <1>2, <2>5, <4>5, <6>2, HoldersAtLeast DEF One
        <5>2. One(t = u) = 0 /\ refcount'[u] = 1
          BY <2>5, <4>5, <5>1 DEF One
        <5>3. QED
          BY <4>2, <4>3, <5>1, <5>2, HoldersAre
      <4>6. CASE u # n
        <5>1. One(n = u) = 0 /\ refcount'[u] = refcount[u] - One(t = u)
          BY <2>3, <2>5, <4>6 DEF One
        <5>2. QED
          BY <4>2, <4>3, <4>4, <5>1, HoldersAre
      <4>7. QED
        BY <4>5, <4>6
    <3>2. QED
      BY <1>1, <3>1, CountsKept DEF encVars
  <2>8. PinsGuard'
    BY <1>1 DEF EncInv, PinsGuard, encVars
  <2>9. ASSUME NEW q \in Row PROVE pointer[q].table \in Table /\ pointer[q].table # n
    BY <1>1, <2>5, PointerTable
  <2>10. QED
    BY <1>1, <2>5, <2>6, <2>7, <2>8, <2>9, UserKeeps
<1>5. QED
  BY <1>3, <1>4

LEMMA UserReturnsKeeps ==
  ASSUME EncInv, UserReturns
  PROVE  EncInv'
<1>1. userCode' = FALSE /\ UNCHANGED <<heapVars, userVars, encVars>>
  BY DEF UserReturns
<1>2. EncTypeOK' /\ HoldersCounted'
  <2>1. EncTypeOK'
    BY <1>1 DEF EncInv, EncTypeOK, heapVars, userVars, encVars
  <2>2. HoldersCounted'
    BY <1>1 DEF EncInv, HoldersCounted, Holders, heapVars, userVars, encVars
  <2>3. QED
    BY <2>1, <2>2
<1>3. PinsGuard' /\ GatherInv' /\ FrameInv' /\ RowsAsTheyWere'
  BY <1>1 DEF EncInv, PinsGuard, GatherInv, Gathered, FrameInv, RowsAsTheyWere, heapVars,
     userVars, encVars
<1>4. QED
  BY <1>2, <1>3 DEF EncInv

----------------------------------------------------------------------------
(* The k-th cell of a frame, column by column.                             *)
LEMMA QuotientUnique ==
  ASSUME NEW n \in Nat \ {0}, NEW q \in Nat, NEW r \in Nat, r < n
  PROVE  (q * n + r) % n = r /\ (q * n + r) \div n = q
<1> DEFINE x == q * n + r
           d == x \div n
           m == x % n
<1>1. x \in Nat /\ d \in Int /\ m \in 0 .. n - 1 /\ x = n * d + m
  OBVIOUS
<1> HIDE DEF d, m
<1>2. n * d + m = n * q + r
  BY <1>1
<1>3. ASSUME d > q PROVE FALSE
  <2>1. n * d >= n * q + n
    BY <1>1, <1>3
  <2>2. n * d \in Int /\ n * q \in Int
    BY <1>1
  <2>3. QED
    BY <1>1, <1>2, <2>1, <2>2
<1>4. ASSUME d < q PROVE FALSE
  <2>1. n * q >= n * d + n
    BY <1>1, <1>4
  <2>2. n * d \in Int /\ n * q \in Int
    BY <1>1
  <2>3. QED
    BY <1>1, <1>2, <2>1, <2>2
<1>5. d = q
  BY <1>1, <1>3, <1>4
<1>6. m = r
  BY <1>1, <1>2, <1>5
<1>7. QED
  BY <1>5, <1>6 DEF d, m

(* The cell at a place.                                                    *)
CellAt(i) == before[((i - 1) % NRows) + 1][((i - 1) \div NRows) + 1]

LEMMA PlaceOfCell ==
  ASSUME NEW r \in Row, NEW c \in Nat \ {0}
  PROVE  /\ Place(r, c) \in Nat \ {0}
         /\ CellAt(Place(r, c)) = before[r][c]
<1>1. NRows \in Nat \ {0} /\ r \in Nat /\ r - 1 \in Nat /\ r - 1 < NRows /\ c - 1 \in Nat
  BY RowsFinite DEF Row
<1>2. (c - 1) * NRows \in Nat
  BY <1>1
<1>3. Place(r, c) \in Nat \ {0} /\ Place(r, c) - 1 = (c - 1) * NRows + (r - 1)
  BY <1>1, <1>2 DEF Place
<1> DEFINE q == c - 1
           m == r - 1
<1>4. q \in Nat /\ m \in Nat /\ m < NRows /\ Place(r, c) - 1 = q * NRows + m
      /\ m + 1 = r /\ q + 1 = c
  BY <1>1, <1>3
<1> HIDE DEF q, m
<1>5. (q * NRows + m) % NRows = m /\ (q * NRows + m) \div NRows = q
  BY <1>1, <1>4, QuotientUnique
<1>6. CellAt(Place(r, c)) = before[m + 1][q + 1]
  BY <1>4, <1>5 DEF CellAt
<1>7. QED
  BY <1>3, <1>4, <1>6

(* Every place up to the end of a column is a cell's.                      *)
LEMMA PlacesInColumns ==
  ASSUME NEW c \in Nat \ {0}
  PROVE  /\ (c - 1) * NRows \in Nat
         /\ (c - 1) * NRows + NRows = c * NRows
         /\ \A r \in Row : Place(r, c) <= c * NRows
         /\ c \in Col => c * NRows <= NCols * NRows
<1>1. NRows \in Nat /\ c - 1 \in Nat
  BY RowsFinite
<1>2. (c - 1) * NRows \in Nat /\ (c - 1) * NRows + NRows = c * NRows
  BY <1>1
<1>3. \A r \in Row : Place(r, c) <= c * NRows
  BY <1>1, <1>2 DEF Place, Row
<1>4. ASSUME c \in Col PROVE c * NRows <= NCols * NRows
  <2>1. NCols \in Nat /\ NCols - c \in Nat
    BY <1>4, TableAssumption DEF Col
  <2>2. (NCols - c) * NRows \in Nat
    BY <1>1, <2>1
  <2>3. NCols * NRows = c * NRows + (NCols - c) * NRows
    BY <1>1, <2>1
  <2>4. c * NRows \in Nat /\ NCols * NRows \in Nat
    BY <1>1, <2>1
  <2>5. QED
    BY <2>2, <2>3, <2>4
<1>5. QED
  BY <1>2, <1>3, <1>4

LEMMA NextColumn ==
  ASSUME NEW c \in Nat
  PROVE  Place(1, c + 1) = c * NRows + 1
<1> DEFINE d == c + 1
<1>1. d - 1 = c
  OBVIOUS
<1> HIDE DEF d
<1>2. Place(1, d) = c * NRows + 1
  BY <1>1 DEF Place
<1>3. QED
  BY <1>2 DEF d

LEMMA FrameCells == RowsAsTheyWere <=> \A i \in DOMAIN out : out[i] = CellAt(i)
BY DEF RowsAsTheyWere, CellAt

----------------------------------------------------------------------------
(* The encoder gathers.                                                    *)

LEMMA TryTableKeeps ==
  ASSUME EncInv, TryTable
  PROVE  EncInv'
<1>1. /\ EncTypeOK /\ phase = "start" /\ phase' \in {"gather", "declined"}
      /\ before' = [r \in Row |-> cells[slots[r]]] /\ row' = 1
      /\ UNCHANGED <<heapVars, userVars, failed, col, pin, pointer, out, userCode>>
  BY DEF EncInv, TryTable
<1>2. /\ \A r \in Row : pin[r] = None /\ slots[r] # None
      /\ out = <<>> /\ ~ failed /\ ~ userCode
  BY <1>1 DEF EncInv, HoldersCounted, GatherInv, FrameInv
<1>3. \A r \in Row : slots[r] \in Table
  <2>1. \A r \in Row : slots[r] \in 0 .. allocated
    BY <1>1 DEF EncTypeOK
  <2>2. QED
    BY <1>1, <1>2, <2>1, TableNumbers
<1>4. before' \in [Row -> [Col -> Value]]
  BY <1>1, <1>3 DEF EncTypeOK
<1>5. 1 \in Row
  BY RowsFinite DEF Row
<1>6. EncTypeOK'
  BY <1>1, <1>4, <1>5 DEF EncTypeOK, Phases, heapVars, userVars
<1>7. HoldersCounted'
  BY <1>1, <1>2 DEF EncInv, HoldersCounted, Holders, heapVars, userVars
<1>8. GatherInv' /\ PinsGuard'
  BY <1>1, <1>2 DEF GatherInv, PinsGuard, heapVars, userVars, Row
<1>9. FrameInv' /\ RowsAsTheyWere'
  BY <1>1, <1>2 DEF FrameInv, RowsAsTheyWere
<1>10. QED
  BY <1>6, <1>7, <1>8, <1>9 DEF EncInv

(* A row that is pinned gets a table of its own, or one that only its slot *)
(* holds, or an immutable one; the rows before it keep theirs.             *)
LEMMA PinRowEffect ==
  ASSUME EncInv, phase = "gather", NEW k \in Row, k = row, PinRow(slots[row]),
         UNCHANGED <<immutable, userVars, before>>
  PROVE  /\ allocated' \in NRows .. MaxTables
         /\ refcount' \in [Table -> Nat] /\ (\A u \in immutable : refcount'[u] = 0)
         /\ cells' \in [Table -> [Col -> Value]] /\ version' \in [Table -> Nat]
         /\ 0 .. allocated \subseteq 0 .. allocated'
         /\ pin' \in [Row -> 0 .. allocated']
         /\ pointer' \in [Row -> [table : 1 .. allocated', version : Nat]]
         /\ \A q \in Row : q # k => pin'[q] = pin[q]
         /\ \A q \in Row : q < k \/ q = k => Gathered(q)'
         /\ \A q \in Row : cells'[slots[q]] = before[q]
         /\ \A u \in Table \ immutable : refcount'[u] = Holders(u)'
         /\ \A q \in Row : pin'[q] \notin immutable
         /\ PinsGuard'
<1> DEFINE t == slots[k]
           n == allocated + 1
<1>1. EncTypeOK /\ UNCHANGED <<slots, var, storage>> /\ k \in Nat
  BY RowsFinite DEF EncInv, userVars, Row
<1>2. /\ \A q \in Row : slots[q] # None /\ cells[slots[q]] = before[q]
      /\ \A q \in Row : q < k => Gathered(q)
      /\ pin[k] = None
  <2>1. k >= row
    BY <1>1
  <2>2. GatherInv
    BY DEF EncInv
  <2>3. QED
    BY <2>1, <2>2 DEF GatherInv
<1>3. \A q \in Row : slots[q] \in Table /\ slots[q] \in 0 .. allocated
  <2>1. \A q \in Row : slots[q] \in 0 .. allocated
    BY <1>1 DEF EncTypeOK
  <2>2. QED
    BY <1>1, <1>2, <2>1, TableNumbers
<1>4. t \in Table /\ t \in 1 .. allocated /\ cells[t] = before[k]
  BY <1>1, <1>2, <1>3 DEF Table, None
<1>5. /\ pin \in [Row -> 0 .. allocated] /\ pin = [q \in Row |-> pin[q]]
      /\ pointer \in [Row -> [table : 1 .. allocated, version : Nat]]
      /\ refcount \in [Table -> Nat] /\ version \in [Table -> Nat]
      /\ cells \in [Table -> [Col -> Value]]
      /\ allocated \in NRows .. MaxTables
  BY <1>1 DEF EncTypeOK
<1>6. \A u \in Table \ immutable : refcount[u] = Holders(u)
  BY DEF EncInv, HoldersCounted
<1>7. \A q \in Row : pin[q] \notin immutable
  BY DEF EncInv, HoldersCounted
<1>8. /\ None \notin immutable /\ None \notin Table /\ None \in 0 .. allocated
      /\ \A u \in immutable : refcount[u] = 0 /\ u \in Table
  <2>1. None \in 0 .. allocated /\ None \notin Table
    BY <1>5, RowsFinite DEF None, Table
  <2>2. \A u \in immutable : refcount[u] = 0 /\ u \in Table
    BY <1>1, ImmutableTables DEF EncTypeOK
  <2>3. QED
    BY <2>1, <2>2
<1>9. ASSUME NEW q \in Row, q < k
      PROVE  /\ q # k /\ Gathered(q) /\ pointer[q].table \in Table
             /\ pointer[q].table \in 1 .. allocated
  BY <1>1, <1>2, <1>9, PointerTable DEF Row
<1>10. PinsGuard
  BY DEF EncInv
<1>11. CASE t \notin immutable /\ refcount[t] > 1
  <2>1. /\ Separate(t, cells[t], refcount)
        /\ pin' = [pin EXCEPT ![k] = n]
        /\ pointer' = [pointer EXCEPT ![k] = [table |-> n, version |-> 1]]
    BY <1>11 DEF PinRow
  <2>2. cells[t] \in [Col -> Value]
    BY <1>4, <1>5
  <2> HIDE DEF t
  <2>3. /\ allocated' = n /\ n \in NRows .. MaxTables /\ n \in Table \ immutable
        /\ n \in 1 .. n /\ n # None /\ 0 .. allocated \subseteq 0 .. n
        /\ 1 .. allocated \subseteq 1 .. n /\ n \notin 0 .. allocated
        /\ refcount' \in [Table -> Nat] /\ cells' \in [Table -> [Col -> Value]]
        /\ version' \in [Table -> Nat]
        /\ refcount'[n] = 1 /\ version'[n] = 1 /\ cells'[n] = cells[t]
        /\ \A u \in Table : u # n => /\ refcount'[u] = refcount[u] /\ cells'[u] = cells[u]
                                     /\ version'[u] = version[u]
    BY <1>1, <1>5, <2>1, <2>2, SeparateEffect
  <2>4. n \in Nat /\ n > allocated
    BY <1>1, RowsFinite DEF EncTypeOK
  <2> HIDE DEF n
  <2>5. /\ pin' \in [Row -> 0 .. n] /\ pin'[k] = n
        /\ \A q \in Row : q # k => pin'[q] = pin[q]
    <3>1. n \in 0 .. n /\ pin \in [Row -> 0 .. n]
      BY <1>5, <2>3
    <3>2. QED
      BY <2>1, <3>1
  <2>6. /\ pointer' \in [Row -> [table : 1 .. n, version : Nat]]
        /\ pointer'[k] = [table |-> n, version |-> 1]
        /\ \A q \in Row : q # k => pointer'[q] = pointer[q]
    <3>1. [table : 1 .. allocated, version : Nat] \subseteq [table : 1 .. n, version : Nat]
      BY <2>3
    <3>2. pointer \in [Row -> [table : 1 .. n, version : Nat]]
      BY <1>5, <3>1
    <3>3. [table |-> n, version |-> 1] \in [table : 1 .. n, version : Nat]
      BY <2>3
    <3>4. QED
      BY <2>1, <3>2, <3>3
  <2>7. Gathered(k)'
    <3>1. pointer'[k].table = n /\ pointer'[k].version = 1
      BY <2>6
    <3>2. cells'[n] = before[k] /\ version'[n] = 1 /\ pin'[k] = n
      BY <1>4, <2>3, <2>5
    <3>3. QED
      BY <3>1, <3>2 DEF Gathered
  <2>8. ASSUME NEW q \in Row, q < k PROVE Gathered(q)'
    <3>1. /\ q # k /\ Gathered(q) /\ pointer[q].table \in Table
          /\ pointer[q].table # n
      BY <1>9, <2>3, <2>8
    <3>2. pointer'[q] = pointer[q] /\ pin'[q] = pin[q]
      BY <2>5, <2>6, <3>1
    <3>3. QED
      BY <2>3, <3>1, <3>2 DEF Gathered
  <2>9. \A q \in Row : cells'[slots[q]] = before[q]
    BY <1>2, <1>3, <2>3
  <2>10. ASSUME NEW u \in Table \ immutable PROVE refcount'[u] = Holders(u)'
    <3>1. Count(pin', u) = Count(pin, u) - One(pin[k] = u) + One(n = u)
      <4>1. pin = [q \in Row |-> pin[q]]
        BY <1>5
      <4>2. QED
        BY <2>1, <4>1, CountUpdate
    <3>2. One(pin[k] = u) = 0
      BY <1>2, <1>8 DEF One
    <3>3. Holders(u)' = Count(slots, u) + Count(pin', u) + One(var = u) + One(storage = u)
      BY <1>1, HoldersNext
    <3>4. CASE u = n
      <4>1. Holders(u) = 0 /\ One(n = u) = 1
        BY <1>1, <2>4, <3>4, Unallocated DEF One
      <4>2. QED
        BY <2>3, <3>1, <3>2, <3>3, <3>4, <4>1, HoldersAre
    <3>5. CASE u # n
      <4>1. One(n = u) = 0 /\ refcount'[u] = Holders(u)
        BY <1>6, <2>3, <3>5 DEF One
      <4>2. QED
        BY <3>1, <3>2, <3>3, <4>1, HoldersAre
    <3>6. QED
      BY <3>4, <3>5
  <2>11. \A q \in Row : pin'[q] \notin immutable
    BY <1>7, <2>3, <2>5
  <2>12. PinsGuard'
    <3>1. storage \in 0 .. allocated
      BY <1>1 DEF EncTypeOK
    <3>2. QED
      BY <1>1, <1>10, <2>3, <2>5, <3>1 DEF PinsGuard
  <2>13. \A u \in immutable : refcount'[u] = 0
    BY <1>8, <2>3
  <2>14. QED
    BY <2>3, <2>5, <2>6, <2>7, <2>8, <2>9, <2>10, <2>11, <2>12, <2>13
<1>12. CASE ~ (t \notin immutable /\ refcount[t] > 1)
  <2> DEFINE v == IF t \in immutable THEN None ELSE t
             p == [table |-> t, version |-> version[t]]
  <2>1. /\ pin' = [pin EXCEPT ![k] = v] /\ pointer' = [pointer EXCEPT ![k] = p]
        /\ refcount' = AddRef(refcount, t)
        /\ UNCHANGED <<allocated, version, cells>>
    BY <1>12 DEF PinRow
  <2>2. /\ AddRef(refcount, t) \in [Table -> Nat]
        /\ \A u \in immutable : AddRef(refcount, t)[u] = 0
        /\ \A u \in Table \ immutable : AddRef(refcount, t)[u] = refcount[u] + One(t = u)
    BY <1>1, <1>4, RefsAdded
  <2>3. v \in 0 .. allocated /\ v \notin immutable
    BY <1>4, <1>8
  <2>4. p \in [table : 1 .. allocated, version : Nat] /\ p.table = t /\ p.version = version[t]
    BY <1>4, <1>5
  <2>5. t \in immutable \/ v = t
    OBVIOUS
  <2>6. v # None => v # storage
    <3> SUFFICES ASSUME t \notin immutable, t = storage PROVE FALSE
      OBVIOUS
    <3>1. refcount[t] >= 2 /\ refcount[t] \in Nat
      BY <1>4, HoldersAtLeast
    <3>2. QED
      BY <1>12, <3>1
  <2>7. \A u \in Table \ immutable : One(v = u) = One(t = u)
    BY <1>8 DEF One
  <2> HIDE DEF v, p, t
  <2>8. /\ pin' \in [Row -> 0 .. allocated] /\ pin'[k] = v
        /\ \A q \in Row : q # k => pin'[q] = pin[q]
    BY <1>5, <2>1, <2>3
  <2>9. /\ pointer' \in [Row -> [table : 1 .. allocated, version : Nat]]
        /\ pointer'[k] = p
        /\ \A q \in Row : q # k => pointer'[q] = pointer[q]
    BY <1>5, <2>1, <2>4
  <2>10. Gathered(k)'
    BY <1>4, <2>1, <2>4, <2>5, <2>8, <2>9 DEF Gathered
  <2>11. ASSUME NEW q \in Row, q < k PROVE Gathered(q)'
    BY <1>9, <2>1, <2>8, <2>9, <2>11 DEF Gathered
  <2>12. ASSUME NEW u \in Table \ immutable PROVE refcount'[u] = Holders(u)'
    <3>1. Count(pin', u) = Count(pin, u) - One(pin[k] = u) + One(v = u)
      <4>1. pin = [q \in Row |-> pin[q]]
        BY <1>5
      <4>2. QED
        BY <2>1, <4>1, CountUpdate
    <3>2. One(pin[k] = u) = 0
      BY <1>2, <1>8 DEF One
    <3>3. Holders(u)' = Count(slots, u) + Count(pin', u) + One(var = u) + One(storage = u)
      BY <1>1, HoldersNext
    <3>4. refcount'[u] = Holders(u) + One(t = u) /\ One(t = u) \in {0, 1}
      BY <1>6, <2>1, <2>2 DEF One
    <3>5. One(v = u) = One(t = u)
      BY <2>7
    <3>6. QED
      BY <3>1, <3>2, <3>3, <3>4, <3>5, HoldersAre
  <2>13. \A q \in Row : pin'[q] \notin immutable
    BY <1>7, <2>3, <2>8
  <2>14. PinsGuard'
    BY <1>1, <1>10, <2>6, <2>8 DEF PinsGuard
  <2>15. QED
    BY <1>2, <1>5, <2>1, <2>2, <2>8, <2>9, <2>10, <2>11, <2>12, <2>13, <2>14
<1>13. QED
  BY <1>11, <1>12

LEMMA GatherRowKeeps ==
  ASSUME EncInv, GatherRow
  PROVE  EncInv'
<1>1. PICK k \in Row : k = row
  BY DEF EncInv, EncTypeOK
<1>2. /\ EncTypeOK /\ phase = "gather" /\ PinRow(slots[row])
      /\ UNCHANGED <<immutable, userVars, failed, out, before, userCode>>
      /\ IF k < NRows THEN row' = k + 1 /\ UNCHANGED <<phase, col>>
                      ELSE row' = 1 /\ col' = 1 /\ phase' = "emit"
  BY <1>1 DEF EncInv, GatherRow
<1>3. k \in Nat /\ NRows \in Nat \ {0} /\ k <= NRows /\ 1 <= k
  BY RowsFinite DEF Row
<1>4. /\ \A q \in Row : slots[q] # None
      /\ \A q \in Row : q >= k => pin[q] = None
      /\ out = <<>> /\ ~ failed /\ ~ userCode
  BY <1>1, <1>2 DEF EncInv, GatherInv, FrameInv
<1>5. row' \in Row /\ col' \in Col
  <2>1. row' \in Row
    BY <1>2, <1>3 DEF Row
  <2>2. 1 \in Col /\ col \in Col
    BY <1>2, TableAssumption DEF EncTypeOK, Col
  <2>3. QED
    BY <1>2, <2>1, <2>2
<1>6. /\ allocated' \in NRows .. MaxTables
      /\ refcount' \in [Table -> Nat] /\ (\A u \in immutable : refcount'[u] = 0)
      /\ cells' \in [Table -> [Col -> Value]] /\ version' \in [Table -> Nat]
      /\ 0 .. allocated \subseteq 0 .. allocated'
      /\ pin' \in [Row -> 0 .. allocated']
      /\ pointer' \in [Row -> [table : 1 .. allocated', version : Nat]]
  BY <1>1, <1>2, PinRowEffect
<1>7. /\ \A q \in Row : q # k => pin'[q] = pin[q]
      /\ \A q \in Row : q < k \/ q = k => Gathered(q)'
      /\ \A q \in Row : cells'[slots[q]] = before[q]
      /\ \A u \in Table \ immutable : refcount'[u] = Holders(u)'
      /\ \A q \in Row : pin'[q] \notin immutable
      /\ PinsGuard'
  BY <1>1, <1>2, PinRowEffect
<1>8. slots' = slots /\ var' = var /\ storage' = storage
  BY <1>2 DEF userVars
<1>9. EncTypeOK'
  <2>1. phase' \in Phases
    BY <1>2 DEF Phases
  <2>2. slots \in [Row -> 0 .. allocated'] /\ var \in 0 .. allocated'
        /\ storage \in (0 .. allocated') \ immutable
    BY <1>2, <1>6 DEF EncTypeOK
  <2>3. QED
    BY <1>2, <1>5, <1>6, <1>8, <2>1, <2>2 DEF EncTypeOK
<1>10. HoldersCounted'
  BY <1>2, <1>7 DEF HoldersCounted
<1>11. GatherInv'
  <2>1. CASE k < NRows
    <3>1. \A q \in Row : (q < k + 1 <=> q < k \/ q = k) /\ (q >= k + 1 => q # k /\ q >= k)
      BY <1>3 DEF Row
    <3>2. phase' = "gather" /\ row' = k + 1
      BY <1>2, <2>1
    <3>3. QED
      BY <1>2, <1>4, <1>7, <1>8, <3>1, <3>2 DEF GatherInv
  <2>2. CASE ~ (k < NRows)
    <3>1. \A q \in Row : q < k \/ q = k
      BY <1>3, <2>2 DEF Row
    <3>2. QED
      BY <1>2, <1>4, <1>7, <2>2, <3>1 DEF GatherInv
  <2>3. QED
    BY <2>1, <2>2
<1>12. FrameInv'
  <2>1. Len(<<>>) + 1 = Place(1, 1)
    BY <1>3 DEF Place
  <2>2. phase' = "emit" => row' = 1 /\ col' = 1
    BY <1>2
  <2>3. phase' = "emit" => Len(out') + 1 = Place(row', col')
    BY <1>2, <1>4, <2>1, <2>2
  <2>4. QED
    BY <1>2, <1>4, <2>3 DEF FrameInv
<1>13. RowsAsTheyWere'
  BY <1>2, <1>4 DEF RowsAsTheyWere
<1>14. QED
  BY <1>7, <1>9, <1>10, <1>11, <1>12, <1>13 DEF EncInv

LEMMA OutOfMemoryKeeps ==
  ASSUME EncInv, OutOfMemory
  PROVE  EncInv'
<1>1. /\ EncTypeOK /\ phase = "gather" /\ phase' = "release" /\ failed' = TRUE /\ row' = 1
      /\ UNCHANGED <<heapVars, userVars, col, pin, pointer, out, before, userCode>>
  BY DEF EncInv, OutOfMemory, Stop
<1>2. out = <<>> /\ 1 \in Row
  BY <1>1, RowsFinite DEF EncInv, FrameInv, Row
<1>3. EncTypeOK'
  BY <1>1, <1>2 DEF EncTypeOK, Phases, heapVars, userVars
<1>4. HoldersCounted'
  BY <1>1 DEF EncInv, HoldersCounted, Holders, heapVars, userVars
<1>5. GatherInv' /\ PinsGuard'
  <2>1. \A r \in Row : ~ (r < 1)
    BY DEF Row
  <2>2. QED
    BY <1>1, <2>1 DEF EncInv, GatherInv, PinsGuard, userVars
<1>6. FrameInv' /\ RowsAsTheyWere'
  BY <1>1, <1>2 DEF FrameInv, RowsAsTheyWere
<1>7. QED
  BY <1>3, <1>4, <1>5, <1>6 DEF EncInv

----------------------------------------------------------------------------
(* The encoder writes.                                                     *)

(* No pointer is stale: what is read is what was there.                    *)
LEMMA ReadsTheRow ==
  ASSUME EncInv, phase = "emit", NEW r \in Row, NEW c \in Col
  PROVE  Read(r, c) = before[r][c] /\ Read(r, c) \in Value
<1> DEFINE t == pointer[r].table
<1>1. Gathered(r) /\ EncTypeOK
  BY DEF EncInv, GatherInv
<1>2. t \in Table
  BY <1>1, PointerTable
<1>3. Alive(t)
  <2>1. CASE t \in immutable
    BY <2>1 DEF Alive
  <2>2. CASE t \notin immutable
    <3>1. refcount[t] >= 1 /\ refcount[t] \in Nat
      BY <1>1, <1>2, <2>2, HoldersAtLeast DEF Gathered
    <3>2. QED
      BY <3>1 DEF Alive
  <2>3. QED
    BY <2>1, <2>2
<1>4. cells[t] = before[r] /\ version[t] = pointer[r].version
  BY <1>1 DEF Gathered
<1>5. before[r][c] \in Value
  BY <1>1 DEF EncTypeOK
<1>6. QED
  BY <1>3, <1>4, <1>5 DEF Read

LEMMA MixedCellKeeps ==
  ASSUME EncInv, MixedCell
  PROVE  EncInv'
<1>1. PICK r \in Row, c \in Col : r = row /\ c = col
  BY DEF EncInv, EncTypeOK
<1>2. /\ EncTypeOK /\ phase = "emit" /\ ~ userCode
      /\ out' = Append(out, Read(r, c)) /\ userCode' \in BOOLEAN
      /\ UNCHANGED <<heapVars, userVars, failed, pin, pointer, before>>
      /\ NextCell
  BY <1>1 DEF EncInv, MixedCell
<1>3. r \in Nat /\ c \in Nat \ {0} /\ r >= 1 /\ r <= NRows /\ c <= NCols /\ NRows \in Nat /\ NCols \in Nat
  BY RowsFinite, TableAssumption DEF Row, Col
<1>4. Len(out) + 1 = Place(r, c) /\ out \in Seq(Value \cup {Wild}) /\ ~ failed
  BY <1>1, <1>2 DEF EncInv, FrameInv, EncTypeOK
<1>5. Read(r, c) = before[r][c] /\ Read(r, c) \in Value
  BY <1>2, ReadsTheRow
<1>6. /\ Place(r, c) \in Nat \ {0} /\ CellAt(Place(r, c)) = before[r][c]
      /\ (c - 1) * NRows \in Nat /\ (c - 1) * NRows + NRows = c * NRows
  BY <1>3, PlaceOfCell, PlacesInColumns
<1>7. Len(out) + 1 = Place(r, c)
  BY <1>4
<1>8. /\ out' \in Seq(Value \cup {Wild}) /\ Len(out') = Place(r, c)
      /\ out'[Place(r, c)] = before[r][c]
      /\ \A i \in 1 .. Len(out) : out'[i] = out[i]
      /\ DOMAIN out' = 1 .. Len(out) + 1 /\ Len(out) \in Nat
  BY <1>2, <1>4, <1>5, <1>7
<1>9. RowsAsTheyWere'
  <2>1. \A i \in 1 .. Len(out) : out[i] = CellAt(i)
    BY <1>4, FrameCells DEF EncInv
  <2>2. ASSUME NEW i \in 1 .. Len(out) + 1 PROVE out'[i] = CellAt(i)
    <3>1. CASE i = Len(out) + 1
      BY <1>6, <1>7, <1>8, <3>1
    <3>2. CASE i # Len(out) + 1
      BY <1>8, <2>1, <3>2
    <3>3. QED
      BY <3>1, <3>2
  <2>3. before' = before
    BY <1>2
  <2>4. QED
    BY <1>8, <2>2, <2>3 DEF RowsAsTheyWere, CellAt
<1>10. /\ row' \in Row /\ col' \in Col /\ phase' \in {"emit", "release"}
       /\ phase' = "emit" => Len(out') + 1 = Place(row', col')
       /\ phase' = "release" => row' = 1 /\ Len(out') = NCols * NRows
  <2>1. CASE r < NRows
    <3>1. row' = r + 1 /\ col' = c /\ phase' = "emit"
      BY <1>1, <1>2, <2>1 DEF NextCell
    <3>2. r + 1 \in Row
      BY <1>3, <2>1 DEF Row
    <3>3. Len(out') + 1 = Place(r + 1, c)
      BY <1>3, <1>6, <1>8 DEF Place
    <3>4. Len(out') + 1 = Place(row', col')
      BY <3>1, <3>3
    <3>5. QED
      BY <3>1, <3>2, <3>4
  <2>2. CASE r = NRows /\ c < NCols
    <3>1. row' = 1 /\ col' = c + 1 /\ phase' = "emit"
      BY <1>1, <1>2, <1>3, <2>2 DEF NextCell
    <3>2. 1 \in Row /\ c + 1 \in Col
      BY <1>3, <2>2 DEF Row, Col
    <3>3. Len(out') = c * NRows
      BY <1>6, <1>8, <2>2 DEF Place
    <3>5. Len(out') + 1 = Place(1, c + 1)
      BY <1>3, <3>3, NextColumn
    <3>6. Len(out') + 1 = Place(row', col')
      BY <3>1, <3>5
    <3>7. QED
      BY <3>1, <3>2, <3>6
  <2>3. CASE r = NRows /\ c = NCols
    <3>1. row' = 1 /\ col' = c /\ phase' = "release"
      BY <1>1, <1>2, <1>3, <2>3 DEF NextCell
    <3>2. 1 \in Row
      BY <1>3, <2>3 DEF Row
    <3>3. Len(out') = c * NRows
      BY <1>6, <1>8, <2>3 DEF Place
    <3>4. QED
      BY <2>3, <3>1, <3>2, <3>3
  <2>4. QED
    BY <1>3, <2>1, <2>2, <2>3
<1>11. EncTypeOK'
  BY <1>2, <1>8, <1>10 DEF EncTypeOK, Phases, heapVars, userVars
<1>12. HoldersCounted'
  BY <1>2, <1>10 DEF EncInv, HoldersCounted, Holders, heapVars, userVars
<1>13. PinsGuard'
  BY <1>2 DEF EncInv, PinsGuard, userVars
<1>14. GatherInv'
  <2>1. \A q \in Row : ~ (q < 1)
    BY DEF Row
  <2>2. QED
    BY <1>2, <1>10, <2>1 DEF EncInv, GatherInv, Gathered, heapVars, userVars
<1>15. FrameInv'
  BY <1>2, <1>4, <1>10 DEF FrameInv
<1>16. QED
  BY <1>9, <1>11, <1>12, <1>13, <1>14, <1>15 DEF EncInv

LEMMA TypedColumnKeeps ==
  ASSUME EncInv, TypedColumn
  PROVE  EncInv'
<1>1. PICK c \in Col : c = col
  BY DEF EncInv, EncTypeOK
<1> DEFINE g == [r \in Row |-> Read(r, c)]
<1>2. /\ EncTypeOK /\ phase = "emit" /\ ~ userCode /\ row = 1
      /\ out' = out \o g
      /\ IF c < NCols THEN col' = c + 1 /\ UNCHANGED phase
                      ELSE phase' = "release" /\ UNCHANGED col
      /\ UNCHANGED <<heapVars, userVars, failed, row, pin, pointer, before, userCode>>
  BY <1>1 DEF EncInv, TypedColumn
<1>3. c \in Nat \ {0} /\ c <= NCols /\ NRows \in Nat /\ NCols \in Nat
  BY RowsFinite, TableAssumption DEF Col
<1>4. /\ (c - 1) * NRows \in Nat /\ (c - 1) * NRows + NRows = c * NRows
      /\ \A r \in Row : Place(r, c) \in Nat \ {0} /\ CellAt(Place(r, c)) = before[r][c]
  BY <1>3, PlaceOfCell, PlacesInColumns
<1>5. Len(out) = (c - 1) * NRows /\ out \in Seq(Value \cup {Wild}) /\ ~ failed
  <2>1. Len(out) + 1 = Place(1, c) /\ out \in Seq(Value \cup {Wild}) /\ ~ failed
    BY <1>1, <1>2 DEF EncInv, FrameInv, EncTypeOK
  <2>2. Len(out) \in Nat
    BY <2>1
  <2>3. QED
    BY <1>4, <2>1, <2>2 DEF Place
<1>6. \A r \in Row : Read(r, c) = before[r][c] /\ Read(r, c) \in Value
  BY <1>2, ReadsTheRow
<1>7. g \in Seq(Value \cup {Wild}) /\ Len(g) = NRows /\ \A r \in Row : g[r] = before[r][c]
  BY <1>3, <1>6 DEF Row
<1> HIDE DEF g
<1> DEFINE n == Len(out)
<1>8. /\ out' \in Seq(Value \cup {Wild}) /\ n \in Nat /\ Len(out') = n + NRows
      /\ DOMAIN out' = 1 .. n + NRows
      /\ \A i \in 1 .. n : out'[i] = out[i]
      /\ \A i \in n + 1 .. n + NRows : out'[i] = g[i - n]
  <2>1. out' \in Seq(Value \cup {Wild}) /\ n \in Nat /\ Len(out') = n + NRows
    BY <1>2, <1>5, <1>7, ConcatProperties, LenProperties
  <2>2. \A i \in 1 .. n + NRows : out'[i] = IF i <= n THEN out[i] ELSE g[i - n]
    BY <1>2, <1>5, <1>7, ConcatProperties
  <2> HIDE DEF n
  <2>3. DOMAIN out' = 1 .. n + NRows
    BY <2>1
  <2>4. QED
    BY <1>3, <2>1, <2>2, <2>3
<1> HIDE DEF n
<1>9. RowsAsTheyWere'
  <2>1. \A i \in 1 .. n : out[i] = CellAt(i)
    BY <1>5, FrameCells DEF EncInv, n
  <2>2. ASSUME NEW i \in n + 1 .. n + NRows PROVE out'[i] = CellAt(i)
    <3>1. i - n \in Row /\ n = (c - 1) * NRows
      BY <1>3, <1>5, <1>8 DEF Row, n
    <3>2. Place(i - n, c) = i
      BY <1>8, <3>1 DEF Place
    <3>3. QED
      BY <1>4, <1>7, <1>8, <3>1, <3>2
  <2>3. \A i \in 1 .. n + NRows : i \in 1 .. n \/ i \in n + 1 .. n + NRows
    BY <1>3, <1>8
  <2>4. before' = before
    BY <1>2
  <2>5. QED
    BY <1>8, <2>1, <2>2, <2>3, <2>4 DEF RowsAsTheyWere, CellAt
<1>10. Len(out') = c * NRows
  BY <1>4, <1>5, <1>8 DEF n
<1>11. /\ row' = 1 /\ row' \in Row /\ col' \in Col /\ phase' \in {"emit", "release"}
       /\ phase' = "emit" => Len(out') + 1 = Place(row', col')
       /\ phase' = "release" => row' = 1 /\ Len(out') = NCols * NRows
  <2>1. row' = 1 /\ row' \in Row
    BY <1>2 DEF EncTypeOK
  <2>2. CASE c < NCols
    <3>1. col' = c + 1 /\ phase' = "emit" /\ c + 1 \in Col
      BY <1>2, <1>3, <2>2 DEF Col
    <3>3. Len(out') + 1 = Place(1, c + 1)
      BY <1>3, <1>10, NextColumn
    <3>4. Len(out') + 1 = Place(row', col')
      BY <2>1, <3>1, <3>3
    <3>5. QED
      BY <2>1, <3>1, <3>4
  <2>3. CASE ~ (c < NCols)
    <3>1. col' = c /\ phase' = "release" /\ c = NCols
      BY <1>1, <1>2, <1>3, <2>3
    <3>2. QED
      BY <1>10, <2>1, <3>1
  <2>4. QED
    BY <2>2, <2>3
<1>12. EncTypeOK'
  BY <1>2, <1>8, <1>11 DEF EncTypeOK, Phases, heapVars, userVars
<1>13. HoldersCounted'
  BY <1>2, <1>11 DEF EncInv, HoldersCounted, Holders, heapVars, userVars
<1>14. PinsGuard'
  BY <1>2 DEF EncInv, PinsGuard, userVars
<1>15. GatherInv'
  <2>1. \A q \in Row : ~ (q < 1)
    BY DEF Row
  <2>2. QED
    BY <1>2, <1>11, <2>1 DEF EncInv, GatherInv, Gathered, heapVars, userVars
<1>16. FrameInv'
  BY <1>2, <1>5, <1>11 DEF FrameInv
<1>17. QED
  BY <1>9, <1>12, <1>13, <1>14, <1>15, <1>16 DEF EncInv

(* A pin is given up once, and with it a table nobody else holds.          *)
LEMMA ReleasePinKeeps ==
  ASSUME EncInv, ReleasePin
  PROVE  EncInv'
<1>1. PICK k \in Row : k = row
  BY DEF EncInv, EncTypeOK
<1> DEFINE t == pin[k]
<1>2. /\ EncTypeOK /\ phase = "release" /\ ~ userCode
      /\ pin' = [pin EXCEPT ![k] = None] /\ refcount' = DelRef(refcount, t)
      /\ userCode' \in BOOLEAN /\ NextPin
      /\ UNCHANGED <<allocated, immutable, version, cells, userVars, failed, col, pointer,
                     out, before>>
  BY <1>1 DEF EncInv, ReleasePin
<1>3. /\ pin \in [Row -> 0 .. allocated] /\ None \in 0 .. allocated
      /\ None \notin Table /\ None \notin immutable
  BY <1>2, RowsFinite DEF EncTypeOK, None, Table
<1>4. t \in Table \cup {None} /\ t \notin immutable
  <2>1. t \in 0 .. allocated
    BY <1>3
  <2>2. QED
    BY <1>2, <2>1, TableNumbers DEF EncInv, HoldersCounted
<1>5. t \in Table \ immutable => refcount[t] >= 1
  BY HoldersAtLeast
<1>6. /\ DelRef(refcount, t) \in [Table -> Nat]
      /\ \A u \in immutable : DelRef(refcount, t)[u] = 0
      /\ \A u \in Table \ immutable : DelRef(refcount, t)[u] = refcount[u] - One(t = u)
  BY <1>2, <1>4, <1>5, RefsDropped
<1>7. /\ pin' \in [Row -> 0 .. allocated] /\ pin'[k] = None
      /\ \A q \in Row : q # k => pin'[q] = pin[q]
  BY <1>2, <1>3
<1>8. ASSUME NEW u \in Table \ immutable PROVE refcount'[u] = Holders(u)'
  <2>1. pin = [q \in Row |-> pin[q]]
    BY <1>3
  <2>2. Count(pin', u) = Count(pin, u) - One(t = u) + One(None = u)
    BY <1>2, <2>1, CountUpdate
  <2>3. Holders(u)' = Count(slots, u) + Count(pin', u) + One(var = u) + One(storage = u)
    BY <1>2, HoldersNext DEF userVars
  <2>4. One(None = u) = 0 /\ One(t = u) \in {0, 1}
    BY <1>3 DEF One
  <2>5. refcount'[u] = Holders(u) - One(t = u)
    BY <1>2, <1>6, HoldersAtLeast
  <2> HIDE DEF t
  <2>6. QED
    BY <2>2, <2>3, <2>4, <2>5, HoldersAre
<1>9. /\ row' \in Row /\ phase' \in {"release", "done"}
      /\ phase' = "release" => \A q \in Row : q < row' => pin'[q] = None
      /\ phase' = "done" => \A q \in Row : pin'[q] = None
  <2>1. \A q \in Row : q < k => pin[q] = None
    BY <1>1, <1>2 DEF EncInv, GatherInv
  <2>2. k \in 1 .. NRows /\ NRows \in Nat
    BY RowsFinite DEF Row
  <2>3. \A q \in Row : q < k \/ q = k => pin'[q] = None
    BY <1>7, <2>1, <2>2 DEF Row
  <2>4. CASE k < NRows
    <3>1. row' = k + 1 /\ phase' = "release"
      BY <1>1, <1>2, <2>4 DEF NextPin
    <3>2. k + 1 \in Row /\ \A q \in Row : q < k + 1 => q < k \/ q = k
      BY <2>2, <2>4 DEF Row
    <3>3. QED
      BY <2>3, <3>1, <3>2
  <2>5. CASE ~ (k < NRows)
    <3>1. row' = k /\ phase' = "done"
      BY <1>1, <1>2, <2>5 DEF NextPin
    <3>2. \A q \in Row : q < k \/ q = k
      BY <2>2, <2>5 DEF Row
    <3>3. QED
      BY <2>3, <3>1, <3>2
  <2>6. QED
    BY <2>4, <2>5
<1>10. EncTypeOK'
  BY <1>2, <1>6, <1>7, <1>9 DEF EncTypeOK, Phases, userVars
<1>11. HoldersCounted'
  <2>1. \A q \in Row : pin'[q] \notin immutable
    BY <1>3, <1>7 DEF EncInv, HoldersCounted
  <2>2. QED
    BY <1>2, <1>8, <1>9, <2>1 DEF HoldersCounted
<1>12. PinsGuard'
  BY <1>2, <1>7 DEF EncInv, PinsGuard, userVars
<1>13. GatherInv'
  BY <1>9 DEF GatherInv
<1>14. FrameInv' /\ RowsAsTheyWere'
  BY <1>2, <1>9 DEF EncInv, FrameInv, RowsAsTheyWere
<1>15. QED
  BY <1>10, <1>11, <1>12, <1>13, <1>14 DEF EncInv

----------------------------------------------------------------------------
LEMMA EncInit == Init => EncInv
<1> SUFFICES ASSUME Init PROVE EncInv
  OBVIOUS
<1>1. /\ NRows \in Nat \ {0, 1} /\ NCols \in Nat \ {0} /\ MaxTables \in Nat /\ NRows <= MaxTables
      /\ Row \subseteq Table /\ 1 \in Row /\ 1 \in Col
  BY TableAssumption DEF Row, Table, Col
<1>2. EncTypeOK
  <2>1. PICK rows \in [1 .. NRows -> [Col -> Value]] :
          cells = [t \in Table |-> IF t <= NRows THEN rows[t] ELSE [c \in Col |-> Hook]]
    BY DEF Init
  <2>2. cells \in [Table -> [Col -> Value]]
    <3>1. ASSUME NEW t \in Table
          PROVE  (IF t <= NRows THEN rows[t] ELSE [c \in Col |-> Hook]) \in [Col -> Value]
      <4>1. CASE t <= NRows
        BY <1>1, <4>1 DEF Table
      <4>2. CASE ~ (t <= NRows)
        BY <4>2 DEF Value
      <4>3. QED
        BY <4>1, <4>2
    <3>2. QED
      BY <2>1, <3>1
  <2>3. refcount \in [Table -> Nat]
    BY HoldersAre DEF Init
  <2>4. before \in [Row -> [Col -> Value]]
    BY <1>1, <2>2 DEF Init
  <2>5. /\ slots \in [Row -> 0 .. allocated] /\ var \in 0 .. allocated
        /\ storage \in (0 .. allocated) \ immutable
        /\ pin \in [Row -> 0 .. allocated]
    BY <1>1 DEF Init, None
  <2>6. pointer \in [Row -> [table : 1 .. allocated, version : Nat]]
    BY <1>1 DEF Init, Row
  <2>7. allocated \in NRows .. MaxTables /\ immutable \subseteq 1 .. NRows
        /\ \A t \in immutable : refcount[t] = 0
    BY <1>1 DEF Init, Row
  <2>8. version \in [Table -> Nat] /\ out \in Seq(Value \cup {Wild})
    BY DEF Init
  <2>9. phase \in Phases /\ failed \in BOOLEAN /\ userCode \in BOOLEAN /\ row \in Row /\ col \in Col
    BY <1>1 DEF Init, Phases
  <2>10. QED
    BY <2>2, <2>3, <2>4, <2>5, <2>6, <2>7, <2>8, <2>9 DEF EncTypeOK
<1>3. HoldersCounted
  <2>1. None \notin immutable
    BY DEF Init, None
  <2>2. QED
    BY <2>1 DEF Init, HoldersCounted
<1>4. GatherInv /\ PinsGuard
  BY <1>1 DEF Init, GatherInv, PinsGuard, None, Row
<1>5. FrameInv /\ RowsAsTheyWere
  BY DEF Init, FrameInv, RowsAsTheyWere
<1>6. QED
  BY <1>2, <1>3, <1>4, <1>5 DEF EncInv

(* The encoder by itself, and with user code.                              *)
LEMMA EncNext == EncInv /\ [Next]_vars => EncInv'
<1> SUFFICES ASSUME EncInv, [Next]_vars PROVE EncInv'
  OBVIOUS
<1>1. CASE UserStep
  <2>1. ASSUME NEW t \in Table, UserTakes(t) PROVE EncInv'
    BY <2>1, UserTakesKeeps
  <2>2. ASSUME NEW r \in Row, UserUnsets(r) \/ UserAssigns(r) PROVE EncInv'
    BY <2>2, UserUnsetsKeeps, UserAssignsKeeps
  <2>3. QED
    BY <1>1, <2>1, <2>2, UserDropsKeeps, UserWrapsKeeps, UserWritesStorageKeeps DEF UserStep
<1>2. CASE EncoderStep
  BY <1>2, TryTableKeeps, GatherRowKeeps, OutOfMemoryKeeps, TypedColumnKeeps,
     MixedCellKeeps, ReleasePinKeeps DEF EncoderStep
<1>3. CASE UNCHANGED vars
  <2>1. UNCHANGED <<heapVars, userVars, encVars, userCode>>
    BY <1>3 DEF vars, heapVars, userVars, encVars
  <2>2. EncTypeOK'
    BY <2>1 DEF EncInv, EncTypeOK, heapVars, userVars, encVars
  <2>3. HoldersCounted'
    BY <2>1 DEF EncInv, HoldersCounted, Holders, heapVars, userVars, encVars
  <2>4. PinsGuard' /\ GatherInv' /\ FrameInv' /\ RowsAsTheyWere'
    BY <2>1 DEF EncInv, PinsGuard, GatherInv, Gathered, FrameInv, RowsAsTheyWere, heapVars,
       userVars, encVars
  <2>5. QED
    BY <2>2, <2>3, <2>4 DEF EncInv
<1>4. QED
  BY <1>1, <1>2, <1>3, UserReturnsKeeps DEF Next

----------------------------------------------------------------------------
(* The decoder.                                                            *)

DecTypeOK ==
  /\ decTag \in {"table", "rowset"}
  /\ interned \subseteq Col
  /\ decPhase \in {"none", "header", "keys", "fill", "build", "scatter", "rows", "failed",
                   "done"}
  /\ decRow \in Row /\ decCol \in Col
  /\ colbuf \in [Row -> Dec!Slot]
  /\ built \in 0 .. NRows
  /\ bucket \in [Row -> [Col -> Dec!Slot]]
  /\ keyRefs \in [Col -> Int]
  /\ releases \in [Dec!Cell -> Nat]
  /\ value = [x \in Dec!Cell |-> value[x]]

(* The cells of a table come column by column, those of a row set row by   *)
(* row.                                                                    *)
CellsBefore == {x \in Dec!Cell : x[2] < decCol \/ (x[2] = decCol /\ x[1] < decRow)}
CellsUpTo   == {x \in Dec!Cell : x[2] <= decCol}
RowsBefore  == {x \in Dec!Cell : x[1] < decRow \/ (x[1] = decRow /\ x[2] < decCol)}

(* What rows hold is what was read for them; keys are paid for n rows.     *)
InPlaceIf(r, c, read) == bucket[r][c] = IF read THEN <<r, c>> ELSE Dec!Undef
Columns(n)  == \A r \in Row, c \in Col : InPlaceIf(r, c, c < n)
BufferTo(n) == \A r \in Row : r < n => colbuf[r] = <<r, decCol>>
Shares(n)   == \A c \in Col : keyRefs[c] = IF c \in interned THEN 0 ELSE n

Unread ==
  decPhase \in {"none", "header", "keys"} =>
    /\ decRow = 1 /\ decCol = 1 /\ built = 0 /\ decoded = {}
    /\ Columns(1) /\ Shares(0)

Filling ==
  decPhase = "fill" =>
    /\ decTag = "table"
    /\ built = IF decCol = 1 THEN 0 ELSE NRows
    /\ decoded = CellsBefore
    /\ BufferTo(decRow) /\ Columns(decCol) /\ Shares(built)

ColumnRead ==
  decPhase \in {"build", "scatter"} =>
    /\ decTag = "table" /\ decRow = 1
    /\ built = IF decPhase = "build" THEN 0 ELSE NRows
    /\ decPhase = "build" => decCol = 1
    /\ decoded = CellsUpTo
    /\ BufferTo(NRows + 1) /\ Columns(decCol) /\ Shares(built)

RowByRow ==
  decPhase = "rows" =>
    /\ decTag = "rowset"
    /\ built = decRow - 1
    /\ decoded = RowsBefore
    /\ \A r \in Row, c \in Col : InPlaceIf(r, c, <<r, c>> \in decoded)
    /\ \A c \in Col : keyRefs[c] = IF c \in interned THEN 0
                                   ELSE built + (IF c < decCol THEN 1 ELSE 0)

DecInv ==
  /\ DecTypeOK /\ Unread /\ Filling /\ ColumnRead /\ RowByRow
  /\ CellsReleasedOnce /\ KeysBalance

----------------------------------------------------------------------------
LEMMA DecSets ==
  /\ Dec!Row = Row /\ Dec!Col = Col /\ Dec!Cell = Row \X Col
  /\ NRows \in Nat \ {0, 1} /\ NCols \in Nat \ {0}
BY TableAssumption DEF Dec!Row, Dec!Col, Dec!Cell, Row, Col

LEMMA CellParts ==
  ASSUME NEW x \in Dec!Cell
  PROVE  /\ x[1] \in Row /\ x[2] \in Col /\ x = <<x[1], x[2]>>
         /\ x[1] \in Nat /\ x[1] >= 1 /\ x[1] <= NRows
         /\ x[2] \in Nat /\ x[2] >= 1 /\ x[2] <= NCols
<1>1. x \in Row \X Col
  BY DecSets
<1>2. x[1] \in Row /\ x[2] \in Col /\ x = <<x[1], x[2]>>
  BY <1>1
<1>3. QED
  BY <1>2, DecSets DEF Row, Col

LEMMA CellSlots ==
  ASSUME NEW r \in Row, NEW c \in Col
  PROVE  /\ <<r, c>> \in Dec!Cell /\ <<r, c>> \in Dec!Slot
         /\ <<r, c>>[1] = r /\ <<r, c>>[2] = c
         /\ <<r, c>> # Dec!Undef /\ <<r, c>> # Dec!Garbage
<1>1. <<r, c>> \in Dec!Cell
  BY DecSets
<1>2. r # 0 /\ r # -1
  BY DecSets DEF Row
<1>3. <<r, c>> # <<0, 0>> /\ <<r, c>> # <<-1, -1>>
  BY <1>2
<1>4. QED
  BY <1>1, <1>3 DEF Dec!Slot, Dec!Undef, Dec!Garbage

LEMMA NotCells ==
  /\ Dec!Undef \in Dec!Slot /\ Dec!Garbage \in Dec!Slot
  /\ Dec!Undef \notin Dec!Cell /\ Dec!Undef # Dec!Garbage
<1>1. Dec!Undef \in Dec!Slot /\ Dec!Garbage \in Dec!Slot
  BY DEF Dec!Slot
<1>2. ASSUME Dec!Undef \in Dec!Cell PROVE FALSE
  <2>1. Dec!Undef[1] \in Row
    BY <1>2, CellParts
  <2>2. Dec!Undef[1] = 0
    BY DEF Dec!Undef
  <2>3. QED
    BY <2>1, <2>2, DecSets DEF Row
<1>3. Dec!Undef # Dec!Garbage
  BY DEF Dec!Undef, Dec!Garbage
<1>4. QED
  BY <1>1, <1>2, <1>3

LEMMA DecCardinality == ASSUME NEW S PROVE Dec!Cardinality(S) = Cardinality(S)
BY DEF Dec!Cardinality, Cardinality

(* How often a cell is among the slots of a column buffer of which the     *)
(* first k - 1 are filled.                                                 *)
LEMMA BufferCount ==
  ASSUME NEW buf, NEW c \in Col, NEW k,
         \A r \in Row : buf[r] = IF r < k THEN <<r, c>> ELSE Dec!Undef
  PROVE  \A x \in Dec!Cell :
           Dec!InBuffer(buf)[x] = IF x[2] = c /\ x[1] < k THEN 1 ELSE 0
<1> SUFFICES ASSUME NEW x \in Dec!Cell
             PROVE  Dec!InBuffer(buf)[x] = IF x[2] = c /\ x[1] < k THEN 1 ELSE 0
  OBVIOUS
<1> DEFINE S == {r \in Row : buf[r] = x}
<1>1. Dec!InBuffer(buf)[x] = Cardinality(S)
  <2>1. Dec!InBuffer(buf) = [y \in Dec!Cell |-> Cardinality({r \in Row : buf[r] = y})]
    BY DecCardinality DEF Dec!InBuffer, Dec!Row, Row
  <2>2. QED
    BY <2>1
<1>2. x[1] \in Row /\ x[2] \in Col /\ x = <<x[1], x[2]>>
  BY CellParts
<1>3. ASSUME NEW r \in Row PROVE buf[r] = x <=> (r < k /\ <<r, c>> = x)
  BY NotCells
<1>4. CASE x[2] = c /\ x[1] < k
  <2>1. S = {x[1]}
    <3>1. \A r \in Row : <<r, c>> = x => r = x[1]
      BY <1>2
    <3>2. <<x[1], c>> = x
      BY <1>2, <1>4
    <3>3. QED
      BY <1>2, <1>4, <1>3, <3>1, <3>2
  <2>2. Cardinality({x[1]}) = 1
    BY FS_Singleton
  <2>3. QED
    BY <1>1, <1>4, <2>1, <2>2
<1>5. CASE ~ (x[2] = c /\ x[1] < k)
  <2>1. ASSUME NEW r \in Row, r < k, <<r, c>> = x PROVE FALSE
    <3>1. x[1] = r /\ x[2] = c
      BY <2>1
    <3>2. QED
      BY <1>5, <2>1, <3>1
  <2>2. S = {}
    BY <1>3, <2>1
  <2>3. QED
    BY <1>1, <1>5, <2>2, FS_EmptySet
<1>6. QED
  BY <1>4, <1>5

(* And in the first n rows.                                                *)
LEMMA RowsCount ==
  ASSUME NEW n \in 0 .. NRows,
         \A r \in Row, c \in Col : bucket[r][c] \in {<<r, c>>, Dec!Undef}
  PROVE  \A x \in Dec!Cell :
           Dec!InRows(n)[x] = IF x[1] <= n /\ bucket[x[1]][x[2]] = x THEN 1 ELSE 0
<1> SUFFICES ASSUME NEW x \in Dec!Cell
             PROVE  Dec!InRows(n)[x] = IF x[1] <= n /\ bucket[x[1]][x[2]] = x THEN 1 ELSE 0
  OBVIOUS
<1> DEFINE S == {p \in (1 .. n) \X Col : bucket[p[1]][p[2]] = x}
<1>1. Dec!InRows(n)[x] = Cardinality(S)
  <2>1. Dec!InRows(n) = [y \in Dec!Cell |->
                          Cardinality({p \in (1 .. n) \X Col : bucket[p[1]][p[2]] = y})]
    BY DecCardinality DEF Dec!InRows, Dec!Col, Col
  <2>2. QED
    BY <2>1
<1>2. /\ x[1] \in Row /\ x[2] \in Col /\ x = <<x[1], x[2]>>
      /\ x[1] \in Nat /\ x[1] >= 1
  BY CellParts
<1>3. ASSUME NEW p \in S
      PROVE  p = x /\ x[1] <= n /\ bucket[x[1]][x[2]] = x
  <2>1. p[1] \in 1 .. n /\ p[2] \in Col /\ p = <<p[1], p[2]>> /\ bucket[p[1]][p[2]] = x
    BY <1>3
  <2>2. p[1] \in Row
    BY <2>1, DecSets DEF Row
  <2>3. bucket[p[1]][p[2]] \in {p, Dec!Undef}
    BY <2>1, <2>2
  <2>4. p = x
    BY <2>1, <2>3, NotCells
  <2>5. QED
    BY <2>1, <2>4
<1>4. CASE x[1] <= n /\ bucket[x[1]][x[2]] = x
  <2>1. x \in (1 .. n) \X Col
    BY <1>2, <1>4
  <2>2. S = {x}
    BY <1>3, <1>4, <2>1
  <2>3. Cardinality({x}) = 1
    BY FS_Singleton
  <2>4. QED
    BY <1>1, <1>4, <2>2, <2>3
<1>5. CASE ~ (x[1] <= n /\ bucket[x[1]][x[2]] = x)
  <2>1. S = {}
    BY <1>3, <1>5
  <2>2. QED
    BY <1>1, <1>5, <2>1, FS_EmptySet
<1>6. QED
  BY <1>4, <1>5

(* And in the first k - 1 columns of a row under way.                      *)
LEMMA RowCount ==
  ASSUME NEW r \in Row, NEW k \in Col,
         \A c \in Col : c < k => bucket[r][c] = <<r, c>>
  PROVE  \A x \in Dec!Cell :
           Cardinality({c \in 1 .. k - 1 : bucket[r][c] = x}) =
             IF x[1] = r /\ x[2] < k THEN 1 ELSE 0
<1> SUFFICES ASSUME NEW x \in Dec!Cell
             PROVE  Cardinality({c \in 1 .. k - 1 : bucket[r][c] = x}) =
                      IF x[1] = r /\ x[2] < k THEN 1 ELSE 0
  OBVIOUS
<1> DEFINE S == {c \in 1 .. k - 1 : bucket[r][c] = x}
<1>1. /\ x[1] \in Row /\ x[2] \in Col /\ x = <<x[1], x[2]>>
      /\ x[2] \in Nat /\ x[2] >= 1
  BY CellParts
<1>2. \A c \in 1 .. k - 1 : c \in Col /\ c < k /\ bucket[r][c] = <<r, c>>
  BY DecSets DEF Col
<1>3. CASE x[1] = r /\ x[2] < k
  <2>1. x[2] \in 1 .. k - 1
    BY <1>1, <1>3, DecSets DEF Col
  <2>2. S = {x[2]}
    BY <1>1, <1>2, <1>3, <2>1
  <2>3. Cardinality({x[2]}) = 1
    BY FS_Singleton
  <2>4. QED
    BY <1>3, <2>2, <2>3
<1>4. CASE ~ (x[1] = r /\ x[2] < k)
  <2>1. S = {}
    BY <1>1, <1>2, <1>4
  <2>2. QED
    BY <1>4, <2>1, FS_EmptySet
<1>5. QED
  BY <1>3, <1>4

(* The same of rows that are filled up to a column.                        *)
LEMMA RowsOfColumns ==
  ASSUME NEW n \in 0 .. NRows, NEW k \in Col, Columns(k), k = 1 \/ n = NRows
  PROVE  \A x \in Dec!Cell : Dec!InRows(n)[x] = IF x[2] < k THEN 1 ELSE 0
<1> SUFFICES ASSUME NEW x \in Dec!Cell
             PROVE  Dec!InRows(n)[x] = IF x[2] < k THEN 1 ELSE 0
  OBVIOUS
<1>1. \A r \in Row, c \in Col : bucket[r][c] = IF c < k THEN <<r, c>> ELSE Dec!Undef
  BY DEF Columns, InPlaceIf
<1>2. Dec!InRows(n)[x] = IF x[1] <= n /\ bucket[x[1]][x[2]] = x THEN 1 ELSE 0
  BY <1>1, RowsCount
<1>3. x[1] \in Row /\ x[2] \in Col /\ x[1] <= NRows /\ x[2] >= 1 /\ x = <<x[1], x[2]>>
  BY CellParts
<1>4. bucket[x[1]][x[2]] = IF x[2] < k THEN x ELSE Dec!Undef
  BY <1>1, <1>3
<1>5. bucket[x[1]][x[2]] = x <=> x[2] < k
  BY <1>4, NotCells
<1>6. x[2] < k => k # 1 /\ x[1] <= n
  BY CellParts, DecSets DEF Col
<1>7. QED
  BY <1>2, <1>5, <1>6

(* However decoding fails: what was decoded is released once, the keys are *)
(* back where they were.                                                   *)
LEMMA FailedKeeps ==
  ASSUME DecInv, decPhase' = "failed", wild' = FALSE,
         UNCHANGED <<decTag, interned, decRow, decCol, colbuf, built, bucket, decoded, value>>,
         releases' = [x \in Dec!Cell |-> IF x \in decoded THEN 1 ELSE 0],
         keyRefs' = [c \in Dec!Col |-> 0]
  PROVE  DecInv'
<1>1. DecTypeOK'
  <2>1. releases' \in [Dec!Cell -> Nat] /\ keyRefs' \in [Col -> Int]
    BY DecSets
  <2>2. QED
    BY <2>1 DEF DecInv, DecTypeOK
<1>2. Unread' /\ Filling' /\ ColumnRead' /\ RowByRow'
  BY DEF Unread, Filling, ColumnRead, RowByRow
<1>3. CellsReleasedOnce'
  BY DEF CellsReleasedOnce, Dec!CellsReleasedOnce
<1>4. KeysBalance'
  BY DEF KeysBalance, Dec!KeysBalance
<1>5. QED
  BY <1>1, <1>2, <1>3, <1>4 DEF DecInv

(* As long as it has not, nothing is released.                             *)
LEMMA NothingReleased ==
  ASSUME DecInv, decPhase # "failed"
  PROVE  releases = Dec!Nowhere /\ wild = FALSE
<1>1. ~ wild /\ releases = Dec!Nowhere
  BY DEF DecInv, CellsReleasedOnce, Dec!CellsReleasedOnce
<1>2. QED
  BY <1>1

(* table_fail, with the cells in flight in the buffer.                     *)
LEMMA TableFailKeeps ==
  ASSUME DecInv, decPhase # "failed", NEW f, Dec!TableFail(f), wild' = FALSE,
         UNCHANGED <<decTag, interned, colbuf, decoded, value>>,
         built = IF decCol = 1 THEN 0 ELSE NRows, Columns(decCol), Shares(built),
         \A x \in Dec!Cell : f[x] = IF x \in decoded /\ ~ (x[2] < decCol) THEN 1 ELSE 0,
         \A x \in Dec!Cell : x[2] < decCol => x \in decoded
  PROVE  DecInv'
<1>1. /\ decPhase' = "failed"
      /\ releases' = [x \in Dec!Cell |-> releases[x] + Dec!Both(f, Dec!InRows(built))[x]]
      /\ keyRefs' = Dec!KeysOfRows(built, keyRefs)
      /\ UNCHANGED <<decRow, decCol, built, bucket>>
  BY DEF Dec!TableFail, Dec!Release
<1>2. built \in 0 .. NRows /\ decCol \in Col
  BY DEF DecInv, DecTypeOK
<1>3. \A x \in Dec!Cell : Dec!InRows(built)[x] = IF x[2] < decCol THEN 1 ELSE 0
  <2>1. decCol = 1 \/ built = NRows
    OBVIOUS
  <2>2. QED
    BY <1>2, <2>1, RowsOfColumns
<1>4. ASSUME NEW x \in Dec!Cell
      PROVE  releases[x] + Dec!Both(f, Dec!InRows(built))[x] = IF x \in decoded THEN 1 ELSE 0
  <2>1. releases[x] = 0
    BY NothingReleased DEF Dec!Nowhere
  <2>2. Dec!Both(f, Dec!InRows(built))[x] = f[x] + Dec!InRows(built)[x]
    BY DEF Dec!Both
  <2>3. f[x] + Dec!InRows(built)[x] = IF x \in decoded THEN 1 ELSE 0
    BY <1>3
  <2>4. QED
    BY <2>1, <2>2, <2>3
<1>5. releases' = [x \in Dec!Cell |-> IF x \in decoded THEN 1 ELSE 0]
  BY <1>1, <1>4
<1>6. keyRefs' = [c \in Dec!Col |-> 0]
  <2>1. \A c \in Col : keyRefs[c] = IF c \in interned THEN 0 ELSE built
    BY DEF Shares
  <2>2. \A c \in Col : (IF c \in interned THEN keyRefs[c] ELSE keyRefs[c] - built) = 0
    BY <1>2, <2>1
  <2>3. QED
    BY <1>1, <2>2, DecSets DEF Dec!KeysOfRows
<1>7. QED
  BY <1>1, <1>5, <1>6, FailedKeeps

(* What failed at a header or a key had decoded nothing.                   *)
LEMMA HeaderKeeps ==
  ASSUME DecInv, Dec!Header \/ Dec!Keys, UNCHANGED value
  PROVE  DecInv'
<1>1. /\ decPhase \in {"header", "keys"}
      /\ decPhase' \in {"keys", "fill", "rows", "failed"}
      /\ UNCHANGED <<decTag, interned, decRow, decCol, colbuf, built, bucket, keyRefs,
                     decoded, releases, wild>>
      /\ decPhase' = "fill" => decTag = "table"
      /\ decPhase' = "rows" => decTag # "table"
  BY DEF Dec!Header, Dec!Keys
<1>2. /\ decRow = 1 /\ decCol = 1 /\ built = 0 /\ decoded = {} /\ Columns(1) /\ Shares(0)
  BY <1>1 DEF DecInv, Unread
<1>3. releases = Dec!Nowhere /\ wild = FALSE
  BY <1>1, NothingReleased
<1>4. CASE decPhase' = "failed"
  <2>1. releases' = [x \in Dec!Cell |-> IF x \in decoded THEN 1 ELSE 0]
    BY <1>1, <1>2, <1>3 DEF Dec!Nowhere
  <2>2. keyRefs' = [c \in Dec!Col |-> 0]
    <3>1. keyRefs \in [Col -> Int] /\ \A c \in Col : keyRefs[c] = 0
      BY <1>2 DEF Shares, DecInv, DecTypeOK
    <3>2. QED
      BY <1>1, <3>1, DecSets
  <2>3. QED
    BY <1>1, <1>3, <1>4, <2>1, <2>2, FailedKeeps
<1>5. CASE decPhase' # "failed"
  <2>1. DecTypeOK'
    BY <1>1 DEF DecInv, DecTypeOK
  <2>2. Unread'
    BY <1>1, <1>2 DEF Unread, Columns, InPlaceIf, Shares
  <2>3. Filling'
    <3>1. CellsBefore = {}
      <4>1. \A x \in Dec!Cell : ~ (x[2] < 1 \/ (x[2] = 1 /\ x[1] < 1))
        BY CellParts
      <4>2. QED
        BY <1>2, <4>1 DEF CellsBefore
    <3>2. CellsBefore' = CellsBefore
      BY <1>1 DEF CellsBefore
    <3>3. BufferTo(1) /\ Columns(1)' /\ Shares(0)'
      BY <1>1, <1>2, RowsFinite DEF BufferTo, Columns, InPlaceIf, Shares, Row
    <3>4. BufferTo(1)'
      BY <1>1, <3>3 DEF BufferTo
    <3>5. QED
      BY <1>1, <1>2, <3>1, <3>2, <3>3, <3>4 DEF Filling
  <2>4. ColumnRead'
    BY <1>1 DEF ColumnRead
  <2>5. RowByRow'
    <3>1. RowsBefore = {}
      <4>1. \A x \in Dec!Cell : ~ (x[1] < 1 \/ (x[1] = 1 /\ x[2] < 1))
        BY CellParts
      <4>2. QED
        BY <1>2, <4>1 DEF RowsBefore
    <3>2. RowsBefore' = RowsBefore
      BY <1>1 DEF RowsBefore
    <3>3. \A c \in Col : ~ (c < 1)
      BY DecSets DEF Col
    <3>4. decTag' = "rowset" \/ decPhase' # "rows"
      BY <1>1 DEF DecInv, DecTypeOK
    <3>5. \A r \in Row, c \in Col : bucket'[r][c] = Dec!Undef
      BY <1>1, <1>2, <3>3 DEF Columns, InPlaceIf
    <3>6. \A c \in Col : keyRefs'[c] = 0
      BY <1>1, <1>2 DEF Shares
    <3>7. decRow' = 1 /\ decCol' = 1 /\ built' = 0 /\ decoded' = {}
      BY <1>1, <1>2
    <3>8. QED
      BY <3>1, <3>2, <3>3, <3>4, <3>5, <3>6, <3>7, <1>1 DEF RowByRow, InPlaceIf
  <2>6. CellsReleasedOnce'
    BY <1>1, <1>3, <1>5 DEF CellsReleasedOnce, Dec!CellsReleasedOnce, Dec!Nowhere
  <2>7. KeysBalance'
    BY <1>1, <1>5 DEF DecInv, KeysBalance, Dec!KeysBalance
  <2>8. QED
    BY <2>1, <2>2, <2>3, <2>4, <2>5, <2>6, <2>7 DEF DecInv
<1>6. QED
  BY <1>4, <1>5

LEMMA NoColumnKeeps ==
  ASSUME DecInv, Dec!NoColumn, UNCHANGED value
  PROVE  DecInv'
<1>1. /\ decPhase = "fill" /\ decRow = 1 /\ Dec!TableFail(Dec!Nowhere)
      /\ UNCHANGED <<decTag, interned, colbuf, decoded, wild>>
  BY DEF Dec!NoColumn
<1>2. /\ built = IF decCol = 1 THEN 0 ELSE NRows
      /\ decoded = CellsBefore /\ Columns(decCol) /\ Shares(built)
  BY <1>1 DEF DecInv, Filling
<1>3. ASSUME NEW x \in Dec!Cell
      PROVE  x \in decoded <=> x[2] < decCol
  BY <1>1, <1>2, CellParts DEF CellsBefore
<1>4. \A x \in Dec!Cell : Dec!Nowhere[x] = 0
  BY DEF Dec!Nowhere
<1>5. wild' = FALSE
  BY <1>1, NothingReleased
<1>6. QED
  BY <1>1, <1>2, <1>3, <1>4, <1>5, TableFailKeeps

LEMMA ColumnFailsKeeps ==
  ASSUME DecInv, Dec!ColumnFails, UNCHANGED value
  PROVE  DecInv'
<1>1. /\ decPhase = "fill"
      /\ wild' = (wild \/ \E r \in Dec!Row : Dec!BlankTail[r] = Dec!Garbage)
      /\ Dec!TableFail(Dec!InBuffer(Dec!BlankTail))
      /\ UNCHANGED <<decTag, interned, colbuf, decoded>>
  BY DEF Dec!ColumnFails
<1>2. /\ built = IF decCol = 1 THEN 0 ELSE NRows
      /\ decoded = CellsBefore /\ BufferTo(decRow) /\ Columns(decCol) /\ Shares(built)
  BY <1>1 DEF DecInv, Filling
<1>3. decCol \in Col /\ decRow \in Row
  BY DEF DecInv, DecTypeOK
<1>4. \A r \in Row : Dec!BlankTail[r] = IF r < decRow THEN <<r, decCol>> ELSE Dec!Undef
  BY <1>2, DecSets DEF BufferTo, Dec!BlankTail
<1>5. wild' = FALSE
  <2>1. ASSUME NEW r \in Row PROVE Dec!BlankTail[r] # Dec!Garbage
    <3>1. <<r, decCol>> # Dec!Garbage
      BY <1>3, CellSlots
    <3>2. QED
      BY <1>4, <3>1, NotCells
  <2>2. QED
    BY <1>1, <2>1, NothingReleased, DecSets
<1>6. \A x \in Dec!Cell : Dec!InBuffer(Dec!BlankTail)[x]
                            = IF x[2] = decCol /\ x[1] < decRow THEN 1 ELSE 0
  BY <1>3, <1>4, BufferCount
<1>7. ASSUME NEW x \in Dec!Cell
      PROVE  /\ x \in decoded /\ ~ (x[2] < decCol) <=> x[2] = decCol /\ x[1] < decRow
             /\ x[2] < decCol => x \in decoded
  BY <1>2, <1>3, CellParts, DecSets DEF CellsBefore, Row, Col
<1>8. QED
  BY <1>1, <1>2, <1>5, <1>6, <1>7, TableFailKeeps

(* Memory runs out when the first column is there: its cells are in the    *)
(* buffer and in no row.                                                   *)
LEMMA FirstColumn ==
  ASSUME DecInv, decPhase = "build"
  PROVE  /\ built = 0 /\ decCol = 1 /\ Columns(1) /\ Shares(0)
         /\ \A x \in Dec!Cell : Dec!InBuffer(colbuf)[x] = IF x \in decoded THEN 1 ELSE 0
         /\ \A x \in Dec!Cell : ~ (x[2] < 1)
<1>1. /\ built = 0 /\ decCol = 1 /\ decoded = CellsUpTo
      /\ BufferTo(NRows + 1) /\ Columns(decCol) /\ Shares(built)
  BY DEF DecInv, ColumnRead
<1>2. 1 \in Col /\ \A r \in Row : r < NRows + 1
  BY DecSets DEF Row, Col
<1>3. \A r \in Row : colbuf[r] = IF r < NRows + 1 THEN <<r, 1>> ELSE Dec!Undef
  BY <1>1, <1>2 DEF BufferTo
<1>4. \A x \in Dec!Cell : Dec!InBuffer(colbuf)[x] = IF x[2] = 1 /\ x[1] < NRows + 1 THEN 1 ELSE 0
  BY <1>2, <1>3, BufferCount
<1>5. ASSUME NEW x \in Dec!Cell
      PROVE  /\ x[2] = 1 /\ x[1] < NRows + 1 <=> x \in decoded
             /\ ~ (x[2] < 1)
  BY <1>1, CellParts, DecSets DEF CellsUpTo
<1>6. QED
  BY <1>1, <1>4, <1>5

LEMMA ListFailsKeeps ==
  ASSUME DecInv, Dec!ListFails, UNCHANGED value
  PROVE  DecInv'
<1>1. /\ decPhase = "build" /\ Dec!TableFail(Dec!InBuffer(colbuf))
      /\ UNCHANGED <<decTag, interned, colbuf, decoded, wild>>
  BY DEF Dec!ListFails
<1>2. wild' = FALSE
  BY <1>1, NothingReleased
<1>3. QED
  BY <1>1, <1>2, FirstColumn, TableFailKeeps

LEMMA BuildRowsKeeps ==
  ASSUME DecInv, NEW n \in 0 .. NRows, Dec!BuildRows(n), UNCHANGED value
  PROVE  DecInv'
<1>1. /\ decPhase = "build"
      /\ UNCHANGED <<decTag, interned, decRow, decCol, colbuf, bucket, decoded, wild, value>>
  BY DEF Dec!BuildRows
<1>2. /\ built = 0 /\ decCol = 1 /\ Columns(1)
      /\ \A c \in Col : keyRefs[c] = 0
      /\ \A x \in Dec!Cell : Dec!InBuffer(colbuf)[x] = IF x \in decoded THEN 1 ELSE 0
      /\ \A x \in Dec!Cell : ~ (x[2] < 1)
  BY <1>1, FirstColumn DEF Shares
<1>3. releases = Dec!Nowhere /\ wild' = FALSE
  BY <1>1, NothingReleased
<1>4. CASE n = NRows
  <2>1. /\ decPhase' = "scatter" /\ built' = NRows /\ keyRefs' = Dec!BumpKeys(NRows)
        /\ releases' = releases
    BY <1>4 DEF Dec!BuildRows
  <2>2. keyRefs' = [c \in Col |-> IF c \in interned THEN 0 ELSE NRows]
    BY <1>2, <2>1, DecSets DEF Dec!BumpKeys
  <2>3. DecTypeOK'
    <3>1. keyRefs' \in [Col -> Int] /\ built' \in 0 .. NRows
      BY <2>1, <2>2, DecSets
    <3>2. QED
      BY <1>1, <2>1, <3>1 DEF DecInv, DecTypeOK
  <2>4. Unread' /\ Filling' /\ RowByRow'
    BY <2>1 DEF Unread, Filling, RowByRow
  <2>5. ColumnRead'
    <3>1. /\ decTag = "table" /\ decRow = 1 /\ decoded = CellsUpTo
          /\ BufferTo(NRows + 1) /\ Columns(decCol)
      BY <1>1 DEF DecInv, ColumnRead
    <3>2. CellsUpTo' = CellsUpTo
      BY <1>1 DEF CellsUpTo
    <3>3. BufferTo(NRows + 1)' /\ Columns(decCol)'
      BY <1>1, <3>1 DEF BufferTo, Columns, InPlaceIf
    <3>4. Shares(built)'
      BY <1>1, <2>1, <2>2 DEF Shares
    <3>5. QED
      BY <1>1, <2>1, <3>1, <3>2, <3>3, <3>4 DEF ColumnRead
  <2>6. CellsReleasedOnce'
    BY <1>3, <2>1 DEF CellsReleasedOnce, Dec!CellsReleasedOnce, Dec!Nowhere
  <2>7. KeysBalance'
    BY <2>1, <2>2, DecSets DEF KeysBalance, Dec!KeysBalance
  <2>8. QED
    BY <2>3, <2>4, <2>5, <2>6, <2>7 DEF DecInv
<1>5. CASE n # NRows
  <2>1. /\ decPhase' = "failed" /\ built' = built
        /\ keyRefs' = Dec!KeysOfRows(n, Dec!BumpKeys(n))
        /\ releases' = [x \in Dec!Cell |-> releases[x]
                          + Dec!Both(Dec!InBuffer(colbuf), Dec!InRows(n))[x]]
    BY <1>5 DEF Dec!BuildRows, Dec!Release
  <2>2. \A x \in Dec!Cell : Dec!InRows(n)[x] = 0
    <3>1. 1 \in Col
      BY DecSets DEF Col
    <3>2. QED
      BY <1>2, <3>1, RowsOfColumns
  <2>3. releases' = [x \in Dec!Cell |-> IF x \in decoded THEN 1 ELSE 0]
    <3>1. ASSUME NEW x \in Dec!Cell
          PROVE  releases[x] + Dec!Both(Dec!InBuffer(colbuf), Dec!InRows(n))[x]
                   = IF x \in decoded THEN 1 ELSE 0
      <4>1. releases[x] = 0
        BY <1>3 DEF Dec!Nowhere
      <4>2. Dec!Both(Dec!InBuffer(colbuf), Dec!InRows(n))[x]
              = Dec!InBuffer(colbuf)[x] + Dec!InRows(n)[x]
        BY DEF Dec!Both
      <4>3. QED
        BY <1>2, <2>2, <4>1, <4>2
    <3>2. QED
      BY <2>1, <3>1
  <2>4. keyRefs' = [c \in Dec!Col |-> 0]
    <3>1. \A c \in Dec!Col : Dec!BumpKeys(n)[c] = IF c \in interned THEN 0 ELSE n
      BY <1>2, DecSets DEF Dec!BumpKeys
    <3>2. \A c \in Dec!Col : (IF c \in interned THEN Dec!BumpKeys(n)[c]
                              ELSE Dec!BumpKeys(n)[c] - n) = 0
      BY <3>1
    <3>3. QED
      BY <2>1, <3>2 DEF Dec!KeysOfRows
  <2>5. QED
    BY <1>1, <1>3, <2>1, <2>3, <2>4, FailedKeeps
<1>6. QED
  BY <1>4, <1>5

(* Where every cell is in its row and every key is paid for.               *)
LEMMA DoneKeeps ==
  ASSUME DecInv, decPhase' = "done", decPhase # "failed", DecTypeOK',
         UNCHANGED <<releases, wild>>,
         \A r \in Row, c \in Col : bucket'[r][c] = <<r, c>>,
         \A c \in Col : keyRefs'[c] = IF c \in interned' THEN 0 ELSE NRows
  PROVE  DecInv'
<1>1. Unread' /\ Filling' /\ ColumnRead' /\ RowByRow'
  BY DEF Unread, Filling, ColumnRead, RowByRow
<1>2. CellsReleasedOnce'
  <2>1. \A x \in Dec!Cell : bucket'[x[1]][x[2]] = x
    BY CellParts
  <2>2. releases' = Dec!Nowhere /\ wild' = FALSE
    BY NothingReleased
  <2>3. QED
    BY <2>1, <2>2 DEF CellsReleasedOnce, Dec!CellsReleasedOnce, Dec!Nowhere
<1>3. KeysBalance'
  BY DecSets DEF KeysBalance, Dec!KeysBalance
<1>4. QED
  BY <1>1, <1>2, <1>3 DEF DecInv

LEMMA ScatterKeeps ==
  ASSUME DecInv, Dec!Scatter, UNCHANGED value
  PROVE  DecInv'
<1>1. /\ decPhase = "scatter"
      /\ bucket' = [r \in Row |-> [bucket[r] EXCEPT ![decCol] = colbuf[r]]]
      /\ UNCHANGED <<decTag, interned, decRow, colbuf, built, keyRefs, decoded, releases, wild>>
  BY DecSets DEF Dec!Scatter
<1>2. /\ decTag = "table" /\ decRow = 1 /\ built = NRows /\ decoded = CellsUpTo
      /\ BufferTo(NRows + 1) /\ Columns(decCol) /\ Shares(built)
  BY <1>1 DEF DecInv, ColumnRead
<1>3. DecTypeOK
  BY DEF DecInv
<1>4. PICK k \in Col : k = decCol
  BY <1>3 DEF DecTypeOK
<1>5. k \in Nat /\ k >= 1 /\ k <= NCols
  BY DecSets DEF Col
<1>6. \A r \in Row : colbuf[r] = <<r, k>>
  BY <1>2, <1>4, DecSets DEF BufferTo, Row
<1>7. ASSUME NEW r \in Row, NEW c \in Col
      PROVE  bucket'[r][c] = IF c <= k THEN <<r, c>> ELSE Dec!Undef
  <2>1. bucket'[r] = [bucket[r] EXCEPT ![k] = <<r, k>>]
    BY <1>1, <1>4, <1>6
  <2>2. bucket[r] \in [Col -> Dec!Slot]
    BY <1>3 DEF DecTypeOK
  <2>3. bucket'[r][c] = IF c = k THEN <<r, k>> ELSE bucket[r][c]
    BY <2>1, <2>2
  <2>4. bucket[r][c] = IF c < k THEN <<r, c>> ELSE Dec!Undef
    BY <1>2, <1>4 DEF Columns, InPlaceIf
  <2>5. c < k \/ c = k <=> c <= k
    BY <1>5 DEF Col
  <2>6. CASE c = k
    BY <2>3, <2>5, <2>6
  <2>7. CASE c # k
    BY <2>3, <2>4, <2>5, <2>7
  <2>8. QED
    BY <2>6, <2>7
<1>8. bucket' \in [Row -> [Col -> Dec!Slot]]
  <2>1. ASSUME NEW r \in Row PROVE [bucket[r] EXCEPT ![decCol] = colbuf[r]] \in [Col -> Dec!Slot]
    BY <1>3 DEF DecTypeOK
  <2>2. QED
    BY <1>1, <2>1
<1>9. CASE k < NCols
  <2>1. decCol' = k + 1 /\ decPhase' = "fill"
    BY <1>4, <1>9 DEF Dec!Scatter
  <2>2. DecTypeOK'
    <3>1. k + 1 \in Col
      BY <1>5, <1>9, DecSets DEF Col
    <3>2. QED
      BY <1>1, <1>3, <1>8, <2>1, <3>1 DEF DecTypeOK
  <2>3. Unread' /\ ColumnRead' /\ RowByRow'
    BY <2>1 DEF Unread, ColumnRead, RowByRow
  <2>4. Filling'
    <3>1. decoded' = CellsBefore'
      <4>1. CellsBefore' = {x \in Dec!Cell : x[2] < k + 1 \/ (x[2] = k + 1 /\ x[1] < 1)}
        BY <1>1, <1>2, <2>1 DEF CellsBefore
      <4>2. decoded' = {x \in Dec!Cell : x[2] <= k}
        BY <1>1, <1>2, <1>4 DEF CellsUpTo
      <4>3. ASSUME NEW x \in Dec!Cell
            PROVE  x[2] <= k <=> x[2] < k + 1 \/ (x[2] = k + 1 /\ x[1] < 1)
        BY <1>5, CellParts
      <4>4. QED
        BY <4>1, <4>2, <4>3
    <3>2. BufferTo(decRow)'
      <4>1. \A r \in Row : ~ (r < 1)
        BY DecSets DEF Row
      <4>2. QED
        BY <1>1, <1>2, <4>1 DEF BufferTo
    <3>3. Columns(decCol)'
      <4>1. \A c \in Col : c <= k <=> c < k + 1
        BY <1>5 DEF Col
      <4>2. QED
        BY <1>7, <2>1, <4>1 DEF Columns, InPlaceIf
    <3>4. Shares(built)'
      BY <1>1, <1>2 DEF Shares
    <3>5. built' = IF decCol' = 1 THEN 0 ELSE NRows
      BY <1>1, <1>2, <1>5, <2>1
    <3>6. QED
      BY <1>1, <1>2, <3>1, <3>2, <3>3, <3>4, <3>5 DEF Filling
  <2>5. CellsReleasedOnce'
    BY <1>1, <2>1, NothingReleased DEF CellsReleasedOnce, Dec!CellsReleasedOnce, Dec!Nowhere
  <2>6. KeysBalance'
    BY <1>1, <2>1 DEF DecInv, KeysBalance, Dec!KeysBalance
  <2>7. QED
    BY <2>2, <2>3, <2>4, <2>5, <2>6 DEF DecInv
<1>10. CASE ~ (k < NCols)
  <2>1. decCol' = decCol /\ decPhase' = "done"
    BY <1>4, <1>10 DEF Dec!Scatter
  <2>2. DecTypeOK'
    BY <1>1, <1>3, <1>8, <2>1 DEF DecTypeOK
  <2>3. \A r \in Row, c \in Col : bucket'[r][c] = <<r, c>>
    <3>1. \A c \in Col : c <= k
      BY <1>5, <1>10, DecSets DEF Col
    <3>2. QED
      BY <1>7, <3>1
  <2>4. \A c \in Col : keyRefs'[c] = IF c \in interned' THEN 0 ELSE NRows
    BY <1>1, <1>2 DEF Shares
  <2>5. QED
    BY <1>1, <2>1, <2>2, <2>3, <2>4, DoneKeeps
<1>11. QED
  BY <1>9, <1>10

(* A cell more in the column.                                              *)
LEMMA FillCellKeeps ==
  ASSUME DecInv, Dec!FillCell, value' = [x \in Dec!Cell |-> value'[x]]
  PROVE  DecInv'
<1>1. /\ decPhase = "fill"
      /\ colbuf' = [colbuf EXCEPT ![decRow] = <<decRow, decCol>>]
      /\ decoded' = decoded \cup {<<decRow, decCol>>}
      /\ UNCHANGED <<decTag, interned, decCol, built, bucket, keyRefs, releases, wild>>
  BY DEF Dec!FillCell
<1>2. /\ decTag = "table" /\ built = IF decCol = 1 THEN 0 ELSE NRows
      /\ decoded = CellsBefore /\ BufferTo(decRow) /\ Columns(decCol) /\ Shares(built)
  BY <1>1 DEF DecInv, Filling
<1>3. DecTypeOK
  BY DEF DecInv
<1>4. PICK k \in Row : k = decRow
  BY <1>3 DEF DecTypeOK
<1>5. PICK d \in Col : d = decCol
  BY <1>3 DEF DecTypeOK
<1>6. /\ k \in Nat /\ k >= 1 /\ k <= NRows /\ d \in Nat /\ d >= 1 /\ d <= NCols
      /\ NRows \in Nat /\ NRows # 0
  BY DecSets DEF Row, Col
<1>7. colbuf' \in [Row -> Dec!Slot] /\ \A r \in Row : r < k + 1 => colbuf'[r] = <<r, d>>
  <2>1. <<k, d>> \in Dec!Slot
    BY CellSlots
  <2>2. colbuf \in [Row -> Dec!Slot] /\ colbuf' = [colbuf EXCEPT ![k] = <<k, d>>]
    BY <1>1, <1>3, <1>4, <1>5 DEF DecTypeOK
  <2>3. \A r \in Row : r < k => colbuf[r] = <<r, d>>
    BY <1>2, <1>4, <1>5 DEF BufferTo
  <2>4. \A r \in Row : r < k + 1 => r < k \/ r = k
    BY <1>6 DEF Row
  <2>5. QED
    BY <2>1, <2>2, <2>3, <2>4
<1>8. decoded' = {x \in Dec!Cell : x[2] < d \/ (x[2] = d /\ x[1] <= k)}
  <2>1. decoded = {x \in Dec!Cell : x[2] < d \/ (x[2] = d /\ x[1] < k)}
    BY <1>2, <1>4, <1>5 DEF CellsBefore
  <2>2. <<k, d>> \in Dec!Cell /\ <<k, d>>[1] = k /\ <<k, d>>[2] = d
    BY CellSlots
  <2>3. ASSUME NEW x \in Dec!Cell
        PROVE  /\ x[1] <= k <=> x[1] < k \/ x[1] = k
               /\ x = <<k, d>> <=> x[1] = k /\ x[2] = d
    <3>1. x = <<x[1], x[2]>> /\ x[1] \in Nat
      BY CellParts
    <3>2. x[1] <= k <=> x[1] < k \/ x[1] = k
      BY <1>6, <3>1
    <3>3. x = <<k, d>> <=> x[1] = k /\ x[2] = d
      BY <3>1
    <3>4. QED
      BY <3>2, <3>3
  <2>4. decoded' = decoded \cup {<<k, d>>}
    BY <1>1, <1>4, <1>5
  <2>5. QED
    BY <2>1, <2>2, <2>3, <2>4
<1>9. Columns(decCol)' /\ Shares(built)'
  BY <1>1, <1>2 DEF Columns, InPlaceIf, Shares
<1>10. releases' = Dec!Nowhere /\ wild' = FALSE
  BY <1>1, NothingReleased
<1>11. CASE k < NRows
  <2>1. decRow' = k + 1 /\ decPhase' = "fill"
    BY <1>1, <1>4, <1>11 DEF Dec!FillCell
  <2>2. DecTypeOK'
    <3>1. k + 1 \in Row
      BY <1>6, <1>11 DEF Row
    <3>2. QED
      BY <1>1, <1>3, <1>7, <2>1, <3>1 DEF DecTypeOK
  <2>3. Filling'
    <3>1. BufferTo(decRow)'
      BY <1>1, <1>5, <1>7, <2>1 DEF BufferTo
    <3>2. decoded' = CellsBefore'
      <4>1. CellsBefore' = {x \in Dec!Cell : x[2] < d \/ (x[2] = d /\ x[1] < k + 1)}
        BY <1>1, <1>5, <2>1 DEF CellsBefore
      <4>2. \A x \in Dec!Cell : x[1] <= k <=> x[1] < k + 1
        BY <1>6, CellParts
      <4>3. QED
        BY <1>8, <4>1, <4>2
    <3>3. QED
      BY <1>1, <1>2, <1>9, <3>1, <3>2 DEF Filling
  <2>4. Unread' /\ ColumnRead' /\ RowByRow'
    BY <2>1 DEF Unread, ColumnRead, RowByRow
  <2>5. CellsReleasedOnce'
    BY <1>10, <2>1 DEF CellsReleasedOnce, Dec!CellsReleasedOnce, Dec!Nowhere
  <2>6. KeysBalance'
    BY <1>1, <2>1 DEF DecInv, KeysBalance, Dec!KeysBalance
  <2>7. QED
    BY <2>2, <2>3, <2>4, <2>5, <2>6 DEF DecInv
<1>12. CASE ~ (k < NRows)
  <2>1. decRow' = 1 /\ decPhase' = IF built = 0 THEN "build" ELSE "scatter"
    BY <1>1, <1>4, <1>12 DEF Dec!FillCell
  <2>2. k = NRows /\ decPhase' \in {"build", "scatter"}
    BY <1>6, <1>12, <2>1
  <2>3. DecTypeOK'
    <3>1. 1 \in Row
      BY <1>6 DEF Row
    <3>2. QED
      BY <1>1, <1>3, <1>7, <2>1, <2>2, <3>1 DEF DecTypeOK
  <2>4. ColumnRead'
    <3>1. BufferTo(NRows + 1)'
      BY <1>1, <1>5, <1>7, <2>2 DEF BufferTo
    <3>2. decoded' = CellsUpTo'
      <4>1. CellsUpTo' = {x \in Dec!Cell : x[2] <= d}
        BY <1>1, <1>5 DEF CellsUpTo
      <4>2. \A x \in Dec!Cell : x[2] <= d <=> x[2] < d \/ (x[2] = d /\ x[1] <= k)
        BY <1>6, <2>2, CellParts
      <4>3. QED
        BY <1>8, <4>1, <4>2
    <3>3. built' = IF decPhase' = "build" THEN 0 ELSE NRows
      BY <1>1, <1>2, <1>6, <2>1
    <3>4. decPhase' = "build" => decCol' = 1
      BY <1>1, <1>2, <1>6, <2>1
    <3>5. QED
      BY <1>1, <1>2, <1>9, <2>1, <3>1, <3>2, <3>3, <3>4 DEF ColumnRead
  <2>5. Unread' /\ Filling' /\ RowByRow'
    BY <2>2 DEF Unread, Filling, RowByRow
  <2>6. CellsReleasedOnce'
    BY <1>10, <2>2 DEF CellsReleasedOnce, Dec!CellsReleasedOnce, Dec!Nowhere
  <2>7. KeysBalance'
    BY <1>1, <2>2 DEF DecInv, KeysBalance, Dec!KeysBalance
  <2>8. QED
    BY <2>3, <2>4, <2>5, <2>6, <2>7 DEF DecInv
<1>13. QED
  BY <1>11, <1>12

(* A row set fails with whole rows and part of one.                        *)
LEMMA RowsetFailsKeeps ==
  ASSUME DecInv, Dec!RowsetFails, UNCHANGED value
  PROVE  DecInv'
<1> DEFINE Part == [x \in Dec!Cell |-> Cardinality({c \in 1 .. decCol - 1 : bucket[decRow][c] = x})]
<1>1. /\ decPhase = "rows" /\ decPhase' = "failed"
      /\ releases' = [x \in Dec!Cell |-> releases[x] + Dec!Both(Dec!InRows(built), Part)[x]]
      /\ keyRefs' = [c \in Dec!Col |-> IF c \in interned THEN keyRefs[c]
                                       ELSE keyRefs[c] - built - (IF c < decCol THEN 1 ELSE 0)]
      /\ UNCHANGED <<decTag, interned, decRow, decCol, colbuf, built, bucket, decoded, wild>>
  BY DecCardinality DEF Dec!RowsetFails, Dec!Release
<1>2. /\ built = decRow - 1 /\ decoded = RowsBefore
      /\ \A r \in Row, c \in Col : InPlaceIf(r, c, <<r, c>> \in decoded)
      /\ \A c \in Col : keyRefs[c] = IF c \in interned THEN 0
                                     ELSE built + (IF c < decCol THEN 1 ELSE 0)
  BY <1>1 DEF DecInv, RowByRow
<1>3. decRow \in Row /\ decCol \in Col /\ built \in 0 .. NRows
  BY DEF DecInv, DecTypeOK
<1>4. \A x \in Dec!Cell : Dec!InRows(built)[x] = IF x[1] <= built /\ x \in decoded THEN 1 ELSE 0
  <2>1. \A r \in Row, c \in Col : bucket[r][c] \in {<<r, c>>, Dec!Undef}
    BY <1>2 DEF InPlaceIf
  <2>2. ASSUME NEW x \in Dec!Cell
        PROVE  bucket[x[1]][x[2]] = x <=> x \in decoded
    <3>1. bucket[x[1]][x[2]] = IF x \in decoded THEN x ELSE Dec!Undef
      BY <1>2, CellParts DEF InPlaceIf
    <3>2. QED
      BY <3>1, NotCells
  <2>3. QED
    BY <1>3, <2>1, <2>2, RowsCount
<1>5. \A x \in Dec!Cell : Part[x] = IF x[1] = decRow /\ x[2] < decCol THEN 1 ELSE 0
  <2>1. ASSUME NEW c \in Col, c < decCol PROVE bucket[decRow][c] = <<decRow, c>>
    <3>1. <<decRow, c>> \in Dec!Cell /\ <<decRow, c>>[1] = decRow /\ <<decRow, c>>[2] = c
      BY <1>3, CellSlots
    <3>2. <<decRow, c>> \in RowsBefore
      BY <2>1, <3>1 DEF RowsBefore
    <3>3. QED
      BY <1>2, <1>3, <3>2 DEF InPlaceIf
  <2>2. \A x \in Dec!Cell : Cardinality({c \in 1 .. decCol - 1 : bucket[decRow][c] = x}) =
                              IF x[1] = decRow /\ x[2] < decCol THEN 1 ELSE 0
    BY <1>3, <2>1, RowCount
  <2>3. QED
    BY <2>2
<1>6. ASSUME NEW x \in Dec!Cell
      PROVE  releases[x] + Dec!Both(Dec!InRows(built), Part)[x] = IF x \in decoded THEN 1 ELSE 0
  <2>1. releases[x] = 0
    BY <1>1, NothingReleased DEF Dec!Nowhere
  <2>2. Dec!Both(Dec!InRows(built), Part)[x] = Dec!InRows(built)[x] + Part[x]
    BY DEF Dec!Both
  <2>3. x \in decoded <=> x[1] < decRow \/ (x[1] = decRow /\ x[2] < decCol)
    BY <1>2 DEF RowsBefore
  <2>4. x[1] <= built <=> x[1] < decRow
    BY <1>2, <1>3, CellParts, DecSets DEF Row
  <2>5. x[1] < decRow => x[1] # decRow
    BY <1>3, CellParts, DecSets DEF Row
  <2> HIDE DEF Part
  <2>6. Dec!InRows(built)[x] + Part[x] = IF x \in decoded THEN 1 ELSE 0
    BY <1>4, <1>5, <2>3, <2>4, <2>5
  <2>7. QED
    BY <2>1, <2>2, <2>6
<1> HIDE DEF Part
<1>7. releases' = [x \in Dec!Cell |-> IF x \in decoded THEN 1 ELSE 0]
  BY <1>1, <1>6
<1>8. keyRefs' = [c \in Dec!Col |-> 0]
  <2>1. \A c \in Col : (IF c \in interned THEN keyRefs[c]
                        ELSE keyRefs[c] - built - (IF c < decCol THEN 1 ELSE 0)) = 0
    BY <1>2, <1>3, DecSets
  <2>2. QED
    BY <1>1, <2>1, DecSets
<1>9. wild' = FALSE
  BY <1>1, NothingReleased
<1>10. QED
  BY <1>1, <1>7, <1>8, <1>9, FailedKeeps

LEMMA RowsetCellKeeps ==
  ASSUME DecInv, Dec!RowsetCell, UNCHANGED value
  PROVE  DecInv'
<1>1. /\ decPhase = "rows"
      /\ decoded' = decoded \cup {<<decRow, decCol>>}
      /\ bucket' = [bucket EXCEPT ![decRow][decCol] = <<decRow, decCol>>]
      /\ keyRefs' = [c \in Dec!Col |-> IF c = decCol /\ c \notin interned THEN keyRefs[c] + 1
                                       ELSE keyRefs[c]]
      /\ UNCHANGED <<decTag, interned, colbuf, releases, wild>>
  BY DEF Dec!RowsetCell
<1>2. /\ decTag = "rowset" /\ built = decRow - 1 /\ decoded = RowsBefore
      /\ \A r \in Row, c \in Col : InPlaceIf(r, c, <<r, c>> \in decoded)
      /\ \A c \in Col : keyRefs[c] = IF c \in interned THEN 0
                                     ELSE built + (IF c < decCol THEN 1 ELSE 0)
  BY <1>1 DEF DecInv, RowByRow
<1>3. DecTypeOK
  BY DEF DecInv
<1>4. PICK k \in Row : k = decRow
  BY <1>3 DEF DecTypeOK
<1>5. PICK d \in Col : d = decCol
  BY <1>3 DEF DecTypeOK
<1>6. /\ k \in Nat /\ k >= 1 /\ k <= NRows /\ d \in Nat /\ d >= 1 /\ d <= NCols
      /\ NRows \in Nat /\ NRows # 0 /\ built = k - 1
  BY <1>2, <1>4, DecSets DEF Row, Col
<1>7. <<k, d>> \in Dec!Cell /\ <<k, d>> \in Dec!Slot /\ <<k, d>>[1] = k /\ <<k, d>>[2] = d
  BY CellSlots
<1>8. bucket' \in [Row -> [Col -> Dec!Slot]]
      /\ \A r \in Row, c \in Col : bucket'[r][c] = IF r = k /\ c = d THEN <<k, d>> ELSE bucket[r][c]
  BY <1>1, <1>3, <1>4, <1>5, <1>7 DEF DecTypeOK
<1>9. decoded' = decoded \cup {<<k, d>>}
  BY <1>1, <1>4, <1>5
<1>10. ASSUME NEW r \in Row, NEW c \in Col
       PROVE  InPlaceIf(r, c, <<r, c>> \in decoded)'
  <2>1. bucket[r][c] = IF <<r, c>> \in decoded THEN <<r, c>> ELSE Dec!Undef
    BY <1>2 DEF InPlaceIf
  <2>2. <<r, c>> = <<k, d>> <=> r = k /\ c = d
    OBVIOUS
  <2>3. CASE r = k /\ c = d
    BY <1>8, <1>9, <2>3 DEF InPlaceIf
  <2>4. CASE ~ (r = k /\ c = d)
    <3>1. bucket'[r][c] = bucket[r][c] /\ (<<r, c>> \in decoded' <=> <<r, c>> \in decoded)
      BY <1>8, <1>9, <2>2, <2>4
    <3>2. QED
      BY <2>1, <3>1 DEF InPlaceIf
  <2>5. QED
    BY <2>3, <2>4
<1>11. decoded' = {x \in Dec!Cell : x[1] < k \/ (x[1] = k /\ x[2] <= d)}
  <2>1. decoded = {x \in Dec!Cell : x[1] < k \/ (x[1] = k /\ x[2] < d)}
    BY <1>2, <1>4, <1>5 DEF RowsBefore
  <2>2. ASSUME NEW x \in Dec!Cell
        PROVE  /\ x[2] <= d <=> x[2] < d \/ x[2] = d
               /\ x = <<k, d>> <=> x[1] = k /\ x[2] = d
    <3>1. x = <<x[1], x[2]>> /\ x[2] \in Nat
      BY CellParts
    <3>2. x[2] <= d <=> x[2] < d \/ x[2] = d
      BY <1>6, <3>1
    <3>3. x = <<k, d>> <=> x[1] = k /\ x[2] = d
      BY <3>1
    <3>4. QED
      BY <3>2, <3>3
  <2>3. QED
    BY <1>7, <1>9, <2>1, <2>2
<1>12. ASSUME NEW c \in Col
       PROVE  keyRefs'[c] = IF c \in interned THEN 0 ELSE built + (IF c <= d THEN 1 ELSE 0)
  <2>1. keyRefs[c] = IF c \in interned THEN 0 ELSE built + (IF c < d THEN 1 ELSE 0)
    BY <1>2, <1>5
  <2>2. keyRefs'[c] = IF c = d /\ c \notin interned THEN keyRefs[c] + 1 ELSE keyRefs[c]
    BY <1>1, <1>5, DecSets
  <2>3. c \in Nat
    BY DEF Col
  <2>4. c <= d <=> c < d \/ c = d
    BY <1>6, <2>3
  <2>5. ~ (d < d)
    BY <1>6
  <2>6. QED
    BY <1>6, <2>1, <2>2, <2>4, <2>5
<1>13. keyRefs' \in [Col -> Int]
  BY <1>1, <1>3, DecSets DEF DecTypeOK
<1>14. releases' = Dec!Nowhere /\ wild' = FALSE
  BY <1>1, NothingReleased
<1>15. \A c \in Col : keyRefs'[c] >= 0
  BY <1>6, <1>12
<1>16. CASE d < NCols
  <2>1. decCol' = d + 1 /\ UNCHANGED <<decRow, built, decPhase>>
    BY <1>5, <1>16 DEF Dec!RowsetCell
  <2>2. DecTypeOK'
    <3>1. d + 1 \in Col
      BY <1>6, <1>16, DecSets DEF Col
    <3>2. QED
      BY <1>1, <1>3, <1>8, <1>13, <2>1, <3>1 DEF DecTypeOK
  <2>3. RowByRow'
    <3>1. decoded' = RowsBefore'
      <4>1. RowsBefore' = {x \in Dec!Cell : x[1] < k \/ (x[1] = k /\ x[2] < d + 1)}
        BY <1>4, <2>1 DEF RowsBefore
      <4>2. \A x \in Dec!Cell : x[2] <= d <=> x[2] < d + 1
        BY <1>6, CellParts
      <4>3. QED
        BY <1>11, <4>1, <4>2
    <3>2. ASSUME NEW c \in Col
          PROVE  keyRefs'[c] = IF c \in interned' THEN 0
                               ELSE built' + (IF c < decCol' THEN 1 ELSE 0)
      <4>1. c <= d <=> c < d + 1
        BY <1>6 DEF Col
      <4>2. QED
        BY <1>1, <1>12, <2>1, <4>1
    <3>3. QED
      BY <1>1, <1>2, <1>10, <2>1, <3>1, <3>2 DEF RowByRow
  <2>4. Unread' /\ Filling' /\ ColumnRead'
    BY <1>1, <2>1 DEF Unread, Filling, ColumnRead
  <2>5. CellsReleasedOnce'
    BY <1>1, <1>14, <2>1 DEF CellsReleasedOnce, Dec!CellsReleasedOnce, Dec!Nowhere
  <2>6. KeysBalance'
    BY <1>1, <1>15, <2>1, DecSets DEF KeysBalance, Dec!KeysBalance
  <2>7. QED
    BY <2>2, <2>3, <2>4, <2>5, <2>6 DEF DecInv
<1>17. CASE ~ (d < NCols)
  <2>1. d = NCols /\ built' = k /\ \A c \in Col : c <= d
    <3>1. d = NCols
      BY <1>6, <1>17, DecSets
    <3>2. built' = built + 1
      BY <1>5, <1>17 DEF Dec!RowsetCell
    <3>3. QED
      BY <1>6, <3>1, <3>2, DecSets DEF Col
  <2>2. CASE k < NRows
    <3>1. decRow' = k + 1 /\ decCol' = 1 /\ decPhase' = "rows"
      BY <1>1, <1>4, <1>5, <1>17, <2>2 DEF Dec!RowsetCell
    <3>2. DecTypeOK'
      <4>1. k + 1 \in Row /\ 1 \in Col /\ k \in 0 .. NRows
        BY <1>6, <2>2, DecSets DEF Row, Col
      <4>2. QED
        BY <1>1, <1>3, <1>8, <1>13, <2>1, <3>1, <4>1 DEF DecTypeOK
    <3>3. RowByRow'
      <4>1. decoded' = RowsBefore'
        <5>1. RowsBefore' = {x \in Dec!Cell : x[1] < k + 1 \/ (x[1] = k + 1 /\ x[2] < 1)}
          BY <3>1 DEF RowsBefore
        <5>2. ASSUME NEW x \in Dec!Cell
              PROVE  x[1] < k \/ (x[1] = k /\ x[2] <= d)
                       <=> x[1] < k + 1 \/ (x[1] = k + 1 /\ x[2] < 1)
          BY <1>6, <2>1, CellParts
        <5>3. QED
          BY <1>11, <5>1, <5>2
      <4>2. ASSUME NEW c \in Col
            PROVE  keyRefs'[c] = IF c \in interned' THEN 0
                                 ELSE built' + (IF c < decCol' THEN 1 ELSE 0)
        <5>1. c <= d /\ ~ (c < 1)
          BY <2>1 DEF Col
        <5>2. QED
          BY <1>1, <1>6, <1>12, <2>1, <3>1, <5>1
      <4>3. built' = decRow' - 1
        BY <1>6, <2>1, <3>1
      <4>4. QED
        BY <1>1, <1>2, <1>10, <4>1, <4>2, <4>3 DEF RowByRow
    <3>4. Unread' /\ Filling' /\ ColumnRead'
      BY <3>1 DEF Unread, Filling, ColumnRead
    <3>5. CellsReleasedOnce'
      BY <1>14, <3>1 DEF CellsReleasedOnce, Dec!CellsReleasedOnce, Dec!Nowhere
    <3>6. KeysBalance'
      BY <1>15, <3>1, DecSets DEF KeysBalance, Dec!KeysBalance
    <3>7. QED
      BY <3>2, <3>3, <3>4, <3>5, <3>6 DEF DecInv
  <2>3. CASE ~ (k < NRows)
    <3>1. k = NRows
      BY <1>6, <2>3
    <3>2. decPhase' = "done" /\ UNCHANGED <<decRow, decCol>>
      BY <1>4, <1>5, <1>17, <2>3 DEF Dec!RowsetCell
    <3>3. DecTypeOK'
      <4>1. k \in 0 .. NRows
        BY <1>6
      <4>2. QED
        BY <1>1, <1>3, <1>8, <1>13, <2>1, <3>2, <4>1 DEF DecTypeOK
    <3>4. ASSUME NEW r \in Row, NEW c \in Col
          PROVE  bucket'[r][c] = <<r, c>>
      <4>1. <<r, c>> \in Dec!Cell /\ <<r, c>>[1] = r /\ <<r, c>>[2] = c
        BY CellSlots
      <4>2. r < k \/ (r = k /\ c <= d)
        BY <1>6, <2>1, <3>1 DEF Row
      <4>3. <<r, c>> \in decoded'
        BY <1>11, <4>1, <4>2
      <4>4. QED
        BY <1>10, <4>3 DEF InPlaceIf
    <3>5. ASSUME NEW c \in Col
          PROVE  keyRefs'[c] = IF c \in interned' THEN 0 ELSE NRows
      <4>1. c <= d /\ built + 1 = NRows
        BY <1>6, <2>1, <3>1
      <4>2. QED
        BY <1>1, <1>12, <4>1
    <3>6. QED
      BY <1>1, <3>2, <3>3, <3>4, <3>5, DoneKeeps
  <2>4. QED
    BY <2>2, <2>3
<1>18. QED
  BY <1>16, <1>17

LEMMA DecNext == DecInv /\ DecoderStep => DecInv'
<1> SUFFICES ASSUME DecInv, DecoderStep PROVE DecInv'
  OBVIOUS
<1>1. CASE ReadCell
  <2>1. value = [x \in Dec!Cell |-> value[x]]
    BY DEF DecInv, DecTypeOK
  <2>2. value' = [x \in Dec!Cell |-> value'[x]]
    BY <1>1, <2>1 DEF ReadCell
  <2>3. QED
    BY <1>1, <2>2, FillCellKeeps DEF ReadCell
<1>2. CASE ~ ReadCell
  <2>1. UNCHANGED value
    BY <1>2 DEF DecoderStep
  <2>2. ASSUME NEW n \in 0 .. NRows, Dec!BuildRows(n) PROVE DecInv'
    BY <2>1, <2>2, BuildRowsKeeps
  <2>3. QED
    BY <1>2, <2>1, <2>2, HeaderKeeps, NoColumnKeeps, ColumnFailsKeeps, ListFailsKeeps, ScatterKeeps,
       RowsetCellKeeps, RowsetFailsKeeps DEF DecoderStep
<1>3. QED
  BY <1>1, <1>2

(* A decoder that has not begun to read.                                   *)
LEMMA DecInit == CodecInit => DecInv
<1> SUFFICES ASSUME CodecInit PROVE DecInv
  OBVIOUS
<1>1. /\ decTag = "table" /\ interned = {} /\ decPhase = "none" /\ decRow = 1 /\ decCol = 1
      /\ colbuf = [r \in Row |-> Dec!Garbage]
      /\ built = 0 /\ bucket = [r \in Row |-> Dec!NoRow] /\ keyRefs = [c \in Col |-> 0]
      /\ decoded = {} /\ releases = Dec!Nowhere /\ wild = FALSE /\ value = NoValues
  BY DEF CodecInit
<1>2. bucket = [r \in Row |-> [c \in Col |-> Dec!Undef]]
  BY <1>1, DecSets DEF Dec!NoRow
<1>3. value = [x \in Dec!Cell |-> value[x]]
  BY <1>1, DecSets DEF NoValues
<1>4. DecTypeOK
  <2>1. 1 \in Row /\ 1 \in Col /\ 0 \in 0 .. NRows
    BY DecSets DEF Row, Col
  <2>2. colbuf \in [Row -> Dec!Slot] /\ bucket \in [Row -> [Col -> Dec!Slot]]
    BY <1>1, <1>2, NotCells
  <2>3. keyRefs \in [Col -> Int] /\ releases \in [Dec!Cell -> Nat]
    BY <1>1 DEF Dec!Nowhere
  <2>4. QED
    BY <1>1, <1>3, <2>1, <2>2, <2>3 DEF DecTypeOK
<1>5. Unread
  <2>1. \A c \in Col : ~ (c < 1)
    BY DEF Col
  <2>2. Columns(1) /\ Shares(0)
    BY <1>1, <1>2, <2>1 DEF Columns, InPlaceIf, Shares
  <2>3. QED
    BY <1>1, <2>2 DEF Unread
<1>6. Filling /\ ColumnRead /\ RowByRow
  BY <1>1 DEF Filling, ColumnRead, RowByRow
<1>7. CellsReleasedOnce
  BY <1>1 DEF CellsReleasedOnce, Dec!CellsReleasedOnce
<1>8. KeysBalance
  BY <1>1, DecSets DEF KeysBalance, Dec!KeysBalance
<1>9. QED
  BY <1>4, <1>5, <1>6, <1>7, <1>8 DEF DecInv

(* A frame arrives: nothing but what keys are interned there is new.       *)
LEMMA DecBegins ==
  ASSUME DecInv, decPhase = "none", decPhase' = "header", interned' \in SUBSET Col,
         decTag' \in {"table", "rowset"},
         UNCHANGED <<decRow, decCol, colbuf, built, bucket, keyRefs, decoded, releases, wild, value>>
  PROVE  DecInv'
<1>1. Unread
  BY DEF DecInv
<1>2. \A c \in Col : keyRefs[c] = 0
  BY <1>1 DEF Unread, Shares
<1>3. Unread'
  <2>1. Columns(1)' /\ Shares(0)'
    BY <1>1, <1>2 DEF Unread, Columns, InPlaceIf, Shares
  <2>2. QED
    BY <1>1, <2>1 DEF Unread
<1>4. DecTypeOK' /\ Filling' /\ ColumnRead' /\ RowByRow'
  BY DEF DecInv, DecTypeOK, Filling, ColumnRead, RowByRow
<1>5. CellsReleasedOnce'
  BY NothingReleased DEF CellsReleasedOnce, Dec!CellsReleasedOnce, Dec!Nowhere
<1>6. KeysBalance'
  BY <1>2, DecSets DEF KeysBalance, Dec!KeysBalance
<1>7. QED
  BY <1>3, <1>4, <1>5, <1>6 DEF DecInv

LEMMA DecIdle ==
  ASSUME DecInv, UNCHANGED decVars
  PROVE  DecInv'
<1> USE DEF decVars
<1>1. DecTypeOK'
  BY DEF DecInv, DecTypeOK
<1>2. Unread'
  BY DEF DecInv, Unread, Columns, InPlaceIf, Shares
<1>3. Filling'
  BY DEF DecInv, Filling, CellsBefore, BufferTo, Columns, InPlaceIf, Shares
<1>4. ColumnRead'
  BY DEF DecInv, ColumnRead, CellsUpTo, BufferTo, Columns, InPlaceIf, Shares
<1>5. RowByRow'
  BY DEF DecInv, RowByRow, RowsBefore, InPlaceIf
<1>6. CellsReleasedOnce'
  BY DEF DecInv, CellsReleasedOnce, Dec!CellsReleasedOnce, Dec!Nowhere
<1>7. KeysBalance'
  BY DEF DecInv, KeysBalance, Dec!KeysBalance
<1>8. QED
  BY <1>1, <1>2, <1>3, <1>4, <1>5, <1>6, <1>7 DEF DecInv

----------------------------------------------------------------------------
(* Both.  A frame of this encoder that is whole is read cell by cell in    *)
(* the order it was written in.                                            *)

Handover ==
  /\ decPhase = "none" => decTag = "table"
  /\ decPhase # "none" => phase = "declined" /\ ~ userCode
  /\ decTag = "rowset" => out = <<>>

ReadInOrder ==
  /\ decoded \subseteq Dec!Cell
  /\ decPhase = "fill" => Cardinality(decoded) + 1 = Place(decRow, decCol)
  /\ decPhase \in {"build", "scatter"} => Cardinality(decoded) = decCol * NRows
  /\ decPhase = "done" /\ decTag = "table" => decoded = Dec!Cell

ReadAsWritten == Ours => \A x \in decoded : value[x] = before[x[1]][x[2]]

CodecInv == EncInv /\ DecInv /\ Handover /\ ReadInOrder /\ ReadAsWritten

LEMMA DecodedFinite ==
  ASSUME decoded \subseteq Dec!Cell
  PROVE  IsFiniteSet(decoded) /\ Cardinality(decoded) \in Nat
<1>1. IsFiniteSet(Row) /\ IsFiniteSet(Col)
  BY DecSets, FS_Interval DEF Row, Col
<1>2. IsFiniteSet(Row \X Col)
  BY <1>1, FS_Product
<1>3. QED
  BY <1>2, DecSets, FS_Subset, FS_CardinalityType

LEMMA FrameNotEmpty == Ours => out # <<>>
<1>1. NRows * NCols # 0
  <2>1. NRows \in Nat /\ NRows # 0 /\ NCols \in Nat /\ NCols # 0
    BY DecSets
  <2>2. QED
    BY <2>1
<1>2. Len(<<>>) = 0
  OBVIOUS
<1>3. QED
  BY <1>1, <1>2 DEF Ours

(* The cell read next has its place in the frame.                          *)
LEMMA ReadCellInOrder ==
  ASSUME CodecInv, ReadCell, UNCHANGED vars
  PROVE  ReadInOrder' /\ ReadAsWritten'
<1>1. /\ decPhase = "fill"
      /\ decoded' = decoded \cup {<<decRow, decCol>>}
      /\ UNCHANGED <<decTag, decCol>>
      /\ value' = IF Ours
                  THEN [value EXCEPT ![<<decRow, decCol>>] = out[Cardinality(decoded) + 1]]
                  ELSE value
      /\ UNCHANGED <<out, before>>
  BY DEF ReadCell, Dec!FillCell, vars, encVars
<1>2. PICK k \in Row : k = decRow
  BY DEF CodecInv, DecInv, DecTypeOK
<1>3. PICK d \in Col : d = decCol
  BY DEF CodecInv, DecInv, DecTypeOK
<1>4. /\ k \in Nat /\ k >= 1 /\ k <= NRows /\ d \in Nat \ {0} /\ d \in Col
      /\ NRows \in Nat /\ NRows # 0
  BY DecSets DEF Row, Col
<1>5. <<k, d>> \in Dec!Cell /\ <<k, d>>[1] = k /\ <<k, d>>[2] = d
  BY CellSlots
<1>6. <<k, d>> \notin decoded /\ decoded \subseteq Dec!Cell
  <2>1. decoded = CellsBefore
    BY <1>1 DEF CodecInv, DecInv, Filling
  <2>2. ~ (d < d) /\ ~ (k < k)
    BY <1>4
  <2>3. QED
    BY <1>2, <1>3, <1>5, <2>1, <2>2 DEF CodecInv, ReadInOrder, CellsBefore
<1>7. decoded' = decoded \cup {<<k, d>>} /\ decoded' \subseteq Dec!Cell
  BY <1>1, <1>2, <1>3, <1>5, <1>6
<1>8. PICK i \in Nat \ {0} : i = Place(k, d)
  BY <1>4, PlaceOfCell
<1>9. Cardinality(decoded) + 1 = i
  BY <1>1, <1>2, <1>3, <1>8 DEF CodecInv, ReadInOrder
<1>10. Cardinality(decoded') = i
  <2>1. IsFiniteSet(decoded) /\ Cardinality(decoded) \in Nat
    BY <1>6, DecodedFinite
  <2>2. Cardinality(decoded \cup {<<k, d>>}) = Cardinality(decoded) + 1
    BY <1>6, <2>1, FS_AddElement
  <2>3. QED
    BY <1>7, <1>9, <2>2
<1>11. ReadInOrder'
  <2>1. CASE k < NRows
    <3>1. decRow' = k + 1 /\ decPhase' = "fill" /\ decCol' = d
      BY <1>1, <1>2, <1>3, <2>1 DEF ReadCell, Dec!FillCell
    <3>2. Place(k + 1, d) = i + 1
      <4>1. (d - 1) * NRows \in Nat
        BY <1>4, PlacesInColumns
      <4>2. QED
        BY <1>4, <1>8, <4>1 DEF Place
    <3>3. Cardinality(decoded') + 1 = Place(k + 1, d)
      BY <1>10, <3>2
    <3>4. (Cardinality(decoded) + 1 = Place(decRow, decCol))'
      BY <3>1, <3>3
    <3>5. QED
      BY <1>7, <3>1, <3>4 DEF ReadInOrder
  <2>2. CASE ~ (k < NRows)
    <3>1. decPhase' \in {"build", "scatter"} /\ decCol' = d
      BY <1>1, <1>2, <1>3, <2>2 DEF ReadCell, Dec!FillCell
    <3>2. i = d * NRows
      <4>1. k = NRows /\ (d - 1) * NRows + NRows = d * NRows
        BY <1>4, <2>2, PlacesInColumns
      <4>2. Place(k, d) = (d - 1) * NRows + k
        BY DEF Place
      <4>3. QED
        BY <1>8, <4>1, <4>2
    <3>3. QED
      BY <1>7, <1>10, <3>1, <3>2 DEF ReadInOrder
  <2>3. QED
    BY <2>1, <2>2
<1>12. ReadAsWritten'
  <2> SUFFICES ASSUME Ours', NEW x \in decoded'
               PROVE  value'[x] = before'[x[1]][x[2]]
    BY DEF ReadAsWritten
  <2>1. Ours
    BY <1>1 DEF Ours
  <2>2. value' = [value EXCEPT ![<<k, d>>] = out[i]]
    BY <1>1, <1>2, <1>3, <1>9, <2>1
  <2>3. value = [y \in Dec!Cell |-> value[y]]
    BY DEF CodecInv, DecInv, DecTypeOK
  <2>4. i \in DOMAIN out
    <3>1. i <= d * NRows /\ d * NRows <= NCols * NRows
      BY <1>4, <1>8, PlacesInColumns
    <3>2. NRows * NCols = NCols * NRows /\ d * NRows \in Nat /\ NCols * NRows \in Nat
      BY <1>4, DecSets
    <3>3. Len(out) = NCols * NRows
      BY <2>1, <3>2 DEF Ours
    <3>4. out \in Seq(Value \cup {Wild})
      BY DEF CodecInv, EncInv, EncTypeOK
    <3>5. DOMAIN out = 1 .. Len(out)
      BY <3>4, LenProperties
    <3>6. i <= NCols * NRows
      BY <3>1, <3>2
    <3>7. QED
      BY <3>2, <3>3, <3>5, <3>6
  <2>5. out[i] = before[k][d]
    <3>1. out[i] = CellAt(i)
      BY <2>4, FrameCells DEF CodecInv, EncInv
    <3>2. CellAt(Place(k, d)) = before[k][d]
      BY <1>4, PlaceOfCell
    <3>3. QED
      BY <1>8, <3>1, <3>2
  <2>6. CASE x = <<k, d>>
    <3>1. value'[x] = before[k][d]
      BY <1>5, <2>2, <2>3, <2>5, <2>6
    <3>2. QED
      BY <1>1, <1>5, <2>6, <3>1
  <2>7. CASE x # <<k, d>>
    <3>1. x \in decoded /\ x \in Dec!Cell
      BY <1>6, <1>7, <2>7
    <3>2. value[x] = before[x[1]][x[2]]
      BY <2>1, <3>1 DEF CodecInv, ReadAsWritten
    <3>3. value'[x] = value[x]
      BY <2>2, <2>3, <2>7, <3>1
    <3>4. QED
      BY <1>1, <3>2, <3>3
  <2>8. QED
    BY <2>6, <2>7
<1>13. QED
  BY <1>11, <1>12

LEMMA OtherStepInOrder ==
  ASSUME CodecInv, DecoderStep, ~ ReadCell
  PROVE  ReadInOrder' /\ ReadAsWritten'
<1>1. UNCHANGED <<value, out, before, decTag>>
  BY DEF DecoderStep, vars, encVars, Dec!Header, Dec!Keys, Dec!NoColumn, Dec!ColumnFails,
         Dec!ListFails, Dec!BuildRows, Dec!Scatter, Dec!RowsetCell, Dec!RowsetFails
<1>2. decoded' = decoded => ReadAsWritten'
  BY <1>1 DEF CodecInv, ReadAsWritten, Ours
<1>3. decoded \subseteq Dec!Cell
  BY DEF CodecInv, ReadInOrder
<1>4. CASE decPhase' = "failed" /\ decoded' = decoded
  BY <1>2, <1>3, <1>4 DEF ReadInOrder
<1>5. CASE Dec!Header \/ Dec!Keys
  <2>1. /\ decPhase \in {"header", "keys"} /\ decPhase' \in {"keys", "fill", "rows", "failed"}
        /\ UNCHANGED <<decRow, decCol, decoded>>
    BY <1>5 DEF Dec!Header, Dec!Keys
  <2>2. decRow = 1 /\ decCol = 1 /\ decoded = {}
    BY <2>1 DEF CodecInv, DecInv, Unread
  <2>3. Cardinality(decoded') + 1 = Place(1, 1)
    <3>1. Cardinality(decoded') = 0
      BY <2>1, <2>2, FS_EmptySet
    <3>2. Place(1, 1) = 1
      BY DecSets DEF Place
    <3>3. QED
      BY <3>1, <3>2
  <2>4. (Cardinality(decoded) + 1 = Place(decRow, decCol))'
    BY <2>1, <2>2, <2>3
  <2>5. QED
    BY <1>2, <1>3, <2>1, <2>4 DEF ReadInOrder
<1>6. CASE Dec!NoColumn \/ Dec!ColumnFails \/ Dec!ListFails \/ Dec!RowsetFails
  <2>1. decPhase' = "failed" /\ decoded' = decoded
    BY <1>6 DEF Dec!NoColumn, Dec!ColumnFails, Dec!ListFails, Dec!RowsetFails, Dec!TableFail
  <2>2. QED
    BY <1>4, <2>1
<1>7. ASSUME NEW n \in 0 .. NRows, Dec!BuildRows(n)
      PROVE  ReadInOrder' /\ ReadAsWritten'
  <2>1. /\ decPhase = "build" /\ decPhase' \in {"scatter", "failed"}
        /\ UNCHANGED <<decCol, decoded>>
    BY <1>7 DEF Dec!BuildRows
  <2>2. Cardinality(decoded) = decCol * NRows
    BY <2>1 DEF CodecInv, ReadInOrder
  <2>3. QED
    BY <1>2, <1>3, <2>1, <2>2 DEF ReadInOrder
<1>8. CASE Dec!Scatter
  <2>1. /\ decPhase = "scatter" /\ UNCHANGED <<decRow, decoded>>
        /\ Cardinality(decoded) = decCol * NRows
    BY <1>8 DEF Dec!Scatter, CodecInv, ReadInOrder
  <2>2. decRow = 1 /\ decoded = CellsUpTo
    BY <2>1 DEF CodecInv, DecInv, ColumnRead
  <2>3. PICK d \in Col : d = decCol
    BY DEF CodecInv, DecInv, DecTypeOK
  <2>4. d \in Nat /\ d <= NCols /\ NRows \in Nat
    BY <2>3, DecSets DEF Col
  <2>5. CASE d < NCols
    <3>1. decPhase' = "fill" /\ decCol' = d + 1 /\ decRow' = 1
      BY <1>8, <2>1, <2>2, <2>3, <2>5 DEF Dec!Scatter
    <3>2. Cardinality(decoded') + 1 = Place(1, d + 1)
      <4>1. Cardinality(decoded') = d * NRows
        BY <2>1, <2>3
      <4>2. QED
        BY <2>4, <4>1, NextColumn
    <3>3. (Cardinality(decoded) + 1 = Place(decRow, decCol))'
      BY <3>1, <3>2
    <3>4. QED
      BY <1>2, <1>3, <2>1, <3>1, <3>3 DEF ReadInOrder
  <2>6. CASE ~ (d < NCols)
    <3>1. decPhase' = "done"
      BY <1>8, <2>3, <2>6 DEF Dec!Scatter
    <3>2. \A x \in Dec!Cell : x[2] <= decCol
      BY <2>3, <2>4, <2>6, CellParts, DecSets
    <3>3. decoded' = Dec!Cell
      BY <2>1, <2>2, <3>2 DEF CellsUpTo
    <3>4. QED
      BY <1>2, <2>1, <3>1, <3>3 DEF ReadInOrder
  <2>7. QED
    BY <2>5, <2>6
<1>9. CASE Dec!RowsetCell
  <2>1. /\ decPhase = "rows" /\ decPhase' \in {"rows", "done"}
        /\ decoded' = decoded \cup {<<decRow, decCol>>}
    BY <1>9 DEF Dec!RowsetCell
  <2>2. decTag = "rowset" /\ out = <<>>
    BY <2>1 DEF CodecInv, DecInv, RowByRow, Handover
  <2>3. <<decRow, decCol>> \in Dec!Cell
    BY CellSlots DEF CodecInv, DecInv, DecTypeOK
  <2>4. ~ Ours'
    BY <1>1, <2>2, FrameNotEmpty DEF Ours
  <2>5. QED
    BY <1>1, <1>3, <2>1, <2>2, <2>3, <2>4 DEF ReadInOrder, ReadAsWritten
<1>10. QED
  BY <1>5, <1>6, <1>7, <1>8, <1>9 DEF DecoderStep

LEMMA DecoderKeeps ==
  ASSUME CodecInv, DecoderStep
  PROVE  CodecInv'
<1>1. UNCHANGED vars
  BY DEF DecoderStep
<1>2. EncInv'
  BY <1>1, EncNext DEF CodecInv
<1>3. DecInv'
  BY DecNext DEF CodecInv
<1>4. ReadInOrder' /\ ReadAsWritten'
  BY <1>1, ReadCellInOrder, OtherStepInOrder
<1>5. Handover'
  <2>1. decPhase # "none" /\ decPhase' # "none" /\ decTag' = decTag
    BY DEF DecoderStep, ReadCell, Dec!Header, Dec!Keys, Dec!NoColumn, Dec!FillCell,
           Dec!ColumnFails, Dec!ListFails, Dec!BuildRows, Dec!Scatter, Dec!RowsetCell,
           Dec!RowsetFails, Dec!TableFail
  <2>2. phase' = phase /\ userCode' = userCode /\ out' = out
    BY <1>1 DEF vars, encVars
  <2>3. QED
    BY <2>1, <2>2 DEF CodecInv, Handover
<1>6. QED
  BY <1>2, <1>3, <1>4, <1>5 DEF CodecInv

(* Where a frame is read there is a list of fresh immutable rows.          *)
LEMMA ElsewhereKeeps ==
  ASSUME EncInv, Elsewhere, out' = out,
         before' \in [Row -> [Col -> Value]], out = <<>> \/ before' = before
  PROVE  EncInv'
<1>1. /\ allocated' = NRows /\ immutable' = Row
      /\ refcount' = [t \in Table |-> 0] /\ version' = [t \in Table |-> 1]
      /\ cells' = [t \in Table |-> [c \in Col |-> Hook]]
      /\ slots' = [r \in Row |-> r] /\ var' = None /\ storage' = None
      /\ phase' = "declined" /\ failed' = FALSE /\ row' = 1 /\ col' = 1
      /\ pin' = [r \in Row |-> None]
      /\ pointer' = [r \in Row |-> [table |-> r, version |-> 0]] /\ userCode' = FALSE
  BY DEF Elsewhere, Quiet
<1>2. /\ NRows \in Nat \ {0, 1} /\ NCols \in Nat \ {0} /\ MaxTables \in Nat /\ NRows <= MaxTables
      /\ Row = 1 .. NRows /\ 1 \in Row /\ 1 \in Col /\ 0 \notin Row
  BY TableAssumption DEF Row, Col
<1>3. EncTypeOK'
  <2>1. allocated' \in NRows .. MaxTables /\ immutable' \subseteq 1 .. NRows
    BY <1>1, <1>2
  <2>2. /\ refcount' \in [Table -> Nat] /\ version' \in [Table -> Nat]
        /\ cells' \in [Table -> [Col -> Value]]
        /\ \A t \in immutable' : refcount'[t] = 0
    BY <1>1, <1>2 DEF Value, Table
  <2>3. /\ slots' \in [Row -> 0 .. NRows] /\ var' \in 0 .. NRows
        /\ storage' \in (0 .. NRows) \ Row /\ pin' \in [Row -> 0 .. NRows]
        /\ pointer' \in [Row -> [table : 1 .. NRows, version : Nat]]
    BY <1>1, <1>2 DEF None
  <2>4. out' \in Seq(Value \cup {Wild})
    BY DEF EncInv, EncTypeOK
  <2>5. /\ phase' \in Phases /\ failed' \in BOOLEAN /\ row' \in Row /\ col' \in Col
        /\ userCode' \in BOOLEAN
    BY <1>1, <1>2 DEF Phases
  <2>6. QED
    BY <1>1, <2>1, <2>2, <2>3, <2>4, <2>5 DEF EncTypeOK
<1>4. HoldersCounted'
  <2>1. ASSUME NEW t \in Table \ Row PROVE refcount'[t] = Holders(t)'
    <3>1. t # None
      BY DEF Table, None
    <3>2. Count(slots', t) = 0 /\ Count(pin', t) = 0
      BY <1>1, <3>1, CountSet
    <3>3. Holders(t)' = 0
      BY <1>1, <3>1, <3>2, HoldersNext DEF One
    <3>4. QED
      BY <1>1, <3>3
  <2>2. \A r \in Row : pin'[r] = None /\ None \notin immutable'
    BY <1>1, <1>2 DEF None
  <2>3. QED
    BY <1>1, <2>1, <2>2 DEF HoldersCounted
<1>5. PinsGuard' /\ GatherInv' /\ FrameInv'
  BY <1>1 DEF PinsGuard, GatherInv, FrameInv
<1>6. RowsAsTheyWere'
  <2>1. CASE out = <<>>
    BY <2>1 DEF RowsAsTheyWere
  <2>2. CASE before' = before
    BY <2>2 DEF EncInv, RowsAsTheyWere
  <2>3. QED
    BY <2>1, <2>2
<1>7. QED
  BY <1>3, <1>4, <1>5, <1>6 DEF EncInv

LEMMA FrameArrives ==
  ASSUME CodecInv, Deliver \/ Arrive
  PROVE  CodecInv'
<1>1. /\ decPhase = "none" /\ decPhase' = "header" /\ Elsewhere /\ out' = out
      /\ interned' \in SUBSET Col
      /\ UNCHANGED <<decRow, decCol, colbuf, built, bucket, keyRefs, decoded, releases, wild,
                     value>>
  BY DEF Deliver, Arrive
<1>2. decTag = "table" /\ decoded = {}
  BY <1>1 DEF CodecInv, Handover, DecInv, Unread
<1>3. EncInv'
  <2>1. CASE Deliver
    <3>1. before' = before /\ before \in [Row -> [Col -> Value]]
      BY <2>1 DEF Deliver, CodecInv, EncInv, EncTypeOK
    <3>2. QED
      BY <1>1, <3>1, ElsewhereKeeps DEF CodecInv
  <2>2. CASE Arrive
    <3>1. out = <<>>
      BY <2>2 DEF Arrive, CodecInv, EncInv, FrameInv
    <3>2. \A r \in Row : r \in Table
      BY TableAssumption DEF Row, Table
    <3>3. before' = [r \in Row |-> [c \in Col |-> Hook]]
      BY <2>2, <3>2 DEF Arrive, Quiet
    <3>4. before' \in [Row -> [Col -> Value]]
      BY <3>3 DEF Value
    <3>5. QED
      BY <1>1, <3>1, <3>4, ElsewhereKeeps DEF CodecInv
  <2>3. QED
    BY <2>1, <2>2
<1>4. decTag' \in {"table", "rowset"} /\ (decTag' = "rowset" => out' = <<>>)
  <2>1. CASE Deliver
    BY <1>2, <2>1 DEF Deliver
  <2>2. CASE Arrive
    BY <1>1, <2>2 DEF Arrive, CodecInv, EncInv, FrameInv
  <2>3. QED
    BY <2>1, <2>2
<1>5. DecInv'
  BY <1>1, <1>4, DecBegins DEF CodecInv
<1>6. Handover'
  BY <1>1, <1>4 DEF Handover, Elsewhere
<1>7. ReadInOrder' /\ ReadAsWritten'
  BY <1>1, <1>2 DEF ReadInOrder, ReadAsWritten
<1>8. QED
  BY <1>3, <1>5, <1>6, <1>7 DEF CodecInv

LEMMA EncoderKeeps ==
  ASSUME CodecInv, UserStep \/ UserReturns \/ EncoderStep, UNCHANGED decVars
  PROVE  CodecInv'
<1>1. decPhase = "none"
  <2>1. userCode \/ phase # "declined"
    BY DEF UserStep, UserReturns, EncoderStep, UserTakes, UserUnsets, UserAssigns, UserDrops,
           UserWraps, UserWritesStorage, Write, TryTable, GatherRow, OutOfMemory, TypedColumn,
           MixedCell, ReleasePin
  <2>2. QED
    BY <2>1 DEF CodecInv, Handover
<1>2. decTag = "table" /\ decoded = {}
  BY <1>1 DEF CodecInv, Handover, DecInv, Unread
<1>3. EncInv'
  BY EncNext DEF CodecInv, Next
<1>4. DecInv'
  BY DecIdle DEF CodecInv
<1>5. Handover' /\ ReadInOrder' /\ ReadAsWritten'
  BY <1>1, <1>2 DEF Handover, ReadInOrder, ReadAsWritten, decVars
<1>6. QED
  BY <1>3, <1>4, <1>5 DEF CodecInv

LEMMA CodecInvInit == CodecInit => CodecInv
<1> SUFFICES ASSUME CodecInit PROVE CodecInv
  OBVIOUS
<1>1. EncInv /\ DecInv
  BY EncInit, DecInit DEF CodecInit
<1>2. decPhase = "none" /\ decTag = "table" /\ decoded = {}
  BY DEF CodecInit
<1>3. Handover /\ ReadInOrder /\ ReadAsWritten
  BY <1>2 DEF Handover, ReadInOrder, ReadAsWritten
<1>4. QED
  BY <1>1, <1>3 DEF CodecInv

LEMMA CodecInvNext == CodecInv /\ [CodecNext]_codecVars => CodecInv'
<1> SUFFICES ASSUME CodecInv, [CodecNext]_codecVars PROVE CodecInv'
  OBVIOUS
<1>1. CASE CodecNext
  BY <1>1, EncoderKeeps, FrameArrives, DecoderKeeps DEF CodecNext, Encode, Return
<1>2. CASE UNCHANGED codecVars
  <2>1. UNCHANGED vars /\ UNCHANGED decVars
    BY <1>2 DEF codecVars
  <2>2. EncInv' /\ DecInv'
    BY <2>1, EncNext, DecIdle DEF CodecInv
  <2>3. /\ decPhase' = decPhase /\ decTag' = decTag /\ decoded' = decoded /\ decRow' = decRow
        /\ decCol' = decCol /\ value' = value
        /\ phase' = phase /\ userCode' = userCode /\ out' = out /\ before' = before
    BY <2>1 DEF vars, decVars, encVars
  <2>4. Handover' /\ ReadInOrder' /\ ReadAsWritten'
    BY <2>3 DEF CodecInv, Handover, ReadInOrder, ReadAsWritten, Ours, Place
  <2>5. QED
    BY <2>2, <2>4 DEF CodecInv
<1>3. QED
  BY <1>1, <1>2

LEMMA CodecAlways == CodecSpec => []CodecInv
BY CodecInvInit, CodecInvNext, PTL DEF CodecSpec

(* What the writer's hooks do to rows and list while a table is encoded    *)
(* does not show in the frame: its cells are those the rows had when the   *)
(* encoder reached the list, and none is read through a stale pointer.     *)
THEOREM RowsWrittenAsTheyWere == CodecSpec => []RowsAsTheyWere
<1>1. CodecInv => RowsAsTheyWere
  BY DEF CodecInv, EncInv
<1>2. QED
  BY <1>1, CodecAlways, PTL

(* Reference counts of rows agree with who holds them: each pin and each   *)
(* duplicate is given up once, on every way out.                           *)
THEOREM RowHoldersCounted == CodecSpec => []HoldersCounted
<1>1. CodecInv => HoldersCounted
  BY DEF CodecInv, EncInv
<1>2. QED
  BY <1>1, CodecAlways, PTL

(* A table that is decoded has the rows its encoder was given.             *)
THEOREM TablesComeBack == CodecSpec => []RowsComeBack
<1>1. CodecInv => RowsComeBack
  <2> SUFFICES ASSUME CodecInv, decPhase = "done", Ours, NEW r \in Row, NEW c \in Col
               PROVE  value[bucket[r][c]] = before[r][c]
    BY DEF RowsComeBack
  <2>1. <<r, c>> \in Dec!Cell /\ <<r, c>>[1] = r /\ <<r, c>>[2] = c
    BY CellSlots
  <2>2. bucket[r][c] = <<r, c>>
    <3>1. \A x \in Dec!Cell : bucket[x[1]][x[2]] = x
      BY DEF CodecInv, DecInv, CellsReleasedOnce, Dec!CellsReleasedOnce
    <3>2. QED
      BY <2>1, <3>1
  <2>3. decTag = "table"
    BY FrameNotEmpty DEF CodecInv, Handover, DecInv, DecTypeOK
  <2>4. <<r, c>> \in decoded
    BY <2>1, <2>3 DEF CodecInv, ReadInOrder
  <2>5. QED
    BY <2>1, <2>2, <2>4 DEF CodecInv, ReadAsWritten
<1>2. QED
  BY <1>1, CodecAlways, PTL

(* Wherever a table or a row set fails, each cell decoded by then is       *)
(* released once, be it in the column buffer, in a row or in both.         *)
THEOREM DecodedCellsReleasedOnce == CodecSpec => []CellsReleasedOnce
<1>1. CodecInv => CellsReleasedOnce
  BY DEF CodecInv, DecInv
<1>2. QED
  BY <1>1, CodecAlways, PTL

(* A frame that fails costs the dictionary of keys nothing, one that       *)
(* succeeds a reference per row.                                           *)
THEOREM KeyReferencesBalance == CodecSpec => []KeysBalance
<1>1. CodecInv => KeysBalance
  BY DEF CodecInv, DecInv
<1>2. QED
  BY <1>1, CodecAlways, PTL
=============================================================================
