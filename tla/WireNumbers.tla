---------------------------- MODULE WireNumbers ----------------------------
(***************************************************************************)
(* Integers on the wire: seven bits to a byte, least significant first,    *)
(* negative ones folded in by zigzag; and runs of them, plain, as          *)
(* differences, or as a first value and a step.  The width of a word and   *)
(* of a group of bits are parameters, so that every boundary of the real   *)
(* ones has its like in a small instance: as 64 = 9 * 7 + 1, the last byte *)
(* of the longest number has room for one bit.                             *)
(*                                                                         *)
(* The reader may run on a host whose integers are narrower than the wire. *)
(***************************************************************************)
EXTENDS Integers, Sequences

CONSTANTS
  Bits, Group,      \* 64 and 7
  HostBits,         \* widths of zend_long on the reader's side
  Values,           \* what runs are made of
  MaxRun,           \* bound: elements of a run
  MaxWire           \* bound: bytes of a frame no encoder wrote

(* 1 << n. *)
Pow2[n \in 0 .. Bits] == IF n = 0 THEN 1 ELSE 2 * Pow2[n - 1]

Word  == Pow2[Bits]
Half  == Pow2[Bits - 1]
Radix == Pow2[Group]

ASSUME NumbersAssumption ==
  /\ Group \in Nat \ {0} /\ Bits \in Nat /\ Bits > Group /\ Bits % Group = 1
  /\ HostBits \subseteq 1 .. Bits
  /\ Values \subseteq -Half .. Half - 1
  /\ MaxRun \in Nat /\ MaxWire \in Nat

VARIABLES
  reader,           \* "start", "reading", "done" or "failed"
  host,             \* SIZEOF_ZEND_LONG, in bits
  run,              \* history: what the encoder wrote, or NoRun
  tag, count,       \* of the run on the wire
  unread,           \* what is left to read
  v, shift,         \* the number being read, or the one read last
  said,             \* history: what its bytes amount to
  base, acc,        \* locals of the run's loop
  out               \* the cells of the array

numberVars == <<reader, host, run, tag, count, unread, v, shift, said, base, acc, out>>

NoRun == <<>>

-----------------------------------------------------------------------------
(* Words.                                                                   *)

Wrap(n)   == n % Word
Signed(u) == IF u >= Half THEN u - Word ELSE u
Ones(u)   == Word - 1 - u  \* u, every bit flipped

ZigZag(n)   == IF n < 0 THEN Ones(Wrap(2 * n)) ELSE Wrap(2 * n)
UnZigZag(u) == Signed(IF u % 2 = 1 THEN Ones(u \div 2) ELSE u \div 2)

(* varint_put.  A byte of Radix or more says that another one follows. *)
VarintPut[u \in 0 .. Word - 1] ==
  IF u < Radix THEN <<u>> ELSE <<Radix + (u % Radix)>> \o VarintPut[u \div Radix]

Put(n) == VarintPut[ZigZag(n)]

-----------------------------------------------------------------------------
(* The encoder.                                                             *)

Deltas(r) == [i \in DOMAIN r |-> IF i = 1 THEN r[1] ELSE Signed(Wrap(r[i] - r[i - 1]))]

(* The numbers of r one after another: of the last of them, of the last two, *)
(* and so on to all of them.                                                 *)
Bytes(r) ==
  LET last[n \in 0 .. Len(r)] ==
        IF n = 0 THEN <<>> ELSE Put(r[Len(r) + 1 - n]) \o last[n - 1]
  IN last[Len(r)]

(* enc_pick_long_run_tag, with elements to spare in the budget. *)
PickLongRunTag(r) ==
  IF Len(r) < 4 THEN "longs"
  ELSE IF \A i \in 3 .. Len(r) : Deltas(r)[i] = Deltas(r)[2] THEN "affine"
  ELSE IF Len(Bytes(Deltas(r))) < Len(Bytes(r)) THEN "delta" ELSE "longs"

(* encode_hashtable's three loops. *)
WriteRun(r) ==
  /\ reader = "start" /\ reader' = "reading"
  /\ run' = r
  /\ tag' = PickLongRunTag(r)
  /\ count' = Len(r)
  /\ unread' = CASE tag' = "longs"  -> Bytes(r)
               [] tag' = "delta"  -> Bytes(Deltas(r))
               [] tag' = "affine" -> Put(r[1]) \o Put(Deltas(r)[2])
  /\ UNCHANGED <<host, v, shift, said, base, acc, out>>

(* A number of a frame that no encoder wrote. *)
AnyWire(w) ==
  /\ reader = "start" /\ reader' = "reading"
  /\ tag' = "longs" /\ count' = 1
  /\ unread' = w
  /\ UNCHANGED <<host, run, v, shift, said, base, acc, out>>

-----------------------------------------------------------------------------
(* The decoder.                                                             *)

Fail == reader' = "failed" /\ UNCHANGED <<unread, v, shift, said, base, acc, out>>

FitsHost(n) == n \in -Pow2[host - 1] .. Pow2[host - 1] - 1

(* Mutant: any seven bits will do. *)
FitsAny(chunk) == shift < Bits

(* Only one bit fits in the last byte. *)
FitsWord(chunk) == shift < Bits /\ (shift = Bits - 1 => chunk <= 1)

(* Mutant: a difference is added as it stands. *)
AddSigned(a, d) == a + d

Add(a, d) == Wrap(a + d)

(* Cells are stored until one does not fit. *)
Store(cells) ==
  IF \E i \in DOMAIN cells : ~ FitsHost(cells[i])
  THEN reader' = "failed" /\ UNCHANGED out
  ELSE /\ out' = out \o cells
       /\ reader' = IF Len(out') = count THEN "done" ELSE reader

AffineCells(from, step) ==
  LET sum[i \in 1 .. count] == IF i = 1 THEN Wrap(from) ELSE Add(sum[i - 1], step)
  IN [i \in 1 .. count |-> Signed(sum[i])]

(* The number n is read: it is a cell, a difference, or one of the two of   *)
(* an arithmetic run.                                                       *)
Take(n) ==
  CASE tag = "longs" -> Store(<<n>>) /\ UNCHANGED <<base, acc>>
    [] tag = "delta" -> /\ acc' = Add(acc, n)
                        /\ Store(<<Signed(acc')>>) /\ UNCHANGED base
    [] tag = "affine" -> IF base = <<>> THEN base' = <<n>> /\ UNCHANGED <<reader, acc, out>>
                         ELSE Store(AffineCells(base[1], n)) /\ UNCHANGED <<base, acc>>

(* One turn of varint_read_u64's loop, and what its caller does with the    *)
(* number when it is complete.                                              *)
ReadByte ==
  /\ reader = "reading"
  /\ IF unread = <<>> THEN Fail
     ELSE LET chunk == Head(unread) % Radix
              more  == Head(unread) >= Radix
              first == shift = 0 IN
          IF ~ FitsWord(chunk) THEN Fail
          ELSE /\ unread' = Tail(unread)
               /\ v' = IF first THEN chunk ELSE Wrap(v + chunk * Pow2[shift])
               /\ said' = IF first THEN chunk ELSE said + chunk * Pow2[shift]
               /\ IF more
                  THEN shift' = shift + Group /\ UNCHANGED <<reader, base, acc, out>>
                  ELSE shift' = 0 /\ Take(UnZigZag(v'))
  /\ UNCHANGED <<host, run, tag, count>>

NumberInit ==
  /\ reader = "start" /\ host \in HostBits
  /\ run = NoRun /\ tag = "longs" /\ count = 0 /\ unread = <<>>
  /\ v = 0 /\ shift = 0 /\ said = 0
  /\ base = <<>> /\ acc = 0 /\ out = <<>>

NumberNext ==
  \/ \E n \in 1 .. MaxRun : \E r \in [1 .. n -> Values] : WriteRun(r)
  \/ \E n \in 0 .. MaxWire : \E w \in [1 .. n -> 0 .. 2 * Radix - 1] : AnyWire(w)
  \/ ReadByte

NumberSpec == NumberInit /\ [][NumberNext]_numberVars

-----------------------------------------------------------------------------
(* Properties.                                                              *)

(* Two different spellings never name one number by overflow: what a number *)
(* is read as is what its bytes amount to, whoever wrote them.  Bits beyond *)
(* the word are refused; a spelling with idle high zeros is not.            *)
(* varint_read_u64.                                                         *)
NumbersUnambiguous == v = said

(* Whatever form the encoder chose for a run, the reader stores the run's   *)
(* values and leaves nothing on the wire, differences that overflow the     *)
(* word included; and it gives up only when the host cannot hold a value.   *)
RunsReadBack ==
  run # NoRun =>
    /\ reader = "done" => out = run /\ unread = <<>>
    /\ reader = "failed" => \E i \in DOMAIN run : ~ FitsHost(run[i])

=============================================================================
