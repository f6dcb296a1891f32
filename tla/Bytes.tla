------------------------------- MODULE Bytes -------------------------------
(***************************************************************************)
(* Byte strings and the little-endian integers of Go's encoding/binary.    *)
(* A byte has Base values: 256 in the code.  Fields keep their widths in   *)
(* bytes, so with a small Base the limits of a field are within reach.     *)
(***************************************************************************)
EXTENDS Integers, Sequences

CONSTANT Base

ASSUME BaseAssumption == Base \in Nat \ {0, 1}

Byte == 0 .. Base - 1

\* The number of values of a field of 2, 4 and 8 bytes.
Values16 == Base * Base
Values32 == Values16 * Values16
Values64 == Values32 * Values32

MaxUint16 == Values16 - 1
MaxUint32 == Values32 - 1

\* AppendUint16, 32 and 64: the low bytes of v.
LE16(v) == <<v % Base, (v \div Base) % Base>>
LE32(v) == LE16(v) \o LE16(v \div Values16)
LE64(v) == LE32(v) \o LE32(v \div Values32)

\* Uint16, 32 and 64 of the bytes at an offset.
Uint16(data, offset) == data[offset + 1] + Base * data[offset + 2]
Uint32(data, offset) == Uint16(data, offset) + Values16 * Uint16(data, offset + 2)
Uint64(data, offset) == Uint32(data, offset) + Values32 * Uint32(data, offset + 4)

\* int64 of a uint64.
Int64 == -(Values64 \div 2) .. (Values64 - 1) \div 2
Signed(u) == IF u > (Values64 - 1) \div 2 THEN u - Values64 ELSE u

\* data[from:to] of Go, with offsets from zero; it panics outside of data.
InBounds(data, from, to) == 0 <= from /\ from <= to /\ to <= Len(data)
Slice(data, from, to) == SubSeq(data, from + 1, to)

\* The sequences of ss one after the other, as appending them in turn leaves them.
Joined(ss) ==
  LET joined[i \in 0 .. Len(ss)] == IF i = 0 THEN <<>> ELSE joined[i - 1] \o ss[i]
  IN joined[Len(ss)]

-----------------------------------------------------------------------------
(* What a decoder returns *)

Ok(v) == [is |-> "ok", value |-> v]
Failed == [is |-> "error"]
Panics == [is |-> "panic"]

\* An item, and the offset after it.
Read(v, next) == [is |-> "ok", value |-> v, next |-> next]

\* The loop of a decoder: n items, one after the other, from an offset on.
\* item[o] is what decoding one of them at o returns; the first error ends it.
Items(item, n, offset) ==
  LET items[k \in Nat] ==
        [o \in Nat |->
           LET it   == item[o]
               rest == items[k - 1][it.next]
           IN IF k = 0 THEN Read(<<>>, o)
              ELSE IF it.is # "ok" THEN it
              ELSE IF rest.is # "ok" THEN rest
              ELSE Read(<<it.value>> \o rest.value, rest.next)]
  IN items[n][offset]
=============================================================================
