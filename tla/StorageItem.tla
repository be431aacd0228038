---------------------------- MODULE StorageItem ----------------------------
(***************************************************************************)
(* Values inside a slot of storage: the code that StorageItem and          *)
(* StorageByteArrayElement of libsolidity/codegen/LValue.cpp generate.     *)
(* Values that do not fill a slot share it, each in its bytes; which those *)
(* are is up to StorageOffsets::computeOffsets of libsolidity/ast/Types.cpp*)
(* (members of a struct, state variables) and ArrayUtils::accessIndex      *)
(* (elements of an array).                                                 *)
(***************************************************************************)
EXTENDS Integers, Sequences

CONSTANTS
  SlotBytes,      \* bytes in a storage slot (32 on the EVM)
  Radix,          \* values of a byte (256 on the EVM)
  OR(_, _)        \* the EVM's OR, on bytes

ASSUME StorageSizesAssumption == SlotBytes \in Nat \ {0, 1} /\ Radix \in Nat \ {0, 1}
ASSUME OrAssumption ==
  \A x, y \in 0 .. Radix - 1 : OR(x, y) \in 0 .. Radix - 1 /\ OR(x, 0) = x /\ OR(0, x) = x

ByteNumbers == 0 .. SlotBytes - 1

(* A word of the machine; index 0 is the lowest-order byte. *)
Word == [ByteNumbers -> 0 .. Radix - 1]

ZeroWord == [i \in ByteNumbers |-> 0]

---------------------------------------------------------------------------
(* Words. *)

ShiftRight(w, n) == [i \in ByteNumbers |-> IF i + n < SlotBytes THEN w[i + n] ELSE 0]

ShiftLeft(w, n) == [i \in ByteNumbers |-> IF i >= n THEN w[i - n] ELSE 0]

LowBytes(w, n) == [i \in ByteNumbers |-> IF i < n THEN w[i] ELSE 0]

SignExtend(w, n) ==
  [i \in ByteNumbers |->
     IF i < n THEN w[i] ELSE IF w[n - 1] >= Radix \div 2 THEN Radix - 1 ELSE 0]

ClearBytes(w, from, to) == [i \in ByteNumbers |-> IF i \in from .. to - 1 THEN 0 ELSE w[i]]

BytesOr(u, v) == [i \in ByteNumbers |-> OR(u[i], v[i])]

(* The value of type t that a word on the stack stands for: what is left    *)
(* when the bytes beyond the width of the type, which arithmetic leaves    *)
(* "dirty", are cleaned.                                                   *)
Cleaned(t, w) ==
  CASE t.category = "fixedbytes" -> [i \in ByteNumbers |-> IF i >= SlotBytes - t.bytes THEN w[i] ELSE 0]
    [] t.category = "int" -> SignExtend(w, t.bytes)
    [] OTHER -> LowBytes(w, t.bytes)

---------------------------------------------------------------------------
(* Slots: a number in an area. *)

Plus(a, n) == [a EXCEPT !.number = @ + n]

SLOAD(st, a) == IF a \in DOMAIN st THEN st[a] ELSE ZeroWord

SSTORE(st, a, w) ==
  [b \in (IF w = ZeroWord THEN DOMAIN st \ {a} ELSE DOMAIN st \cup {a}) |->
     IF b = a THEN w ELSE st[b]]

---------------------------------------------------------------------------
(* Values inside a slot: StorageItem and StorageByteArrayElement. *)

RetrieveValue(st, t, a, offset) ==
  CASE t.bytes = SlotBytes -> SLOAD(st, a)
    [] t.bytes < SlotBytes /\ t.category = "fixedbytes" ->
         ShiftLeft(ShiftRight(SLOAD(st, a), offset), SlotBytes - t.bytes)
    [] t.bytes < SlotBytes /\ t.category = "int" ->
         SignExtend(ShiftRight(SLOAD(st, a), offset), t.bytes)
    [] OTHER -> LowBytes(ShiftRight(SLOAD(st, a), offset), t.bytes)

(* Mutant: signed values keep their sign extension. *)
StoredBytesUnmasked(t, value) ==
  IF t.category = "fixedbytes" THEN ShiftRight(value, SlotBytes - t.bytes) ELSE value

(* The word that storing a value shifts to its place in the slot.  Byte    *)
(* strings and signed numbers lose what is beyond their width, unsigned    *)
(* numbers do not.                                                         *)
StoredBytes(t, value) ==
  CASE t.category = "fixedbytes" -> ShiftRight(value, SlotBytes - t.bytes)
    [] t.category = "int" -> LowBytes(value, t.bytes)
    [] OTHER -> value

StoreValue(st, t, a, offset, value) ==
  IF t.bytes = SlotBytes THEN SSTORE(st, a, value)
  ELSE SSTORE(st, a, BytesOr(ClearBytes(SLOAD(st, a), offset, offset + t.bytes),
                        ShiftLeft(StoredBytes(t, value), offset)))

(* Mutant: the whole slot is reset. *)
SetSlotToZero(st, t, a, offset) == SSTORE(st, a, ZeroWord)

SetValueToZero(st, t, a, offset) ==
  IF t.bytes = SlotBytes THEN SSTORE(st, a, ZeroWord)
  ELSE SSTORE(st, a, ClearBytes(SLOAD(st, a), offset, offset + t.bytes))

(* Element n of the bytes in a slot, counted from the highest-order byte. *)
RetrieveByte(st, a, n) ==
  ShiftLeft(LowBytes(ShiftRight(SLOAD(st, a), SlotBytes - 1 - n), 1), SlotBytes - 1)

StoreByte(st, a, n, value) ==
  SSTORE(st, a, BytesOr(ClearBytes(SLOAD(st, a), SlotBytes - 1 - n, SlotBytes - n),
                   ShiftLeft(ShiftRight(value, SlotBytes - 1), SlotBytes - 1 - n)))

---------------------------------------------------------------------------
(* Places: computeOffsets.  bytes[i] and sizes[i] are storageBytes and     *)
(* storageSize of member i; a place is a slot and the first byte in it.    *)

(* Where the next item goes: an item that would overflow the slot begins   *)
(* the next one.                                                           *)
Fitted(at, bytes) ==
  IF at.byte + bytes > SlotBytes THEN [slot |-> at.slot + 1, byte |-> 0] ELSE at

(* What is free behind an item. *)
Passed(at, bytes, size) ==
  IF size = 1 THEN [slot |-> at.slot, byte |-> at.byte + bytes]
  ELSE [slot |-> at.slot + size, byte |-> 0]

(* slotOffset and byteOffset after i turns of the loop. *)
Cursor(bytes, sizes) ==
  LET c[i \in 0..Len(bytes)] ==
        IF i = 0 THEN [slot |-> 0, byte |-> 0]
        ELSE Passed(Fitted(c[i - 1], bytes[i]), bytes[i], sizes[i]) IN
  c

ComputeOffsets(bytes, sizes) ==
  [i \in 1..Len(bytes) |-> Fitted(Cursor(bytes, sizes)[i - 1], bytes[i])]

SlotsUsed(bytes, sizes) ==
  LET last == Cursor(bytes, sizes)[Len(bytes)] IN
  IF last.byte > 0 THEN last.slot + 1 ELSE last.slot

(* The place of element i (from 0) of a packed array, from the start of    *)
(* its data: the slot and the byte.                                        *)
PackedPlace(bytes, i) == <<i \div (SlotBytes \div bytes), (i % (SlotBytes \div bytes)) * bytes>>

(* Mutant: an item that would end a slot begins the next one. *)
IncrementEarly(t, a, offset) ==
  IF offset + 2 * t.bytes >= SlotBytes THEN <<Plus(a, 1), 0>> ELSE <<a, offset + t.bytes>>

(* The next place for an item of type t, as <<slot, byte>>. *)
IncrementByteOffset(t, a, offset) ==
  IF offset + 2 * t.bytes > SlotBytes THEN <<Plus(a, 1), 0>> ELSE <<a, offset + t.bytes>>
===========================================================================
