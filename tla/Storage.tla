------------------------------ MODULE Storage ------------------------------
(***************************************************************************)
(* The code that the compiler generates for state variables:               *)
(* libsolidity/codegen/LValue.cpp (StorageItem, StorageByteArrayElement,   *)
(* StorageArrayLength) and ArrayUtils.cpp, over the storage layout of      *)
(* libsolidity/ast/Types.cpp.  Storage is a map from slots to words; small *)
(* values are packed, dynamic arrays keep their length in their slot and   *)
(* their elements at the hash of it, and short byte arrays keep both in    *)
(* one slot.  Each action is one statement of a contract, run to its end.  *)
(*                                                                         *)
(* The hash of a slot (computeHashStatic, SHA3) is taken to be injective:  *)
(* a slot is an area, named by the slots hashed to reach it, and a number  *)
(* in that area.  The words that are written may be dirty: arithmetic and  *)
(* calldata leave anything in the bytes beyond the width of a value type,  *)
(* and no code between them and the storage cleans it.                     *)
(***************************************************************************)
EXTENDS StateVariables, SequencesExt, FiniteSetsExt

CONSTANTS
  Contracts,      \* the contracts to run: struct types whose members are the state variables
  ByteSamples     \* the bytes that written words are made of

VARIABLES
  contract,       \* the contract that runs
  storage         \* its storage: the words of the slots that are not zero

vars == <<contract, storage>>

Uint256 == [category |-> "uint", bytes |-> SlotBytes]

---------------------------------------------------------------------------
(* Numbers as words. *)

NumberWord(n) == [i \in ByteNumbers |-> (n \div Radix ^ i) % Radix]

WordNumber(w) == FoldLeft(LAMBDA n, i : n * Radix + w[SlotBytes - i], 0, [i \in 1 .. SlotBytes |-> i])

---------------------------------------------------------------------------
(* Slots. *)

Root == [area |-> <<>>, number |-> 0]

(* computeHashStatic: the start of the data of a dynamic array. *)
DataSlot(a) == [area |-> Append(a.area, <<"data", a.number>>), number |-> 0]

(* SHA3 of a key and the mapping's slot. *)
EntrySlot(a, k) == [area |-> Append(a.area, <<k, a.number>>), number |-> 0]

---------------------------------------------------------------------------
(* The layout of types in storage. *)

StorageBytes(t) == IF ValueType(t) THEN t.bytes ELSE SlotBytes

ItemsPerSlot(t) == SlotBytes \div StorageBytes(t)

Packed(t) == 2 * StorageBytes(t) <= SlotBytes

CeilDiv(n, k) == (n + k - 1) \div k

RECURSIVE StorageSize(_)
StorageSize(t) ==
  CASE t.category = "array" /\ ~t.dynamic ->
         Max({1, IF StorageBytes(t.base) < SlotBytes THEN CeilDiv(t.length, ItemsPerSlot(t.base))
                 ELSE t.length * StorageSize(t.base)})
    [] t.category = "struct" ->
         Max({1, SlotsUsed([i \in DOMAIN t.members |-> StorageBytes(t.members[i])],
                           [i \in DOMAIN t.members |-> StorageSize(t.members[i])])})
    [] OTHER -> 1

MemberOffsets(t) ==
  LET places == ComputeOffsets([i \in DOMAIN t.members |-> StorageBytes(t.members[i])],
                               [i \in DOMAIN t.members |-> StorageSize(t.members[i])]) IN
  [i \in DOMAIN t.members |-> <<places[i].slot, places[i].byte>>]

RECURSIVE ImplicitlyConvertible(_, _)
ImplicitlyConvertible(s, t) ==
  CASE s.category = "uint" /\ t.category = "uint" -> s.bytes <= t.bytes
    [] s.category = "uint" /\ t.category = "int" -> s.bytes < t.bytes
    [] s.category = "int" /\ t.category = "int" -> s.bytes <= t.bytes
    [] s.category = "fixedbytes" /\ t.category = "fixedbytes" -> s.bytes <= t.bytes
    [] s.category = "array" /\ t.category = "array" ->
         /\ s.byteArray = t.byteArray
         /\ ImplicitlyConvertible(s.base, t.base)
         /\ t.dynamic \/ (~s.dynamic /\ t.length >= s.length)
    [] s.category \in {"struct", "mapping"} -> s = t
    [] OTHER -> FALSE

---------------------------------------------------------------------------
(* Arrays: ArrayUtils. *)

(* Mutant: the flag bit of a long byte array stays in its length. *)
RetrieveLengthUnhalved(st, t, a) ==
  CASE ~t.dynamic -> t.length
    [] t.dynamic /\ ~t.byteArray -> WordNumber(SLOAD(st, a))
    [] OTHER -> IF SLOAD(st, a)[0] % 2 = 0 THEN SLOAD(st, a)[0] \div 2 ELSE WordNumber(SLOAD(st, a))

RetrieveLength(st, t, a) ==
  CASE ~t.dynamic -> t.length
    [] t.dynamic /\ ~t.byteArray -> WordNumber(SLOAD(st, a))
    [] OTHER -> IF SLOAD(st, a)[0] % 2 = 0 THEN SLOAD(st, a)[0] \div 2
                ELSE WordNumber(SLOAD(st, a)) \div 2

ConvertLengthToSize(t, length) ==
  IF StorageSize(t.base) > 1 THEN length * StorageSize(t.base)
  ELSE IF Packed(t.base) THEN CeilDiv(length, ItemsPerSlot(t.base)) ELSE length

DataOf(t, a) == IF t.dynamic THEN DataSlot(a) ELSE a

(* The slot and byte of element i (from 0) in an array's data. *)
DataPlace(t, a, i) ==
  IF Packed(t.base)
  THEN <<Plus(DataOf(t, a), PackedPlace(StorageBytes(t.base), i)[1]), PackedPlace(StorageBytes(t.base), i)[2]>>
  ELSE <<Plus(DataOf(t, a), i * StorageSize(t.base)), 0>>

(* The slot and byte of element i: short byte arrays are in their slot. *)
AccessIndex(st, t, a, i) ==
  IF t.byteArray /\ SLOAD(st, a)[0] % 2 = 0 THEN <<a, i>> ELSE DataPlace(t, a, i)

(* The type as which the slots of an array's data are cleared. *)
ClearingType(t) == IF t.byteArray \/ StorageBytes(t.base) < SlotBytes THEN Uint256 ELSE t.base

RECURSIVE SetToZero(_, _, _, _), ClearArray(_, _, _), ClearStorageLoop(_, _, _, _)

(* StorageItem::setToZero. *)
SetToZero(st, t, a, offset) ==
  CASE ValueType(t) -> SetValueToZero(st, t, a, offset)
    [] t.category = "array" -> ClearArray(st, t, a)
    [] t.category = "struct" ->
         FoldLeft(LAMBDA acc, i :
                    IF t.members[i].category = "mapping" THEN acc
                    ELSE SetToZero(acc, t.members[i], Plus(a, MemberOffsets(t)[i][1]), MemberOffsets(t)[i][2]),
                  st, [i \in DOMAIN t.members |-> i])

(* The slots from pos up to number end of its area, item by item. *)
ClearStorageLoop(st, t, pos, end) ==
  IF t.category = "mapping" \/ pos.number >= end THEN st
  ELSE ClearStorageLoop(SetToZero(st, t, pos, 0), t, Plus(pos, StorageSize(t)), end)

(* Mutant: only the length is reset. *)
ClearLengthOnly(st, t, a) == SSTORE(st, a, ZeroWord)

ClearDynamicArray(st, t, a) ==
  IF t.byteArray /\ RetrieveLength(st, t, a) < SlotBytes THEN SSTORE(st, a, ZeroWord)
  ELSE ClearStorageLoop(SSTORE(st, a, ZeroWord), ClearingType(t), DataSlot(a),
                        ConvertLengthToSize(t, RetrieveLength(st, t, a)))

(* The unrolled forms for small arrays clear what the loop does. *)
ClearArray(st, t, a) ==
  CASE t.dynamic -> ClearDynamicArray(st, t, a)
    [] ~t.dynamic /\ (t.length = 0 \/ t.base.category = "mapping") -> st
    [] OTHER -> ClearStorageLoop(st, ClearingType(t), a, a.number + ConvertLengthToSize(t, t.length))

(* The rest of a length change, for length at a and data at its hash.  The *)
(* code's test for "size is not reduced" holds only if both lengths are 0; *)
(* when the array grows the loop has nothing to clear.                     *)
ResizeRegular(st, t, a, new, old) ==
  ClearStorageLoop(
    SSTORE(st, a, IF t.byteArray THEN NumberWord(2 * new + 1) ELSE NumberWord(new)),
    ClearingType(t), Plus(DataSlot(a), ConvertLengthToSize(t, new)), ConvertLengthToSize(t, old))

(* The slot of a short byte array: the first n bytes of word and length n. *)
ShortSlot(word, n) ==
  BytesOr(ShiftLeft(ShiftRight(word, SlotBytes - n), SlotBytes - n), NumberWord(2 * n))

(* The slots of a long byte array's data, cleared. *)
ClearedData(st, t, a) ==
  ClearStorageLoop(st, Uint256, DataSlot(a), ConvertLengthToSize(t, RetrieveLength(st, t, a)))

(* Mutant: a long byte array that becomes short is cleared before its      *)
(* first word is read.                                                     *)
ResizeReadsLate(st, t, a, new) ==
  CASE ~t.byteArray -> ResizeRegular(st, t, a, new, RetrieveLength(st, t, a))
    [] t.byteArray /\ RetrieveLength(st, t, a) < SlotBytes /\ new < SlotBytes ->
         SSTORE(st, a, ShortSlot(SLOAD(st, a), new))
    [] t.byteArray /\ RetrieveLength(st, t, a) < SlotBytes /\ new >= SlotBytes ->
         SSTORE(SSTORE(st, DataSlot(a), ClearBytes(SLOAD(st, a), 0, 1)), a, NumberWord(2 * new + 1))
    [] t.byteArray /\ RetrieveLength(st, t, a) >= SlotBytes /\ new < SlotBytes ->
         SSTORE(ClearedData(st, t, a), a, ShortSlot(SLOAD(ClearedData(st, t, a), DataSlot(a)), new))
    [] OTHER -> ResizeRegular(st, t, a, new, RetrieveLength(st, t, a))

ResizeDynamicArray(st, t, a, new) ==
  CASE ~t.byteArray -> ResizeRegular(st, t, a, new, RetrieveLength(st, t, a))
    [] t.byteArray /\ RetrieveLength(st, t, a) < SlotBytes /\ new < SlotBytes ->
         SSTORE(st, a, ShortSlot(SLOAD(st, a), new))
    [] t.byteArray /\ RetrieveLength(st, t, a) < SlotBytes /\ new >= SlotBytes ->
         SSTORE(SSTORE(st, DataSlot(a), ClearBytes(SLOAD(st, a), 0, 1)), a, NumberWord(2 * new + 1))
    [] t.byteArray /\ RetrieveLength(st, t, a) >= SlotBytes /\ new < SlotBytes ->
         SSTORE(ClearedData(st, t, a), a, ShortSlot(SLOAD(st, DataSlot(a)), new))
    [] OTHER -> ResizeRegular(st, t, a, new, RetrieveLength(st, t, a))

---------------------------------------------------------------------------
(* Assignment of arrays and structs: ArrayUtils::copyArrayToStorage and    *)
(* StorageItem::storeValue.                                                *)

NextItem(t, direct, a, offset) ==
  IF ~direct /\ Packed(t) THEN IncrementByteOffset(t, a, offset) ELSE <<Plus(a, StorageSize(t)), 0>>

(* The type of the items that are copied: byte arrays go by whole words. *)
ItemType(t) == IF t.byteArray THEN Uint256 ELSE t.base

(* Elements left over in the last slot that was written. *)
RECURSIVE ClearSlotRest(_, _, _)
ClearSlotRest(st, t, at) ==
  IF at[2] = 0 THEN <<st, at[1]>>
  ELSE ClearSlotRest(SetValueToZero(st, t, at[1], at[2]), t, IncrementByteOffset(t, at[1], at[2]))

RECURSIVE CopyItem(_, _, _, _, _, _, _), CopyArray(_, _, _, _, _), CopyLoop(_, _, _, _, _, _)

(* retrieveValue of the source item, then storeValue to the target. *)
CopyItem(st, t, a, offset, s, b, sourceOffset) ==
  CASE ValueType(t) -> StoreValue(st, t, a, offset, RetrieveValue(st, s, b, sourceOffset))
    [] t.category = "array" -> CopyArray(st, t, a, s, b)
    [] t.category = "struct" ->
         FoldLeft(LAMBDA acc, i :
                    IF t.members[i].category = "mapping" THEN acc
                    ELSE CopyItem(acc, t.members[i], Plus(a, MemberOffsets(t)[i][1]), MemberOffsets(t)[i][2],
                                  s.members[i], Plus(b, MemberOffsets(s)[i][1]), MemberOffsets(s)[i][2]),
                  st, [i \in DOMAIN t.members |-> i])

(* Item by item, until the slots of the source are used up.  Result: the   *)
(* storage and the place in the target after the last item.                *)
CopyLoop(st, t, target, s, source, sourceEnd) ==
  IF source[1].number >= sourceEnd THEN <<st, target>>
  ELSE CopyLoop(IF ValueType(s) /\ s = t THEN SSTORE(st, target[1], SLOAD(st, source[1]))
                ELSE CopyItem(st, t, target[1], target[2], s, source[1], source[2]),
                t, NextItem(t, ValueType(s) /\ s = t, target[1], target[2]),
                s, NextItem(s, ValueType(s) /\ s = t, source[1], source[2]), sourceEnd)

(* Mutant: the items left over in the last slot stay. *)
CopyCleanupWholeSlots(copied, t, end) ==
  ClearStorageLoop(copied[1], t, IF copied[2][2] = 0 THEN copied[2][1] ELSE Plus(copied[2][1], 1), end)

(* What follows the loop: the rest of the last slot, then the target's old *)
(* slots up to number end.                                                 *)
CopyCleanup(copied, t, end) ==
  IF ValueType(t) /\ Packed(t)
  THEN ClearStorageLoop(ClearSlotRest(copied[1], t, copied[2])[1], t,
                        ClearSlotRest(copied[1], t, copied[2])[2], end)
  ELSE ClearStorageLoop(copied[1], t, copied[2][1], end)

(* The target's length slot, before its elements are copied. *)
StoreLength(st, t, a, word, length) ==
  CASE t.dynamic /\ ~t.byteArray -> SSTORE(st, a, NumberWord(length))
    [] t.byteArray /\ length < SlotBytes -> SSTORE(st, a, word)
    [] t.byteArray /\ length >= SlotBytes -> SSTORE(st, a, NumberWord(2 * length + 1))
    [] OTHER -> st

TargetEnd(st, t, a) == DataOf(t, a).number + ConvertLengthToSize(t, RetrieveLength(st, t, a))

CopyArray(st, t, a, s, b) ==
  CASE s.base.category = "mapping" -> StoreLength(st, t, a, SLOAD(st, b), RetrieveLength(st, s, b))
    [] s.base.category # "mapping"
       /\ (RetrieveLength(st, s, b) = 0 \/ (s.byteArray /\ RetrieveLength(st, s, b) < SlotBytes)) ->
         ClearStorageLoop(StoreLength(st, t, a, SLOAD(st, b), RetrieveLength(st, s, b)),
                          ItemType(t), DataOf(t, a), TargetEnd(st, t, a))
    [] OTHER ->
         CopyCleanup(CopyLoop(StoreLength(st, t, a, SLOAD(st, b), RetrieveLength(st, s, b)),
                              ItemType(t), <<DataOf(t, a), 0>>, ItemType(s), <<DataOf(s, b), 0>>,
                              DataOf(s, b).number + ConvertLengthToSize(s, RetrieveLength(st, s, b))),
                     ItemType(t), TargetEnd(st, t, a))

(* The same from memory or calldata: the words that the elements are loaded *)
(* as, or for a byte array the words at its start, of which there is one   *)
(* even if it is empty, with whatever follows it in memory.                *)
RECURSIVE StoreWords(_, _, _, _)
StoreWords(st, t, target, words) ==
  IF words = <<>> THEN <<st, target>>
  ELSE StoreWords(StoreValue(st, t, target[1], target[2], Head(words)), t,
                  NextItem(t, FALSE, target[1], target[2]), Tail(words))

CopyFromMemory(st, t, a, length, words) ==
  IF length = 0 \/ (t.byteArray /\ length < SlotBytes)
  THEN ClearStorageLoop(
         StoreLength(st, t, a,
                     BytesOr(ClearBytes(words[1], 0, 1), NumberWord(2 * length)), length),
         ItemType(t), DataOf(t, a), TargetEnd(st, t, a))
  ELSE CopyCleanup(StoreWords(StoreLength(st, t, a, ZeroWord, length), ItemType(t), <<DataOf(t, a), 0>>, words),
                   ItemType(t), TargetEnd(st, t, a))

---------------------------------------------------------------------------
(* The places that expressions of the contract name, and what they hold. *)

(* MemberAccess and IndexAccess, from a place and a path: the type, slot   *)
(* and byte that the lvalue has.                                           *)
RECURSIVE Resolve(_, _, _, _, _)
Resolve(st, t, a, offset, path) ==
  CASE path = <<>> -> [type |-> t, slot |-> a, offset |-> offset, inBytes |-> FALSE]
    [] path # <<>> /\ t.category = "struct" ->
         Resolve(st, t.members[path[1]], Plus(a, MemberOffsets(t)[path[1]][1]),
                 MemberOffsets(t)[path[1]][2], Tail(path))
    [] path # <<>> /\ t.category = "mapping" -> Resolve(st, t.base, EntrySlot(a, path[1]), 0, Tail(path))
    [] path # <<>> /\ t.category = "array" /\ t.byteArray ->
         [type |-> t.base, slot |-> AccessIndex(st, t, a, path[1] - 1)[1],
          offset |-> AccessIndex(st, t, a, path[1] - 1)[2], inBytes |-> TRUE]
    [] OTHER ->
         Resolve(st, t.base, AccessIndex(st, t, a, path[1] - 1)[1],
                 AccessIndex(st, t, a, path[1] - 1)[2], Tail(path))

LValue(path) == Resolve(storage, contract, Root, 0, path)

(* The value of a place, read the way expressions read it. *)
RECURSIVE Load(_, _, _, _)
Load(st, t, a, offset) ==
  CASE ValueType(t) -> RetrieveValue(st, t, a, offset)
    [] t.category = "array" ->
         [i \in 1 .. RetrieveLength(st, t, a) |->
            IF t.byteArray THEN RetrieveByte(st, AccessIndex(st, t, a, i - 1)[1], AccessIndex(st, t, a, i - 1)[2])
            ELSE Load(st, t.base, AccessIndex(st, t, a, i - 1)[1], AccessIndex(st, t, a, i - 1)[2])]
    [] t.category = "struct" ->
         [i \in DOMAIN t.members |->
            Load(st, t.members[i], Plus(a, MemberOffsets(t)[i][1]), MemberOffsets(t)[i][2])]
    [] t.category = "mapping" -> [k \in Keys |-> Load(st, t.base, EntrySlot(a, k), 0)]

ValueOf(st) == Load(st, contract, Root, 0)

(* The words written by the runs: samples in the bytes of the value, and   *)
(* samples in those beyond its width (++, --, +, -, * and ~ clean nothing).*)
Words(t) ==
  {[i \in ByteNumbers |->
      IF (IF t.category = "fixedbytes" THEN SlotBytes - 1 - i ELSE i) < t.bytes THEN b ELSE d] :
   b, d \in ByteSamples}

(* Byte i of word number k of a byte array in memory that has n bytes b,   *)
(* followed by bytes g.                                                    *)
MemoryWord(k, n, b, g) ==
  [i \in ByteNumbers |-> IF k * SlotBytes + (SlotBytes - 1 - i) < n THEN b ELSE g]

(* Arrays in memory or calldata that can be assigned to an array of type t. *)
MemoryArrays(t) ==
  IF t.byteArray
  THEN {[length |-> n,
         words |-> [k \in 1 .. Max({1, CeilDiv(n, SlotBytes)}) |-> MemoryWord(k - 1, n, b, g)],
         value |-> [k \in 1 .. n |-> ShiftLeft([i \in ByteNumbers |-> b], SlotBytes - 1)]] :
        n \in 0 .. t.length, b \in ByteSamples, g \in ByteSamples}
  ELSE {[length |-> n, words |-> [k \in 1 .. n |-> w], value |-> [k \in 1 .. n |-> Cleaned(t.base, w)]] :
        n \in (IF t.dynamic THEN 0 ELSE 1) .. t.length, w \in Words(t.base)}

Places == {p \in Paths(contract, ValueOf(storage)) : p # <<>>}

ArraysAt == {p \in Places : TypeAt(contract, p).category = "array"}

DynamicAt == {p \in ArraysAt : TypeAt(contract, p).dynamic}

---------------------------------------------------------------------------
(* The storage after each statement. *)

(* p = v, for a value type, with word v for the right-hand side. *)
AfterWrite(lv, v) ==
  IF lv.inBytes THEN StoreByte(storage, lv.slot, lv.offset, v)
  ELSE StoreValue(storage, lv.type, lv.slot, lv.offset, v)

(* delete p; "delete p.length" of a dynamic array generates the same code. *)
AfterDelete(lv) ==
  IF lv.inBytes THEN StoreByte(storage, lv.slot, lv.offset, ZeroWord)
  ELSE SetToZero(storage, lv.type, lv.slot, lv.offset)

(* p = q, both in storage. *)
AfterCopy(lv, source) ==
  CopyItem(storage, lv.type, lv.slot, lv.offset, source.type, source.slot, source.offset)

(* p.length = n. *)
AfterResize(lv, n) == ResizeDynamicArray(storage, lv.type, lv.slot, n)

(* p.push(v). *)
Pushed(st, t, at, v) ==
  IF t.byteArray THEN StoreByte(st, at[1], at[2], v) ELSE StoreValue(st, t.base, at[1], at[2], v)

(* Mutant: the place of the new element is looked up before the array is   *)
(* resized.                                                                *)
AfterPushStale(lv, length, v) ==
  Pushed(AfterResize(lv, length + 1), lv.type, AccessIndex(storage, lv.type, lv.slot, length), v)

AfterPush(lv, length, v) ==
  Pushed(AfterResize(lv, length + 1), lv.type,
         AccessIndex(AfterResize(lv, length + 1), lv.type, lv.slot, length), v)

---------------------------------------------------------------------------
Init ==
  /\ contract \in Contracts
  /\ storage = <<>>

Write(p) ==
  /\ ValueType(TypeAt(contract, p))
  /\ \E v \in Words(TypeAt(contract, p)) : storage' = AfterWrite(LValue(p), v)
  /\ UNCHANGED contract

Delete(p) ==
  /\ TypeAt(contract, p).category # "mapping"
  /\ storage' = AfterDelete(LValue(p))
  /\ UNCHANGED contract

(* The assignments of arrays and structs that the type checker accepts:    *)
(* "Mappings cannot be assigned to."                                       *)
Assignable(p, q) ==
  /\ TypeAt(contract, p).category \in {"array", "struct"}
  /\ ImplicitlyConvertible(TypeAt(contract, q), TypeAt(contract, p))

Copy(p, q) ==
  /\ Assignable(p, q)
  /\ storage' = AfterCopy(LValue(p), LValue(q))
  /\ UNCHANGED contract

CopyMemory(p) ==
  /\ ValueType(TypeAt(contract, p).base)
  /\ \E m \in MemoryArrays(TypeAt(contract, p)) :
       storage' = CopyFromMemory(storage, TypeAt(contract, p), LValue(p).slot, m.length, m.words)
  /\ UNCHANGED contract

Resize(p) ==
  /\ \E n \in 0 .. TypeAt(contract, p).length : storage' = AfterResize(LValue(p), n)
  /\ UNCHANGED contract

LengthAt(p) == RetrieveLength(storage, LValue(p).type, LValue(p).slot)

Push(p) ==
  /\ ValueType(TypeAt(contract, p).base)
  /\ LengthAt(p) < TypeAt(contract, p).length
  /\ \E v \in Words(TypeAt(contract, p).base) : storage' = AfterPush(LValue(p), LengthAt(p), v)
  /\ UNCHANGED contract

Next ==
  \/ \E p \in Places : Write(p) \/ Delete(p)
  \/ \E p, q \in Places : Copy(p, q)
  \/ \E p \in ArraysAt : CopyMemory(p)
  \/ \E p \in DynamicAt : Resize(p) \/ Push(p)

Spec == Init /\ [][Next]_vars

---------------------------------------------------------------------------
(* The storage is a map from slots to words that are not zero, and every   *)
(* dynamic array of the contract has a length that statements gave it.     *)
TypeOK ==
  /\ contract \in Contracts
  /\ \A a \in DOMAIN storage : storage[a] \in Word \ {ZeroWord}
  /\ \A p \in DynamicAt : LengthAt(p) \in 0 .. TypeAt(contract, p).length

(* What a dirty unsigned word may reach: the items behind it in its slot.  *)
Behind(lv, other) == other.slot = lv.slot /\ other.offset >= lv.offset + lv.type.bytes

SpillsBehind(before, after, p) ==
  \A q \in {x \in Places \ {p} : ValueType(TypeAt(contract, x))} :
    At(after, q) = At(before, q) \/ Behind(LValue(p), LValue(q))

(* StorageItem::storeValue and StorageByteArrayElement::storeValue: a      *)
(* write gives its place the value that the word stands for, and changes   *)
(* no other value.  Of an unsigned word that is not clean the second part  *)
(* holds of other slots and of the items before it in its slot only.       *)
WriteChangesOnePlace ==
  \A before \in {ValueOf(storage)}, p \in Places :
    ValueType(TypeAt(contract, p)) =>
      \A lv \in {LValue(p)}, w \in Words(TypeAt(contract, p)) :
        \A after \in {ValueOf(AfterWrite(lv, w))} :
          \/ after = Put(before, p, Cleaned(lv.type, w))
          \/ /\ lv.type.category = "uint" /\ w # Cleaned(lv.type, w)
             /\ At(after, p) = Cleaned(lv.type, w)
             /\ SpillsBehind(before, after, p)

(* What the documentation says of the bytes beyond the width of a type,    *)
(* that they are cleaned where it is necessary: an assignment to a value   *)
(* changes one value, whatever word the right-hand side left on the stack. *)
WritesAreCleaned ==
  [][(\E p \in Places : Write(p)) =>
       \E p \in {x \in Places : ValueType(TypeAt(contract, x))} :
         ValueOf(storage)' = Put(ValueOf(storage), p, At(ValueOf(storage)', p))]_vars

(* StorageItem::setToZero and ArrayUtils::clearArray: "delete" resets what *)
(* it names, mappings apart, and changes nothing else.                     *)
DeleteResets ==
  \A before \in {ValueOf(storage)}, p \in Places :
    TypeAt(contract, p).category # "mapping" =>
      ValueOf(AfterDelete(LValue(p))) = Put(before, p, Deleted(TypeAt(contract, p), At(before, p)))

(* The slots that the copy loop writes: it copies every item that the      *)
(* source's slots have room for, those behind its last element too.        *)
CopiedItems(s) == ConvertLengthToSize(s, s.length) * ItemsPerSlot(s.base)

WrittenSlots(t, s) ==
  IF s.base = t.base THEN ConvertLengthToSize(s, s.length) ELSE CeilDiv(CopiedItems(s), ItemsPerSlot(t.base))

(* Where the copy is not exact: static arrays of packed items that differ  *)
(* in length or in width.                                                  *)
Inexact(t, s) ==
  /\ t.category = "array" /\ ~t.dynamic /\ ValueType(t.base) /\ Packed(t.base)
  /\ s.length < t.length \/ s.base # t.base

(* Clearing goes by slots and resets the first item of each: item i (from  *)
(* 1) of a slot that was not written stays.                                *)
Missed(t, written, i) ==
  /\ Packed(t.base) /\ (i - 1) % ItemsPerSlot(t.base) # 0
  /\ (i - 1) \div ItemsPerSlot(t.base) >= written

(* What dirty words left at item i of the last slot of the array at lv.    *)
ItemAt(lv, i) ==
  RetrieveValue(storage, lv.type.base, DataPlace(lv.type, lv.slot, i - 1)[1], DataPlace(lv.type, lv.slot, i - 1)[2])

(* An inexact copy.  The elements are those of the source.  The rest is    *)
(* reset, but for items that were missed and for those filled with what    *)
(* dirty words left behind the source's last element.  Other variables     *)
(* stay, but for those in slots behind the target that the loop wrote.     *)
CopiedRight(before, after, target, source, p, q) ==
  /\ \A i \in 1 .. source.type.length : At(after, p)[i] = At(before, q)[i]
  /\ \A i \in source.type.length + 1 .. target.type.length :
       \/ At(after, p)[i] = ZeroWord
       \/ Missed(target.type, WrittenSlots(target.type, source.type), i) /\ At(after, p)[i] = At(before, p)[i]
       \/ i <= CopiedItems(source.type) /\ At(after, p)[i] = ItemAt(source, i)
  /\ \A r \in {x \in Places : ValueType(TypeAt(contract, x)) /\ ~IsPrefix(p, x)} :
       \/ At(after, r) = At(before, r)
       \/ \E k \in StorageSize(target.type) .. WrittenSlots(target.type, source.type) - 1 :
            LValue(r).slot = Plus(target.slot, k)

(* ArrayUtils::copyArrayToStorage and the struct case of storeValue: after *)
(* p = q, p has the elements of q, a longer target's rest is reset, and    *)
(* nothing else of the contract has changed, the source and self-          *)
(* assignment included.  Between static packed arrays of different length  *)
(* or width it holds with the exceptions that CopiedRight states.          *)
AssignmentCopies ==
  \A before \in {ValueOf(storage)}, p, q \in Places :
    Assignable(p, q) =>
      \A after \in {ValueOf(AfterCopy(LValue(p), LValue(q)))} :
        \/ after = Put(before, p, Assigned(TypeAt(contract, p), At(before, p), At(before, q)))
        \/ /\ Inexact(TypeAt(contract, p), TypeAt(contract, q))
           /\ CopiedRight(before, after, LValue(p), LValue(q), p, q)

(* The same for arrays in memory or calldata, whatever follows them there  *)
(* and however dirty the words are: every element has the value its word   *)
(* stands for, because the next item and the rest of the slot are cleared  *)
(* after it.  Of a longer static array's rest, items of slots that were    *)
(* not written may be missed.                                              *)
MemoryAssignmentCopies ==
  \A before \in {ValueOf(storage)}, p \in ArraysAt :
    ValueType(TypeAt(contract, p).base) =>
      \A lv \in {LValue(p)}, m \in MemoryArrays(TypeAt(contract, p)) :
        \A after \in {ValueOf(CopyFromMemory(storage, lv.type, lv.slot, m.length, m.words))} :
          /\ after = Put(before, p, At(after, p))
          /\ Len(At(after, p)) = IF lv.type.dynamic THEN m.length ELSE lv.type.length
          /\ \A i \in DOMAIN At(after, p) :
               \/ i <= m.length /\ At(after, p)[i] = m.value[i]
               \/ i > m.length /\ At(after, p)[i] = ZeroWord
               \/ /\ i > m.length /\ At(after, p)[i] = At(before, p)[i]
                  /\ Missed(lv.type, CeilDiv(m.length, ItemsPerSlot(lv.type.base)), i)

(* A new length n keeps the elements that both lengths have, and the new   *)
(* elements that have slots of their own are zero.                         *)
ResizedRight(t, old, new, n) ==
  /\ Len(new) = n
  /\ \A i \in 1 .. n :
       \/ i <= Len(old) /\ new[i] = old[i]
       \/ i > Len(old) /\ (Packed(t.base) \/ new[i] = Initial(t.base))

(* ArrayUtils::resizeDynamicArray: a change of length, of a byte array     *)
(* between its two forms too, resizes the array and changes nothing else.  *)
ResizeKeepsElements ==
  \A before \in {ValueOf(storage)}, p \in DynamicAt :
   \A n \in 0 .. TypeAt(contract, p).length :
    \A after \in {ValueOf(AfterResize(LValue(p), n))} :
      /\ ResizedRight(TypeAt(contract, p), At(before, p), At(after, p), n)
      /\ after = Put(before, p, At(after, p))

(* The push member: the new element is the last one, and the others stay,  *)
(* whatever the word.                                                      *)
PushAppends ==
  \A before \in {ValueOf(storage)}, p \in DynamicAt :
    (ValueType(TypeAt(contract, p).base) /\ LengthAt(p) < TypeAt(contract, p).length) =>
      \A w \in Words(TypeAt(contract, p).base) :
        ValueOf(AfterPush(LValue(p), LengthAt(p), w))
          = Put(before, p, Append(At(before, p), Cleaned(TypeAt(contract, p).base, w)))

(* The elements that have a place in the data of the array at a, or, freed,*)
(* may ever have had one.  With packed items these are the same, because   *)
(* the clearing at the end of copyArrayToStorage resets only the first     *)
(* item of each slot.                                                      *)
DataLength(t, a, freed) ==
  CASE freed \/ (~t.byteArray /\ Packed(t.base)) -> t.length
    [] t.byteArray /\ RetrieveLength(storage, t, a) < SlotBytes -> 0
    [] OTHER -> RetrieveLength(storage, t, a)

(* The bytes of storage, as <<slot, byte>>, that the items of a variable   *)
(* take up or, freed, may ever have taken up.                              *)
RECURSIVE VariableBytes(_, _, _, _)
VariableBytes(t, a, offset, freed) ==
  CASE ValueType(t) -> {a} \X (offset .. offset + t.bytes - 1)
    [] t.category = "struct" ->
         UNION {VariableBytes(t.members[i], Plus(a, MemberOffsets(t)[i][1]), MemberOffsets(t)[i][2], freed) :
                i \in DOMAIN t.members}
    [] t.category = "mapping" -> UNION {VariableBytes(t.base, EntrySlot(a, k), 0, freed) : k \in Keys}
    [] t.byteArray ->
         {a} \X ByteNumbers \cup
         {Plus(DataSlot(a), k) : k \in 0 .. CeilDiv(DataLength(t, a, freed), SlotBytes) - 1} \X ByteNumbers
    [] OTHER ->
         (IF t.dynamic THEN {a} \X ByteNumbers ELSE {}) \cup
         UNION {VariableBytes(t.base, DataPlace(t, a, i)[1], DataPlace(t, a, i)[2], freed) :
                i \in 0 .. DataLength(t, a, freed) - 1}

(* What the tests call storageEmpty: deleting, shrinking and overwriting   *)
(* free the slots that held the old elements, so that no slot outside the  *)
(* present extent of the variables is left with a value.  Bytes that no    *)
(* item has, which dirty words may set, stay as they are.                  *)
NoOrphanSlots ==
  \A freed \in {VariableBytes(contract, Root, 0, TRUE)} :
    /\ DOMAIN storage \subseteq {x[1] : x \in freed}
    /\ \A present \in {{x[1] : x \in VariableBytes(contract, Root, 0, FALSE)}}, x \in freed :
         x[1] \in present \/ SLOAD(storage, x[1])[x[2]] = 0
===========================================================================
