------------------------------- MODULE Types --------------------------------
(***************************************************************************)
(* Conversions between types: which ones are accepted (ast/Types.cpp) and  *)
(* the code that carries them out (CompilerUtils::convertType).            *)
(*                                                                         *)
(* A type is a record with its category.  Numbers of the language that are *)
(* literals have the type RationalNumber with their value; fractional ones *)
(* and fixed point types, for which no code is generated yet, are left     *)
(* out.  Arrays have elements of value type.  Copying an array or a struct *)
(* to memory is part of convertType that is not modelled: of a reference   *)
(* type only its assertions are.                                           *)
(***************************************************************************)
EXTENDS Evm

CONSTANTS
    AddressWidth,                \* in bytes
    LinearizedBaseContracts      \* [contract -> sequence of contracts, itself first]

Integer(bytes, modifier) == [category |-> "Integer", bits |-> ByteBits * bytes, modifier |-> modifier]
Address == Integer(AddressWidth, "Address")
FixedBytes(bytes) == [category |-> "FixedBytes", bytes |-> bytes]
BoolType == [category |-> "Bool"]
Enum(name) == [category |-> "Enum", name |-> name]
Contract(name, super) == [category |-> "Contract", name |-> name, super |-> super]
RationalNumber(value) == [category |-> "RationalNumber", value |-> value]
StringLiteral(data) == [category |-> "StringLiteral", data |-> data]
\* A length of -1 is that of a dynamically-sized array.
Array(location, isPointer, kind, base, length) ==
    [category |-> "Array", location |-> location, isPointer |-> isPointer, kind |-> kind,
     base |-> base, length |-> length]
Struct(location, isPointer, name) ==
    [category |-> "Struct", location |-> location, isPointer |-> isPointer, name |-> name]

IsSigned(t) == t.modifier = "Signed"
IsAddress(t) == t.modifier = "Address"
IsByteArray(t) == t.kind # "Ordinary"
IsDynamicallySized(t) == t.length = -1
IsReference(t) == t.category \in {"Array", "Struct"}

-----------------------------------------------------------------------------
(* Literals.                                                               *)

BytesNeeded(value) == CHOOSE n \in 0..WordBytes : value < Base ^ n /\ (n = 0 \/ value >= Base ^ (n - 1))
BytesOfInteger(value) ==
    IF BytesNeeded(value) > 1 THEN BytesNeeded(value) ELSE 1
IntegerType(value) ==
    IF value < 0 THEN Integer(BytesOfInteger((-value - 1) * 2), "Signed")
    ELSE Integer(BytesOfInteger(value), "Unsigned")
LiteralValue(value) == Wrap(value)

CopyForLocation(t, location, isPointer) == [t EXCEPT !.location = location, !.isPointer = isPointer]
MobileType(t) ==
    CASE t.category = "RationalNumber" -> IntegerType(t.value)
      [] t.category = "StringLiteral" -> Array("Memory", TRUE, "String", FixedBytes(1), -1)
      [] IsReference(t) -> CopyForLocation(t, t.location, TRUE)
      [] OTHER -> t
ClosestTemporaryType(source, target) ==
    IF IsReference(target) /\ target.location = "Storage" THEN MobileType(source) ELSE target

-----------------------------------------------------------------------------
(* Implicit conversions.                                                   *)

IntegerConverts(s, t) ==
    /\ t.category = "Integer" /\ t.bits >= s.bits
    /\ IF IsAddress(s) THEN IsAddress(t)
       ELSE IF IsSigned(s) THEN IsSigned(t)
       ELSE ~IsSigned(t) \/ t.bits > s.bits

RationalConverts(s, t) ==
    CASE t.category = "Integer" ->
           LET forSignBit == IF IsSigned(t) THEN 1 ELSE 0 IN
           \/ s.value = 0
           \/ s.value > 0 /\ s.value <= (Size - 1) \div 2 ^ (Bits - t.bits + forSignBit)
           \/ s.value < 0 /\ IsSigned(t) /\ -s.value <= 2 ^ (t.bits - forSignBit)
      [] t.category = "FixedBytes" -> t.bytes * ByteBits >= IntegerType(s.value).bits
      [] OTHER -> FALSE

ContractConverts(s, t) ==
    \/ s = t
    \/ t.category = "Integer" /\ IsAddress(t)
    \/ /\ t.category = "Contract"
       /\ LET bases == LinearizedBaseContracts[s.name] IN
          \E i \in DOMAIN bases : bases[i] = t.name /\ (s.super => i > 1)

ValueConverts(s, t) ==
    CASE s.category = "Integer" -> IntegerConverts(s, t)
      [] s.category = "RationalNumber" -> RationalConverts(s, t)
      [] s.category = "FixedBytes" -> t.category = "FixedBytes" /\ t.bytes >= s.bytes
      [] s.category = "Contract" -> ContractConverts(s, t)
      [] OTHER -> s = t

\* Of references: only a reference that is copied can be given data of another
\* location, and calldata only comes from calldata.
LocationConverts(s, t) ==
    /\ ~(t.location = "Storage" /\ s.location # "Storage" /\ t.isPointer)
    /\ ~(t.location = "CallData" /\ s.location # t.location)
ArrayConverts(s, t) ==
    /\ t.category = "Array" /\ t.kind = s.kind
    /\ LocationConverts(s, t)
    /\ IF t.location = "Storage" /\ ~t.isPointer
       THEN /\ ValueConverts(s.base, t.base)
            /\ IsDynamicallySized(t) \/ (~IsDynamicallySized(s) /\ t.length >= s.length)
       ELSE s.base = t.base /\ s.length = t.length
StringLiteralConverts(s, t) ==
    \/ t.category = "FixedBytes" /\ t.bytes >= Len(s.data)
    \/ t.category = "Array" /\ IsByteArray(t) /\ ~(t.location = "Storage" /\ t.isPointer)

IsImplicitlyConvertibleTo(s, t) ==
    CASE s.category = "Array" -> ArrayConverts(s, t)
      [] s.category = "Struct" -> t.category = "Struct" /\ LocationConverts(s, t) /\ t.name = s.name
      [] s.category = "StringLiteral" -> StringLiteralConverts(s, t)
      [] OTHER -> ValueConverts(s, t)

-----------------------------------------------------------------------------
(* Explicit conversions, and the type in which two operands are combined.  *)

TypeConverts(s, t) ==
    CASE s.category = "Integer" -> t.category \in {"Integer", "Contract", "Enum", "FixedBytes"}
      [] s.category = "FixedBytes" -> t.category \in {"Integer", "Contract", "FixedBytes"}
      [] s.category = "Contract" -> IsImplicitlyConvertibleTo(s, t) \/ t.category \in {"Integer", "Contract"}
      [] s.category = "Enum" -> t.category \in {"Enum", "Integer"}
      [] s.category = "Array" ->
           \/ IsImplicitlyConvertibleTo(s, t)
           \/ t.category = "Array" /\ t.location = s.location /\ IsByteArray(s) /\ IsByteArray(t)
      [] OTHER -> IsImplicitlyConvertibleTo(s, t)
IsExplicitlyConvertibleTo(s, t) ==
    TypeConverts(IF s.category = "RationalNumber" THEN MobileType(s) ELSE s, t)

NoType == [category |-> "none"]
CommonType(a, b) ==
    IF IsImplicitlyConvertibleTo(b, a) THEN a
    ELSE IF IsImplicitlyConvertibleTo(a, b) THEN b ELSE NoType

\* The operators fall into the kinds compare, boolean, bit and arithmetic.
TypeCombines(a, kind, b) ==
    LET common == CommonType(a, b) IN
    CASE a.category = "Integer" /\ b.category \in {"Integer", "RationalNumber"} ->
           IF common = NoType \/ kind = "compare" THEN common
           ELSE IF kind = "boolean" \/ IsAddress(common) THEN NoType ELSE common
      [] a.category = "FixedBytes" ->
           IF common.category = "FixedBytes" /\ kind \in {"compare", "bit"} THEN common ELSE NoType
      [] a.category = "Bool" /\ b.category = "Bool" ->
           IF kind \in {"compare", "boolean"} THEN b ELSE NoType
      [] OTHER -> NoType
\* Of two literals only a comparison is left to the program.
BinaryOperatorResult(a, kind, b) ==
    IF a.category # "RationalNumber" THEN TypeCombines(a, kind, b)
    ELSE IF b.category = "Integer" THEN TypeCombines(MobileType(a), kind, b)
    ELSE IF b.category = "RationalNumber" /\ kind = "compare"
         THEN TypeCombines(MobileType(a), kind, MobileType(b))
    ELSE NoType

-----------------------------------------------------------------------------
(* The code of a conversion: an operation on the word on top of the stack. *)

CleanHigherOrderBits(t) ==
    IF t.bits = Bits THEN <<>>
    ELSE IF IsSigned(t) THEN <<Push(t.bits \div ByteBits - 1), Op("SIGNEXTEND")>>
    ELSE <<Push(2 ^ t.bits - 1), Op("AND")>>

\* Mutant: the clean-up is that of the target, when it widens too.
IntegerToIntegerLate(s, t, cleanupNeeded) ==
    IF t.bits > s.bits \/ cleanupNeeded THEN CleanHigherOrderBits(t) ELSE <<>>

\* Widening: by the source's width.  Otherwise, if forced: by the target's.
IntegerToInteger(s, t, cleanupNeeded) ==
    IF t.bits > s.bits THEN CleanHigherOrderBits(s)
    ELSE IF cleanupNeeded THEN CleanHigherOrderBits(t) ELSE <<>>

\* Bytes are aligned to the left, numbers to the right.  (The code also treats
\* bytes of length zero, a type that no name denotes.)
Alignment(bytes) == Push(Wrap(2 ^ (Bits - bytes * ByteBits)))
FixedBytesCode(s, t, cleanupNeeded) ==
    IF t.category = "Integer"
    THEN <<Alignment(s.bytes), Swap(1), Op("DIV")>>
         \o (IF t.bits < s.bytes * ByteBits
             THEN IntegerToInteger(Integer(s.bytes, "Unsigned"), t, cleanupNeeded) ELSE <<>>)
    ELSE IF t.bytes > s.bytes \/ cleanupNeeded
         THEN <<Push(2 ^ (Bits - s.bytes * ByteBits) - 1), Op("NOT"), Op("AND")>>
         ELSE <<>>

\* A contract counts as an address here, on both sides.
NumberOf(t) == IF t.category = "Contract" THEN Address ELSE t
NumberCode(s, t, cleanupNeeded) ==
    CASE t.category = "FixedBytes" ->
           (IF s.category = "Integer" /\ t.bytes * ByteBits > s.bits THEN CleanHigherOrderBits(s) ELSE <<>>)
           \o <<Alignment(t.bytes), Op("MUL")>>
      [] t.category = "Enum" ->
           IF s.category = "Integer" THEN IntegerToInteger(s, s, TRUE) ELSE <<>>
      [] s.category = "RationalNumber" ->
           IF NumberOf(t).bits < IntegerType(s.value).bits /\ cleanupNeeded
           THEN CleanHigherOrderBits(NumberOf(t)) ELSE <<>>
      [] OTHER -> IntegerToInteger(NumberOf(s), NumberOf(t), cleanupNeeded)

\* The word that holds the bytes of a literal, left-aligned.
StringWord(data) == WordOf([i \in 1..WordBytes |-> IF i <= Len(data) THEN data[i] ELSE 0])

\* Which conversions convertType has code for.
HasReferenceCode(s, t) ==
    /\ t.category = s.category
    /\ t.location = "Storage" =>
         /\ s.location = "Storage"
         /\ t.isPointer \/ (s.category = "Array" /\ IsByteArray(s) /\ IsByteArray(t))
    /\ t.location = "CallData" =>
         s.category = "Array" /\ s.location = "CallData" /\ IsByteArray(s) /\ IsByteArray(t)
HasCode(s, t) ==
    CASE s.category = "FixedBytes" -> t.category \in {"Integer", "FixedBytes"}
      [] s.category = "Enum" -> t.category \in {"Integer", "Enum"}
      [] s.category = "Integer" -> t.category \in {"FixedBytes", "Enum", "Integer", "Contract"}
      [] s.category = "RationalNumber" -> t.category \in {"FixedBytes", "Enum", "Integer", "Contract"}
      [] s.category = "Contract" -> t.category \in {"Integer", "Contract"}
      [] s.category = "StringLiteral" ->
           \/ t.category = "FixedBytes" /\ Len(s.data) <= WordBytes
           \/ t.category = "Array" /\ IsByteArray(t)
      [] IsReference(s) -> HasReferenceCode(s, t)
      [] OTHER -> s = t
\* No assertion of convertType fails.
Converts(s, t, cleanupNeeded) == (s = t /\ ~cleanupNeeded) \/ HasCode(s, t)

\* The code, of value types and literals.
ConvertType(s, t, cleanupNeeded) ==
    IF s = t /\ ~cleanupNeeded THEN <<>>
    ELSE CASE s.category = "FixedBytes" -> FixedBytesCode(s, t, cleanupNeeded)
           [] s.category \in {"Integer", "RationalNumber", "Contract"} -> NumberCode(s, t, cleanupNeeded)
           [] s.category = "StringLiteral" -> <<Push(StringWord(s.data))>>
           [] s.category = "Bool" /\ cleanupNeeded -> <<Op("ISZERO"), Op("ISZERO")>>
           [] OTHER -> <<>>
=============================================================================
