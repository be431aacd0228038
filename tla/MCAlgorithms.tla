---------------------------- MODULE MCAlgorithms ----------------------------
(***************************************************************************)
(* Algorithms of the compiler on all small inputs.  A behaviour is one     *)
(* input: a kind and a value; the invariants compare what the algorithm    *)
(* makes of it with a definition of what it is for.                        *)
(***************************************************************************)
EXTENDS ExpressionClasses, Assembly, Types

VARIABLES
    topic,        \* the algorithm
    input         \* its input, once it is chosen

vars == <<topic, input>>
Topics == {"rule", "assembly", "conversion"}
None == [kind |-> "none", value |-> 0]
Init == topic \in Topics /\ input = None
Asked(kind) == topic = kind /\ input = None
Given(value) == input' = [kind |-> topic, value |-> value] /\ UNCHANGED topic

MCHash(bytes) == 0

-----------------------------------------------------------------------------
(* Simplification rules: a rule and the values of its groups.              *)

RECURSIVE Groups(_), Value(_, _)
Groups(p) ==
    IF p.kind = "computed" THEN {}
    ELSE (IF p.group = "" THEN {} ELSE {p.group})
         \cup UNION {Groups(p.args[j]) : j \in DOMAIN p.args}

\* The value of a pattern on the machine; a computed constant is what the
\* optimiser puts in its place.
Value(p, v) ==
    IF p.group # "" THEN v[p.group]
    ELSE IF p.kind = "computed" THEN Fold(p.item.op, [j \in DOMAIN p.args |-> v[p.args[j]]])
    ELSE IF p.item.op = "PUSH" THEN p.item.n
    ELSE Eval(p.item.op, [j \in DOMAIN p.args |-> Value(p.args[j], v)])

\* Two groups and more take the words around the powers of two.
Corner == Word \cap {b + d : b \in {0, Size \div 4, Size \div 2, 3 * (Size \div 4), Size}, d \in -2..1}
Valuations(groups) == [groups -> IF Cardinality(groups) = 1 THEN Word ELSE Corner]
GivenRule ==
    /\ Asked("rule")
    /\ \E op \in Pure : \E number \in DOMAIN RulesFor[op] :
       \E val \in Valuations(Groups(RulesFor[op][number].lhs)) :
          Given([rule |-> RulesFor[op][number], val |-> val])

\* Both sides of every rule of Rules::Rules() have the same value.
RulesSound ==
    input.kind = "rule" =>
      Value(input.value.rule.lhs, input.value.val) = Value(input.value.rule.rhs, input.value.val)

-----------------------------------------------------------------------------
(* The assembler: an assembly whose size, and whose sub-assembly's size,   *)
(* go up to and beyond the numbers that fit into one and two bytes.        *)

PushTag(t) == Item("PUSHTAG", t)
Tag(t) == Item("TAG", t)
Sub(n) == <<Item("PUSHSUBSIZE", n), Item("PUSHSUB", n), Op("POP")>>
Padding(n) == [i \in 1..n |-> Op("STOP")]
NoData == [d \in {} |-> <<>>]
WithItems(items) == [items |-> items, usedTags |-> 3, data |-> NoData, subs |-> <<>>]
Leaf(n) == WithItems(<<PushTag(1), Item("PUSHLIB", "L"), Tag(1)>> \o Padding(n))
Middle == {<<>>, <<Item("PUSHLIB", "M")>>, <<Item("PUSHPROGRAMSIZE", 0), PushTag(0)>>, <<Item("PUSHDATA", 1)>>}
Outer(middle, n, m) ==
    [items |-> <<PushTag(2)>> \o Sub(0) \o middle \o Padding(n) \o <<Tag(2), Op("STOP")>>,
     usedTags |-> 3, data |-> (1 :> <<Digit(1), Digit(2)>>), subs |-> <<Leaf(m)>>]

GivenAssembly ==
    /\ Asked("assembly")
    /\ \E middle \in Middle, n \in 0..20, m \in 0..12 :
       \E a \in {Outer(middle, n, m), AppendAssembly(Outer(middle, n, m), Leaf(1))} : Given(a)

\* In the bytecode every reference to a tag, to data, to a sub-assembly, to a
\* library or to the size of the program is what the item stands for, and a
\* tag that does not exist leads to an invalid destination.
AssembledReferences == input.kind = "assembly" => ReferencesResolve(input.value)

MCAddresses == [lib \in {"L"} |-> <<Digit(3), Digit(1)>>]
\* Where the addresses of libraries belong: in the code of a, which begins at
\* start, and in that of its sub-assemblies.
OwnUses(a, code, start) ==
    {[lib |-> a.items[i].n, pos |-> start + PositionOf(code, i) + 1] :
       i \in {k \in DOMAIN a.items : a.items[k].op = "PUSHLIB"}}
LibraryUses(a, code) ==
    OwnUses(a, code, 0) \cup
    UNION {OwnUses(a.subs[a.items[i].n + 1], Assemble(a.subs[a.items[i].n + 1]).code,
                   NumberAt(code, PositionOf(code, i))) :
             i \in {k \in DOMAIN a.items : a.items[k].op = "PUSHSUB"}}
\* The places of missing addresses do not overlap, and link() fills in the
\* address of a library wherever it is used, in the code of a sub-assembly
\* too, and leaves the other libraries to be linked.
LinkedEverywhere ==
    input.kind = "assembly" =>
      \A obj \in {Assemble(input.value)} :
         /\ WellPlaced(obj)
         /\ \A use \in LibraryUses(input.value, obj.code) :
               LinkedAt(Link(obj, MCAddresses), MCAddresses, use.lib, use.pos)

-----------------------------------------------------------------------------
(* Conversions: a source and a target type.                                *)

MCBases == [c \in {"B", "D", "O"} |-> IF c = "D" THEN <<"D", "B">> ELSE <<c>>]

Integers == {Integer(n, m) : n \in 1..WordBytes, m \in {"Signed", "Unsigned"}} \cup {Address}
BytesTypes == {FixedBytes(n) : n \in 1..WordBytes}
Contracts == {Contract(c, FALSE) : c \in DOMAIN MCBases}
ValueTypes == Integers \cup BytesTypes \cup Contracts \cup {BoolType, Enum("E"), Enum("F")}
Literals == {RationalNumber(v) : v \in -(Size \div 2)..(Size - 1)}
Strings == {StringLiteral(s) : s \in SeqOf({0, 1, 3}, WordBytes + 1)}
Places == {<<"Storage", FALSE>>, <<"Storage", TRUE>>, <<"Memory", TRUE>>}
Arrays ==
    {Array(p[1], p[2], kind, FixedBytes(1), -1) : p \in Places \cup {<<"CallData", TRUE>>}, kind \in {"Bytes", "String"}}
    \cup {Array(p[1], p[2], "Ordinary", b, n) :
           p \in Places \cup {<<"CallData", TRUE>>},
           b \in {Integer(1, "Unsigned"), Integer(2, "Unsigned"), Contract("D", FALSE), Address}, n \in {-1, 1, 2}}
Structs == {Struct(p[1], p[2], name) : p \in Places, name \in {"P", "Q"}}
Sources == ValueTypes \cup {Contract("D", TRUE)} \cup Literals \cup Strings \cup Arrays \cup Structs
Targets == ValueTypes \cup Arrays \cup Structs

GivenConversion ==
    /\ Asked("conversion")
    /\ \E s \in Sources, t \in Targets : Given([source |-> s, target |-> t])

\* What a word on the stack means; the bits beyond the type's width are ignored.
Low(x, bits) == x % 2 ^ bits
AsSigned(x, bits) == IF x >= 2 ^ (bits - 1) THEN x - 2 ^ bits ELSE x
WidthOf(t) == IF t.category = "FixedBytes" THEN t.bytes * ByteBits
              ELSE IF t.category = "Enum" THEN Bits ELSE NumberOf(t).bits
Fitted(t, v) ==
    CASE t.category = "Bool" -> v
      [] t.category = "Integer" /\ IsSigned(t) -> AsSigned(Low(v, t.bits), t.bits)
      [] OTHER -> Low(v, WidthOf(t))
Meaning(t, word) ==
    CASE t.category = "Bool" -> IF word = 0 THEN 0 ELSE 1
      [] t.category = "FixedBytes" -> word \div 2 ^ (Bits - WidthOf(t))
      [] OTHER -> Fitted(t, word)
\* The word without ignored bits that means v.
Clean(t, v) == IF t.category = "FixedBytes" THEN v * 2 ^ (Bits - WidthOf(t)) ELSE Wrap(v)

\* The value of the target that a value of the source becomes: bytes keep
\* their first bytes, of a number the higher-order bits are cut off.
Becomes(s, t, v) ==
    CASE s.category = "FixedBytes" /\ t.category = "FixedBytes" -> Meaning(t, Clean(s, v))
      [] s.category = "StringLiteral" -> v * Base ^ (t.bytes - Len(s.data))
      [] OTHER -> Fitted(t, v)

\* The stacks that hold a value of the source, with the value.
Stacks(s) ==
    CASE s.category = "RationalNumber" -> {[stack |-> <<LiteralValue(s.value)>>, value |-> s.value]}
      [] s.category = "StringLiteral" -> {[stack |-> <<>>, value |-> WordOf(s.data)]}
      [] OTHER -> {[stack |-> <<w>>, value |-> Meaning(s, w)] : w \in Word}
ResultOf(s, t, cleanup, stack) ==
    Run([stack |-> stack, storage |-> <<>>, memory |-> <<>>], ConvertType(s, t, cleanup), <<>>).stack

KeepsValue(s, t, cleanups) ==
    \A from \in Stacks(s), cleanup \in cleanups :
       /\ Converts(s, t, cleanup)
       /\ \E r \in {ResultOf(s, t, cleanup, from.stack)} :
             Len(r) = 1 /\ Meaning(t, r[1]) = Becomes(s, t, from.value)
                        /\ (cleanup => r[1] = Clean(t, Becomes(s, t, from.value)))
LosesNothing(s, t) ==
    t.category # "FixedBytes" => \A from \in Stacks(s) : Becomes(s, t, from.value) = from.value

\* Explicit conversions that the type checker accepts and convertType does not
\* know: bytes to a contract.  A type in a conversion has the location of the
\* argument; of references only byte arrays are converted.
Supported(s, t) ==
    CASE IsReference(s) -> s.category = "Array" /\ IsByteArray(s) /\ IsReference(t) /\ t.location = s.location
      [] s.category = "FixedBytes" -> t.category # "Contract"
      [] OTHER -> ~IsReference(t)

ImplicitKeepsValue(s, t) ==
    IsImplicitlyConvertibleTo(s, t) =>
      IF IsReference(t) THEN Converts(s, ClosestTemporaryType(s, t), FALSE)
      ELSE KeepsValue(s, t, BOOLEAN) /\ LosesNothing(s, t)
ExplicitTruncates(s, t) ==
    IsExplicitlyConvertibleTo(s, t) /\ Supported(s, t) =>
      IF IsReference(t) THEN Converts(s, t, FALSE) ELSE KeepsValue(s, t, {FALSE})
LiteralFits(s, t) ==
    s.category = "RationalNumber" /\ t.category = "Integer" =>
      /\ IsImplicitlyConvertibleTo(s, t) <=> Fitted(t, s.value) = s.value
      /\ IsImplicitlyConvertibleTo(s, t) => t.bits >= MobileType(s).bits
OperandsFit(s, t) ==
    \A kind \in {"compare", "boolean", "bit", "arithmetic"} :
       LET common == BinaryOperatorResult(s, kind, t) IN
       common # NoType => IsImplicitlyConvertibleTo(s, common) /\ IsImplicitlyConvertibleTo(t, common)

\* An implicit conversion has code that leaves the same value, of whatever
\* width and with whatever bits beyond it; an explicit one cuts off
\* higher-order bits and nothing else; a literal converts to the integer types
\* that can hold it; both operands of an operator convert to its type.
ConversionsKeepValue ==
    input.kind = "conversion" =>
      LET s == input.value.source
          t == input.value.target IN
      ImplicitKeepsValue(s, t) /\ ExplicitTruncates(s, t) /\ LiteralFits(s, t) /\ OperandsFit(s, t)

Next == GivenRule \/ GivenAssembly \/ GivenConversion
Spec == Init /\ [][Next]_vars
=============================================================================
