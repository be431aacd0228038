------------------------- MODULE ConstantOptimiser -------------------------
(***************************************************************************)
(* libevmasm/ConstantOptimiser: the last pass of Assembly::optimise, which *)
(* replaces a constant by code that computes it, or copies it from the     *)
(* code's data, when that is estimated to be cheaper.                      *)
(*                                                                         *)
(* 0x100 and 0x10000 are one and two bytes, 8 is the width of a byte and   *)
(* 0x1ff, 0xff and 0x100 are gap patterns one bit wider than a byte; they  *)
(* are written for bytes of ByteBits bits.                                 *)
(***************************************************************************)
EXTENDS Evm, FiniteSets

CONSTANTS
    Constants,    \* the constants in the code
    Params,       \* isCreation and runs
    MaxPushes     \* bound: constants in the code

VARIABLES
    params,       \* those of this call
    original,     \* the items before the call
    items,        \* _items
    pending       \* the entries of pushes that the loop has not reached

vars == <<params, original, items, pending>>

\* The constants of the code in the map's order, with their multiplicities.
Multiplicity(code, v) == Cardinality({i \in DOMAIN code : code[i] = Push(v)})
Pushes(code) ==
    LET values == {code[i].n : i \in {j \in DOMAIN code : code[j].op = "PUSH"}} IN
    [i \in 1..Cardinality(values) |->
        LET v == CHOOSE x \in values : Cardinality({y \in values : y < x}) = i - 1 IN
        [value |-> v, times |-> Multiplicity(code, v)]]

Init ==
    /\ params \in Params
    /\ original \in UNION {[1..n -> {Push(v) : v \in Constants}] : n \in 1..MaxPushes}
    /\ items = original /\ pending = Pushes(original)

-----------------------------------------------------------------------------
(* Gas.                                                                    *)

BytesRequired(v) == Cardinality({i \in 0..(WordBytes - 1) : Base ^ i <= v})
Most(x, y) == IF x > y THEN x ELSE y
ItemBytes(item) == CASE item.op = "PUSH" -> 1 + Most(1, BytesRequired(item.n))
                     [] item.op = "PUSHDATA" -> 1 + 3
                     [] OTHER -> 1
RunGas(item) == CASE item.op = "EXP" -> 0
                  [] item.op = "PUSHDATA" -> 0
                  [] item.op = "MUL" -> 5
                  [] OTHER -> 3
Total(Cost(_), code) == FoldLeft(LAMBDA s, item : s + Cost(item), 0, code)

CreateDataGas == 200
TxDataNonZeroGas == 68
TxDataZeroGas == 4
ExpGas == 10 + 10
CopyGas == 3
ByteGas == IF params.isCreation THEN TxDataNonZeroGas ELSE CreateDataGas
DataGas(v, bytes) ==
    IF params.isCreation
    THEN FoldLeft(LAMBDA s, b : s + (IF b # 0 THEN TxDataNonZeroGas ELSE TxDataZeroGas), 0, bytes)
    ELSE CreateDataGas * Most(1, BytesRequired(v))
Compact(v) == SubSeq(Bytes(v), WordBytes + 1 - Most(1, BytesRequired(v)), WordBytes)
CombineGas(run, times, repeated, unique) == params.runs * run + times * repeated + unique

LiteralGas(v, times) == CombineGas(3, times, ByteGas + DataGas(v, Compact(v)), 0)

CopyRoutine(v) == <<Push(0), Dup(1), Op("MLOAD"), Push(WordBytes), Item("PUSHDATA", v),
                    Dup(4), Op("CODECOPY"), Dup(2), Op("MLOAD"), Swap(2), Op("MSTORE")>>
CodeCopyGas(v, times) ==
    CombineGas(Total(RunGas, CopyRoutine(v)) + CopyGas, times,
               Total(ItemBytes, CopyRoutine(v)) * ByteGas, DataGas(v, Bytes(v)))

ComputeGas(routine, times) ==
    LET exps == Cardinality({i \in DOMAIN routine : routine[i].op = "EXP"}) IN
    CombineGas(Total(RunGas, routine) + exps * ExpGas, times,
               Total(ItemBytes, routine) * ByteGas, 0)

-----------------------------------------------------------------------------
(* Computing a constant.                                                   *)

\* upper * 2^bits + lower, where lower may be negative.
Decomposition(v, bits) ==
    LET power == 2 ^ bits
        low == v % power IN
    [upper |-> v \div power, lower |-> IF Abs(power - low) < low THEN low - power ELSE low]
Gap(v, bits) ==
    (v \div 2 ^ (bits - ByteBits)) % 2 ^ (ByteBits + 1) \in {Base - 1, Base}
Worthwhile(v, bits) ==
    Gap(v, bits) /\ Abs(Decomposition(v, bits).lower) < 2 ^ (bits - ByteBits)

RECURSIVE FindRepresentation(_, _), Composed(_, _, _)
FindRepresentation(v, times) ==
    LET cheaper(routine, bits) ==
            IF ~Worthwhile(v, bits) THEN routine
            ELSE LET other == Composed(Decomposition(v, bits), bits, times) IN
                 IF ComputeGas(other, times) < ComputeGas(routine, times) THEN other
                 ELSE routine IN
    IF v < Base ^ 2 THEN <<Push(v)>>
    ELSE IF BytesRequired(Size - 1 - v) < BytesRequired(v)
    THEN FindRepresentation(Size - 1 - v, times) \o <<Op("NOT")>>
    ELSE FoldLeft(cheaper, <<Push(v)>>, [i \in 1..(Bits - 1 - ByteBits) |-> Bits - i])
Composed(d, bits, times) ==
    (IF d.lower = 0 THEN <<>> ELSE FindRepresentation(Abs(d.lower), times))
    \o <<Push(bits), Push(2), Op("EXP")>>
    \o (IF d.upper \in {0, 1} THEN <<>>
        ELSE FindRepresentation(d.upper, times) \o <<Op("MUL")>>)
    \o (IF d.lower > 0 THEN <<Op("ADD")>>
        ELSE IF d.lower < 0 THEN <<Op("SUB")>> ELSE <<>>)

-----------------------------------------------------------------------------
ReplaceConstants(v, routine) ==
    items' = FlattenSeq([i \in DOMAIN items |->
                           IF items[i] = Push(v) THEN routine ELSE <<items[i]>>])

\* One round of the loop of optimiseConstants.
NextConstant(v, times) ==
    /\ pending # <<>> /\ Head(pending) = [value |-> v, times |-> times]
    /\ pending' = Tail(pending)
    /\ UNCHANGED <<params, original>>
Cheapest(gas, g1, g2) == gas < g1 /\ gas < g2

Keep(v, times) ==
    LET compute == ComputeGas(FindRepresentation(v, times), times) IN
    /\ NextConstant(v, times)
    /\ \/ v < Base
       \/ /\ ~Cheapest(CodeCopyGas(v, times), LiteralGas(v, times), compute)
          /\ ~Cheapest(compute, LiteralGas(v, times), CodeCopyGas(v, times))
    /\ UNCHANGED items
Copy(v, times) ==
    /\ NextConstant(v, times) /\ v >= Base
    /\ Cheapest(CodeCopyGas(v, times), LiteralGas(v, times),
                ComputeGas(FindRepresentation(v, times), times))
    /\ ReplaceConstants(v, CopyRoutine(v))
Compute(v, times) ==
    \E routine \in {FindRepresentation(v, times)} :
      /\ NextConstant(v, times) /\ v >= Base
      /\ Cheapest(ComputeGas(routine, times), LiteralGas(v, times), CodeCopyGas(v, times))
      /\ ReplaceConstants(v, routine)

Next == \E v \in Constants, n \in 1..MaxPushes : Keep(v, n) \/ Copy(v, n) \/ Compute(v, n)
Spec == Init /\ [][Next]_vars

-----------------------------------------------------------------------------
(* Properties.                                                             *)

Machine == [stack |-> <<>>, storage |-> <<>>, memory |-> [k \in 0..(WordBytes - 1) |-> k % Base]]
After(code) == Run(Machine, code, [caller |-> 0])

\* The optimised items leave what the original ones do: the same constants on
\* the stack, and the memory as it was.
ConstantsPreserved == After(items) = After(original)
=============================================================================
