-------------------------------- MODULE Evm --------------------------------
(***************************************************************************)
(* The machine that the optimiser's code runs on, with a small word.       *)
(*                                                                         *)
(* A word has WordBytes bytes of ByteBits bits (32 and 8 in reality); the  *)
(* constants 31, 32, 62 and 128 of the optimiser are written in terms of   *)
(* WordBytes.  What the instructions do is external to the repository;     *)
(* their arguments and results are the table of libevmasm/Instruction.cpp. *)
(*                                                                         *)
(* An assembly item is [op, n]: n is the value of a PUSH, the depth of a   *)
(* DUP or SWAP, the number of a tag, the height of an UNDEFINED item.      *)
(***************************************************************************)
EXTENDS Integers, Sequences, SequencesExt, Accumulate

CONSTANTS
    WordBytes,
    ByteBits,
    MaxReach,     \* how deep DUP and SWAP reach (16)
    Hash(_)       \* sha3 of a sequence of bytes, as a word

Base == 2 ^ ByteBits
Size == Base ^ WordBytes
Word == 0..(Size - 1)
Byte == 0..(Base - 1)

Item(op, n) == [op |-> op, n |-> n]
Push(n) == Item("PUSH", n)
Op(op) == Item(op, 0)
Dup(n) == Item("DUP", n)
Swap(n) == Item("SWAP", n)
NonOperation == {"PUSH", "PUSHTAG", "PUSHDATA", "TAG", "UNDEFINED"}

\* Arguments, results and side effects of an instruction.
Binary == {"ADD", "SUB", "MUL", "DIV", "SDIV", "MOD", "SMOD", "EXP", "LT", "GT", "SLT",
           "SGT", "EQ", "AND", "OR", "XOR", "BYTE", "SIGNEXTEND"}
Unary == {"NOT", "ISZERO"}
Ternary == {"ADDMOD", "MULMOD"}
Pure == Binary \cup Unary \cup Ternary
Info(op) ==
    CASE op \in Binary \cup {"SHA3"} -> [args |-> 2, ret |-> 1, sideEffects |-> FALSE]
      [] op \in Unary \cup {"SLOAD", "MLOAD", "CALLDATALOAD"} ->
                                        [args |-> 1, ret |-> 1, sideEffects |-> FALSE]
      [] op \in Ternary              -> [args |-> 3, ret |-> 1, sideEffects |-> FALSE]
      [] op \in {"CALLER", "CALLVALUE", "CALLDATASIZE"} ->
                                        [args |-> 0, ret |-> 1, sideEffects |-> FALSE]
      [] op = "POP"                  -> [args |-> 1, ret |-> 0, sideEffects |-> FALSE]
      [] op = "GAS"                  -> [args |-> 0, ret |-> 1, sideEffects |-> FALSE]
      [] op \in {"SSTORE", "MSTORE", "MSTORE8", "JUMPI", "RETURN"} ->
                                        [args |-> 2, ret |-> 0, sideEffects |-> TRUE]
      [] op = "JUMP"                 -> [args |-> 1, ret |-> 0, sideEffects |-> TRUE]
      [] op = "STOP"                 -> [args |-> 0, ret |-> 0, sideEffects |-> TRUE]
      [] op = "CODECOPY"             -> [args |-> 3, ret |-> 0, sideEffects |-> TRUE]
      [] op = "CREATE"               -> [args |-> 3, ret |-> 1, sideEffects |-> TRUE]

\* AssemblyItem::deposit().
Deposit(item) ==
    IF item.op \in {"PUSH", "PUSHTAG", "PUSHDATA", "DUP"} THEN 1
    ELSE IF item.op \in {"TAG", "SWAP"} THEN 0
    ELSE Info(item.op).ret - Info(item.op).args

-----------------------------------------------------------------------------
(* Arithmetic.                                                             *)

Signed(x) == IF x < Size \div 2 THEN x ELSE x - Size
Wrap(x) == x % Size
Bool(b) == IF b THEN 1 ELSE 0
Abs(x) == IF x < 0 THEN -x ELSE x
Bits == WordBytes * ByteBits
Bit(x, i) == (x \div 2 ^ i) % 2

\* Quotient rounded towards zero, and the remainder that goes with it.
Quotient(x, y) == IF (x < 0) = (y < 0) THEN Abs(x) \div Abs(y) ELSE -(Abs(x) \div Abs(y))
Remainder(x, y) == x - y * Quotient(x, y)

\* The word whose bits satisfy P.
FromBits(P(_)) == Accumulated(LAMBDA s, i : s + (IF P(i - 1) THEN 2 ^ (i - 1) ELSE 0), 0,
                           [i \in 1..Bits |-> i])

\* What a pure instruction computes; a[1] is the top of the stack.
Eval(op, a) ==
    CASE op = "ADD" -> Wrap(a[1] + a[2])
      [] op = "SUB" -> Wrap(a[1] - a[2])
      [] op = "MUL" -> Wrap(a[1] * a[2])
      [] op = "DIV" -> IF a[2] = 0 THEN 0 ELSE a[1] \div a[2]
      [] op = "MOD" -> IF a[2] = 0 THEN 0 ELSE a[1] % a[2]
      [] op = "SDIV" -> IF a[2] = 0 THEN 0 ELSE Wrap(Quotient(Signed(a[1]), Signed(a[2])))
      [] op = "SMOD" -> IF a[2] = 0 THEN 0 ELSE Wrap(Remainder(Signed(a[1]), Signed(a[2])))
      [] op = "EXP" -> Accumulated(LAMBDA p, i : Wrap(p * a[1]), 1, [i \in 1..a[2] |-> i])
      [] op = "NOT" -> FromBits(LAMBDA i : Bit(a[1], i) = 0)
      [] op = "LT" -> Bool(a[1] < a[2])
      [] op = "GT" -> Bool(a[1] > a[2])
      [] op = "SLT" -> Bool(Signed(a[1]) < Signed(a[2]))
      [] op = "SGT" -> Bool(Signed(a[1]) > Signed(a[2]))
      [] op = "EQ" -> Bool(a[1] = a[2])
      [] op = "ISZERO" -> Bool(a[1] = 0)
      [] op = "AND" -> FromBits(LAMBDA i : Bit(a[1], i) = 1 /\ Bit(a[2], i) = 1)
      [] op = "OR" -> FromBits(LAMBDA i : Bit(a[1], i) = 1 \/ Bit(a[2], i) = 1)
      [] op = "XOR" -> FromBits(LAMBDA i : Bit(a[1], i) # Bit(a[2], i))
      [] op = "BYTE" -> IF a[1] >= WordBytes THEN 0
                        ELSE (a[2] \div Base ^ (WordBytes - 1 - a[1])) % Base
      [] op = "ADDMOD" -> IF a[3] = 0 THEN 0 ELSE (a[1] + a[2]) % a[3]
      [] op = "MULMOD" -> IF a[3] = 0 THEN 0 ELSE (a[1] * a[2]) % a[3]
      [] op = "SIGNEXTEND" ->
           IF a[1] >= WordBytes THEN a[2]
           ELSE LET t == ByteBits * (a[1] + 1) - 1 IN
                FromBits(LAMBDA i : Bit(a[2], IF i < t THEN i ELSE t) = 1)

-----------------------------------------------------------------------------
(* The machine: stack (top last), storage, memory.                         *)

Bytes(x) == [i \in 1..WordBytes |-> (x \div Base ^ (WordBytes - i)) % Base]
WordOf(bytes) == Accumulated(LAMBDA s, b : Base * s + b, 0, bytes)
Read(memory, start, length) == [i \in 1..length |-> memory[Wrap(start + i - 1)]]
LoadWord(memory, start) == WordOf(Read(memory, start, WordBytes))
StoreWord(memory, start, x) ==
    [k \in DOMAIN memory |-> LET i == Wrap(k - start) IN
                              IF i < WordBytes THEN Bytes(x)[i + 1] ELSE memory[k]]

Top(m, i) == m.stack[Len(m.stack) - i]      \* i = 0 is the top
Operands(m, k) == [i \in 1..k |-> Top(m, i - 1)]
Popped(m, k) == SubSeq(m.stack, 1, Len(m.stack) - k)

\* The position of a tag in the code, as a number that no other item pushes.
TagValue(n) == Size \div 2 + n

\* env.caller and env.gas are the environment's answers; a call of other
\* code (CREATE) leaves the storage env.storage and the result env.created.
\* A word of data in the code is addressed by its contents, so CODECOPY of
\* one word is a store of its second argument.
Exec(m, item, env) ==
    LET a == Operands(m, Info(item.op).args)
        rest == Popped(m, Info(item.op).args)
        value(x) == [m EXCEPT !.stack = Append(rest, x)] IN
    CASE item.op \in {"PUSH", "PUSHDATA"} -> [m EXCEPT !.stack = Append(m.stack, item.n)]
      [] item.op = "PUSHTAG" -> [m EXCEPT !.stack = Append(m.stack, TagValue(item.n))]
      [] item.op = "TAG" -> m
      [] item.op = "DUP" -> [m EXCEPT !.stack = Append(m.stack, Top(m, item.n - 1))]
      [] item.op = "SWAP" -> [m EXCEPT !.stack = [i \in DOMAIN m.stack |->
             IF i = Len(m.stack) THEN Top(m, item.n)
             ELSE IF i = Len(m.stack) - item.n THEN Top(m, 0) ELSE m.stack[i]]]
      [] item.op \in Pure -> value(Eval(item.op, a))
      [] item.op = "SLOAD" -> value(m.storage[a[1]])
      [] item.op = "MLOAD" -> value(LoadWord(m.memory, a[1]))
      [] item.op = "SHA3" -> value(Hash(Read(m.memory, a[1], a[2])))
      [] item.op = "CALLER" -> value(env.caller)
      [] item.op = "GAS" -> value(env.gas)
      [] item.op = "CALLVALUE" -> value(env.value)
      [] item.op = "CALLDATASIZE" -> value(Len(env.calldata))
      [] item.op = "CALLDATALOAD" -> value(WordOf([i \in 1..WordBytes |->
             IF a[1] + i <= Len(env.calldata) THEN env.calldata[a[1] + i] ELSE 0]))
      [] item.op = "SSTORE" -> [stack |-> rest, memory |-> m.memory,
                                storage |-> [m.storage EXCEPT ![a[1]] = a[2]]]
      [] item.op = "MSTORE" -> [stack |-> rest, storage |-> m.storage,
                                memory |-> StoreWord(m.memory, a[1], a[2])]
      [] item.op = "CODECOPY" -> [stack |-> rest, storage |-> m.storage,
                                  memory |-> StoreWord(m.memory, a[1], a[2])]
      [] item.op = "MSTORE8" -> [stack |-> rest, storage |-> m.storage,
                                 memory |-> [m.memory EXCEPT ![a[1]] = a[2] % Base]]
      [] item.op = "CREATE" -> [stack |-> Append(rest, env.created), memory |-> m.memory,
                                storage |-> env.storage]
      [] OTHER -> [m EXCEPT !.stack = rest]     \* POP and the items that end a block

\* How many elements of the stack an item looks at.
Reaches(item) == CASE item.op = "DUP" -> item.n
                   [] item.op = "SWAP" -> item.n + 1
                   [] item.op \in NonOperation -> 0
                   [] OTHER -> Info(item.op).args

\* There are MaxReach instructions DUP, and as many SWAP.
Exists(item) == item.op \in {"DUP", "SWAP"} => item.n \in 1..MaxReach

\* A sequence without jumps.  An instruction that does not exist loses all.
Crashed == [stack |-> <<>>, storage |-> <<>>, memory |-> <<>>]
Run(m, items, env) ==
    IF \A i \in DOMAIN items : Exists(items[i])
    THEN Accumulated(LAMBDA s, item : Exec(s, item, env), m, items) ELSE Crashed

-----------------------------------------------------------------------------
(* A program with jumps.  A configuration is a machine, the position of    *)
(* the next item and a status; a program that runs longer than fuel steps  *)
(* is left running.                                                        *)

Jumped(items, c, m, target) ==
    LET dest == {i \in DOMAIN items : items[i].op = "TAG" /\ TagValue(items[i].n) = target} IN
    IF dest = {} THEN [c EXCEPT !.status = "bad jump"]
    ELSE [c EXCEPT !.m = m, !.pc = CHOOSE i \in dest : TRUE]
StepItem(items, c, item, env) ==
    CASE ~Exists(item) -> [c EXCEPT !.status = "bad instruction"]
      [] Exists(item) /\ Len(c.m.stack) < Reaches(item) -> [c EXCEPT !.status = "underflow"]
      [] item.op = "STOP" -> [c EXCEPT !.status = "stop"]
      [] item.op = "RETURN" -> [c EXCEPT !.status = "stop",
                                         !.data = Read(c.m.memory, Top(c.m, 0), Top(c.m, 1))]
      [] item.op = "JUMP" -> Jumped(items, c, Exec(c.m, item, env), Top(c.m, 0))
      [] item.op = "JUMPI" /\ Top(c.m, 1) # 0 -> Jumped(items, c, Exec(c.m, item, env), Top(c.m, 0))
      [] OTHER -> [c EXCEPT !.m = Exec(c.m, item, env), !.pc = c.pc + 1]
Step(items, c, env) ==
    IF c.status # "running" THEN c
    ELSE IF c.pc > Len(items) THEN [c EXCEPT !.status = "stop"]
    ELSE StepItem(items, c, items[c.pc], env)
Execute(items, m, env, fuel) ==
    Accumulated(LAMBDA c, i : Step(items, c, env),
             [m |-> m, pc |-> 1, status |-> "running", data |-> <<>>], [i \in 1..fuel |-> i])
=============================================================================
