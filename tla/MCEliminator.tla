---------------------------- MODULE MCEliminator ----------------------------
(***************************************************************************)
(* The eliminator on words of two bytes of two bits: 16 values, 16 storage *)
(* slots, 16 bytes of memory.                                              *)
(***************************************************************************)
EXTENDS BasicBlock

MCHash(bytes) == FoldLeft(LAMBDA s, b : Wrap(7 * s + b + 3), Len(bytes), bytes)

\* Two starts: with different and with equal elements on the stack.
MCScenario == <<
    [stack |-> <<1, 0, 2, 1>>, storage |-> [k \in Word |-> (k * 5 + 3) % Size],
     memory |-> [k \in Word |-> (k * 3 + 1) % Base]],
    [stack |-> <<3, 3, 3, 2>>, storage |-> [k \in Word |-> k],
     memory |-> [k \in Word |-> k % Base]]>>
MCEnv == [caller |-> 7, gas |-> 9, created |-> 6, storage |-> [k \in Word |-> 2]]

Single(ops) == {<<Op(op)>> : op \in ops}
StackPhrases == {<<Push(0)>>, <<Push(2)>>, <<Dup(2)>>, <<Swap(1)>>}
\* Loads and stores that keep their operands; neighbouring addresses; hashes
\* of two words.
MemoryPhrases == {<<Push(1), Op("ADD")>>, <<Dup(1), Op("MLOAD")>>, <<Dup(1), Op("SLOAD")>>,
                  <<Dup(2), Dup(2), Op("MSTORE")>>, <<Dup(2), Dup(2), Op("SSTORE")>>,
                  <<Dup(2), Op("SLOAD"), Dup(2), Op("SSTORE")>>,
                  <<Push(4), Dup(2), Op("SHA3")>>}
WholeWords == StackPhrases \cup MemoryPhrases
              \cup Single({"POP", "SUB", "SSTORE", "MSTORE", "JUMPI", "CREATE", "MSTORE8",
                           "RETURN"})
=============================================================================
