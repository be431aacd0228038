---------------------------- MODULE MCOptimiser ----------------------------
(***************************************************************************)
(* Programs of an entry and three blocks with the tags 1, 2 and 3; they    *)
(* end with STOP, as the code that the compiler makes ends with a STOP,    *)
(* RETURN or JUMP.  One block may also end with the code.                  *)
(***************************************************************************)
EXTENDS AssemblyOptimiser

MCHash(bytes) == FoldLeft(LAMBDA s, b : Wrap(7 * s + b + 3), Len(bytes), bytes)
MCScenario == <<
    [stack |-> <<>>, storage |-> [k \in Word |-> (k * 5 + 3) % Size], memory |-> [k \in Word |-> 0]],
    [stack |-> <<>>, storage |-> [k \in Word |-> 0], memory |-> [k \in Word |-> 0]]>>
MCEnv == [caller |-> 7, gas |-> 9, created |-> 6, storage |-> [k \in Word |-> 2]]

PushTag(t) == Item("PUSHTAG", t)
Tag(t) == Item("TAG", t)
Load(k) == <<Push(k), Op("SLOAD")>>
SaveAs(k) == <<Push(k), Op("SSTORE")>>

\* Effects: a value is copied, a counter goes down, a stack element is put
\* below the return address, the hash of such an element is stored.
Effects == {Load(0) \o SaveAs(1),
            <<Push(1)>> \o Load(0) \o <<Op("SUB")>> \o SaveAs(0),
            <<Push(2), Swap(1)>>,
            <<Dup(2), Push(0), Op("MSTORE"), Push(2), Push(0), Op("SHA3")>> \o SaveAs(2)}
\* Endings: stop, fall through, jump, conditional jump, return to the tag on
\* the stack, call of the code at a tag.
Jump(t) == <<PushTag(t), Op("JUMP")>>
JumpIf(t) == Load(0) \o <<PushTag(t), Op("JUMPI")>>
Call(t, r) == <<PushTag(r), PushTag(t), Op("JUMP")>>
Endings == {<<Op("STOP")>>, <<>>, Jump(1), Jump(3), JumpIf(1), JumpIf(2), <<Op("JUMP")>>, Call(1, 3)}
Entries == {<<Push(3)>> \o Call(1, 2), JumpIf(2), <<Push(1), Push(2)>> \o JumpIf(3)}

Block(t, effect, ending) == <<Tag(t)>> \o effect \o ending
Programs ==
    {e \o Block(1, f[1], j[1]) \o Block(2, f[2], j[2]) \o Block(3, f[3], <<Op("STOP")>>) :
        e \in Entries, f \in Effects \X Effects \X {Load(0) \o SaveAs(1)}, j \in Endings \X Endings}
    \cup {<<Push(1)>> \o SaveAs(0)}
=============================================================================
