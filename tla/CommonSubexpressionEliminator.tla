------------------- MODULE CommonSubexpressionEliminator -------------------
(***************************************************************************)
(* libevmasm/CommonSubexpressionEliminator and the loop of                 *)
(* Assembly::optimise that uses it on one basic block.                     *)
(*                                                                         *)
(* An eliminator is a record e: e.initial and e.known are m_initialState   *)
(* and m_state, e.stores is m_storeOperations.                             *)
(***************************************************************************)
EXTENDS CSECodeGenerator

Eliminator(s) == [initial |-> s, known |-> s, stores |-> <<>>]

\* breaksCSEAnalysisBlock.
Breaking(item) ==
    \/ item.op \in {"TAG", "GAS"}
    \/ /\ Operation(item) /\ item.op \notin {"DUP", "SWAP", "SSTORE", "MSTORE"}
       /\ Info(item.op).sideEffects \/ Info(item.op).args > 2

\* feedItem: a store operation is remembered.
FedState(e, s) ==
    [e EXCEPT !.known = s,
              !.stores = IF s.op = NoStore THEN e.stores ELSE Append(e.stores, s.op)]
FeedTo(e, item) == FedState(e, FeedItem(e.known, item))

\* The breaking item, and what has to be fed in front of it.
BreakWith(s, feed, item) == [s |-> s, feed |-> feed, item |-> item]
BreakJumpI(r, item, nz) ==
    LET s == [r.s EXCEPT !.cl = nz.cl] IN
    IF nz.holds THEN BreakWith(s, <<Swap(1), Op("POP")>>, <<Op("JUMP")>>)
    ELSE IF KnownZero(s.cl, r.id) THEN BreakWith(s, <<Op("POP"), Op("POP")>>, <<>>)
    ELSE BreakWith(s, <<>>, <<item>>)
BreakKnowing(r, item) ==
    IF item.op = "JUMPI" THEN BreakJumpI(r, item, KnownNonZero(r.s.cl, r.id))
    ELSE IF KnownZero(r.s.cl, r.id)
    THEN BreakWith(r.s, <<Op("POP"), Op("POP")>>, <<Op("STOP")>>)
    ELSE BreakWith(r.s, <<>>, <<item>>)
OptimizeBreakingItem(s, item) ==
    IF item.op \in {"JUMPI", "RETURN"} THEN BreakKnowing(StackElement(s, s.height - 1), item)
    ELSE BreakWith(s, <<>>, <<item>>)

\* The classes of all elements from minHeight to the top.
Contents(s, minHeight) ==
    LET add(acc, h, r) == [s |-> r.s, map |-> MapTo(acc.map, h, r.id)] IN
    Accumulated(LAMBDA acc, h : add(acc, h, StackElement(acc.s, h)),
             [s |-> s, map |-> NoMap],
             IF s.height < minHeight THEN <<>>
             ELSE [i \in 1..(s.height - minHeight + 1) |-> minHeight + i - 1])

\* The generator run from the initial state to m, in the classes of next.
Generate(e, from, to) ==
    GenerateCode(to.s.cl, e.stores, e.initial.seq, e.initial.height, from.map, to.map)
GenerateTo(e, from, m, minHeight) ==
    Generate(e, from, Contents([m EXCEPT !.cl = from.s.cl], minHeight))
GenerateFrom(e, m, next, minHeight) ==
    GenerateTo(e, Contents([e.initial EXCEPT !.cl = next.cl], minHeight), m, minHeight)

\* getOptimizedItems: the code for the chunk up to the known state m and the
\* breaking item, and the next state.
Generated(g, item, next) ==
    [items |-> g.items \o item, err |-> g.err, next |-> [next EXCEPT !.cl = g.cl]]
WithItem(e, m, next, item) ==
    Generated(GenerateFrom(e, m, next, Min({m.height + 1} \cup DOMAIN m.stack)), item, next)
BeforeItem(e, m, item) == WithItem(e, m, Accumulated(FeedItem, m, item), item)
AfterBreaking(e, b) == BeforeItem(e, Accumulated(FeedItem, b.s, b.feed), b.item)
GetOptimizedItems(e, breaking) ==
    AfterBreaking(e, IF breaking = <<>> THEN BreakWith(e.known, <<>>, <<>>)
                     ELSE OptimizeBreakingItem(e.known, breaking[1]))

\* Assembly::optimise replaces a chunk by what is generated if it is shorter.
Chosen(r, original) ==
    IF r.err = "none" /\ Len(r.items) < Len(original) THEN r.items ELSE original
=============================================================================
