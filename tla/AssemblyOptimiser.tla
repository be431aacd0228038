------------------------- MODULE AssemblyOptimiser -------------------------
(***************************************************************************)
(* Assembly::optimise: equal blocks are merged, the control flow graph is  *)
(* built and searched for what is known at the start of every block, every *)
(* block is rewritten by the eliminator, and all this is repeated as long  *)
(* as something changes.                                                   *)
(***************************************************************************)
EXTENDS CommonSubexpressionEliminator, BlockDeduplicator

CONSTANTS
    Program,          \* sequences of assembly items
    JoinKnowledge,    \* the values of m_joinKnowledge: FALSE in optimise(), TRUE in the
                      \* gas estimator and the tests
    Scenario,         \* machine states the program is started in
    Env,
    Fuel              \* bound: steps of an execution

VARIABLES
    original,     \* the program before optimise()
    join,
    items,        \* m_items
    phase,        \* where optimise() is
    graph,        \* the ControlFlowGraph
    rewriting,    \* the loop over the blocks: those left, the code so far, the eliminator
    changed,      \* count > 0
    failure

vars == <<original, join, items, phase, graph, rewriting, changed, failure>>

NoGraph == [blocks |-> NoMap, queue |-> <<>>, unknown |-> FALSE, cl |-> NoClasses]
NoRewriting == [todo |-> <<>>, out |-> <<>>, count |-> FALSE, cl |-> NoClasses, eliminator |-> <<>>]

Init ==
    /\ original \in Program /\ items = original
    /\ join \in JoinKnowledge
    /\ phase = "deduplicate" /\ graph = NoGraph /\ rewriting = NoRewriting
    /\ changed = FALSE /\ failure = "none"

\* One iteration of deduplicate().
Deduplicate ==
    /\ phase = "deduplicate"
    /\ items' = Deduplicated(items)
    /\ changed' = (changed \/ items' # items)
    /\ phase' = IF items' # items THEN phase ELSE "split"
    /\ UNCHANGED <<original, join, graph, rewriting, failure>>

Fails(exception) ==
    /\ failure' = exception /\ phase' = "failed"
    /\ UNCHANGED <<original, join, items, graph, rewriting, changed>>

\* optimisedBlocks up to setPrevLinks.
Split ==
    /\ phase = "split"
    /\ \E blocks \in {SplitBlocks(items)} :
         IF ~SuccessorsFound(blocks) THEN Fails("OptimizerException")
         ELSE \E linked \in {Linked(items, blocks)} :
                IF ~linked.holds THEN Fails("OptimizerException")
                ELSE /\ graph' = Graph(linked.blocks) /\ phase' = "gather"
                     /\ UNCHANGED <<original, join, items, rewriting, changed, failure>>

\* One round of the loop of gatherKnowledge.
Gather ==
    /\ phase = "gather" /\ graph.queue # <<>>
    /\ IF ~Enterable(items, graph) THEN Fails("OptimizerException")
       ELSE /\ graph' = Visit(items, graph, join)
            /\ UNCHANGED <<original, join, items, phase, rewriting, changed, failure>>

\* The end of gatherKnowledge, and rebuildCode: the blocks to be rewritten.
StartRewriting ==
    /\ phase = "gather" /\ graph.queue = <<>>
    /\ \E blocks \in {Visited(graph.blocks)} :
         IF ~LinksIntact(blocks) THEN Fails("out_of_range")
         ELSE /\ phase' = "rewrite"
              /\ rewriting' = [todo |-> RebuildCode(items, blocks), out |-> <<>>, count |-> FALSE,
                               cl |-> graph.cl, eliminator |-> <<>>]
              /\ graph' = NoGraph
              /\ UNCHANGED <<original, join, items, changed, failure>>

\* The items up to and with the first one that breaks the analysis.
NextChunk(body) ==
    LET breaks == {i \in DOMAIN body : Breaking(body[i])} IN
    SubSeq(body, 1, IF breaks = {} THEN Len(body) ELSE Min(breaks))
Optimised(e, chunk) ==
    IF Breaking(Last(chunk)) THEN GetOptimizedItems(Accumulated(FeedTo, e, Front(chunk)), <<Last(chunk)>>)
    ELSE GetOptimizedItems(Accumulated(FeedTo, e, chunk), <<>>)

\* The next chunk of the block is replaced by what the eliminator makes of it
\* (r), if that is shorter.
ReplaceChunk(chunk, block, r) ==
    LET next == [block EXCEPT !.begin = @ + Len(chunk)]
        ends == next.begin = next.end IN
    rewriting' = [todo |-> IF ends THEN Tail(rewriting.todo) ELSE <<next>> \o Tail(rewriting.todo),
                  out |-> rewriting.out \o Chosen(r, chunk),
                  count |-> rewriting.count \/ Chosen(r, chunk) # chunk,
                  cl |-> r.next.cl,
                  eliminator |-> IF ends THEN <<>> ELSE <<r.next>>]
RewriteChunk ==
    /\ phase = "rewrite" /\ rewriting.todo # <<>>
    /\ \E block \in {Head(rewriting.todo)} :
       \E start \in {IF rewriting.eliminator # <<>> THEN rewriting.eliminator[1]
                     ELSE [block.start[1] EXCEPT !.cl = rewriting.cl]} :
       \E chunk \in {NextChunk(BodyOf(items, block))} :
       \E r \in {Optimised(Eliminator(start), chunk)} :
         IF r.err = "OptimizerException" THEN Fails(r.err)
         ELSE /\ ReplaceChunk(chunk, block, r)
              /\ UNCHANGED <<original, join, items, phase, graph, changed, failure>>

\* The new code is taken if it is shorter; once more if something changed.
Accept ==
    LET shorter == Len(rewriting.out) < Len(items) IN
    /\ phase = "rewrite" /\ rewriting.todo = <<>>
    /\ items' = IF shorter THEN rewriting.out ELSE items
    /\ phase' = IF changed \/ rewriting.count \/ shorter THEN "deduplicate" ELSE "done"
    /\ changed' = FALSE /\ rewriting' = NoRewriting
    /\ UNCHANGED <<original, join, graph, failure>>

Ended == phase \in {"done", "failed"}
Finished == Ended /\ UNCHANGED vars

Next == Deduplicate \/ Split \/ Gather \/ StartRewriting \/ RewriteChunk \/ Accept \/ Finished

\* optimise() runs in one thread until it ends: weak fairness of Next.  A step
\* other than Finished is possible as long as it has not ended, so ~Ended
\* stands for ENABLED <<Next>>_vars.
Fairness == []<>Ended \/ []<><<Next>>_vars
Spec == Init /\ [][Next]_vars /\ Fairness

-----------------------------------------------------------------------------
(* Properties.                                                             *)

\* What can be observed of a run: how it ends, and unless it fails, what it
\* returns and leaves in the storage.
Observed(c) ==
    IF c.status = "stop" THEN <<c.status, c.data, c.m.storage>> ELSE <<c.status>>

\* The optimised program does what the original one does, on every path
\* through its blocks, for programs that come to an end and keep to their
\* stack.
OptimisedProgramEquivalent ==
    phase = "done" =>
      \A i \in DOMAIN Scenario :
        LET before == Execute(original, Scenario[i], Env, Fuel)
            after == Execute(items, Scenario[i], Env, Fuel) IN
        before.status \in {"stop", "bad jump"} => Observed(after) = Observed(before)

\* No assertion of the graph or of the code generator fails: each block that
\* goes on has a successor, no two blocks have the same one, a jump that is
\* removed takes the last pushed tag with it, blocks end where their control
\* flow does, and the generator finds all it has to produce.  Only the
\* assertions that tags and ids are numbers below 2^32 - 2 are left out.
NoAssertionFailure == failure # "OptimizerException"

\* rebuildCode finds every block that it is led to.
PredecessorsPresent == failure # "out_of_range"

\* The loops over tags, over blocks whose knowledge changes, and over whole
\* optimisation rounds come to an end.
OptimiseEnds == <>Ended
=============================================================================
