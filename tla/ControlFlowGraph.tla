-------------------------- MODULE ControlFlowGraph --------------------------
(***************************************************************************)
(* libevmasm/ControlFlowGraph: the basic blocks of a sequence of items,    *)
(* what is known at the start of each, and the code put together from the  *)
(* blocks that are reachable.                                              *)
(*                                                                         *)
(* blocks maps the id of a block (its tag, a new number if it has none,    *)
(* Initial for the first) to a record: the items from begin up to, not     *)
(* including, end; the tags it pushes; how it ends; the block that follows *)
(* and the one that precedes; the known states at its start (none or one)  *)
(* and at its end.  The states share their classes, which are kept apart.  *)
(***************************************************************************)
EXTENDS KnownState

Initial == 1000                   \* larger than every tag
Invalid == 1001

NewBlock(begin) == [begin |-> begin, end |-> begin, pushed |-> <<>>, endType |-> "HANDOVER",
                    next |-> Invalid, prev |-> Invalid, start |-> <<>>, endState |-> <<>>]

IsTag(item) == item.op = "TAG"
IsPushTag(item) == item.op = "PUSHTAG"
EndTypeOf(op) == IF op \in {"JUMP", "JUMPI"} THEN op ELSE "STOP"
AltersControlFlow(item) == item.op \in {"JUMP", "JUMPI", "RETURN", "STOP"}

FindLargestTag(items) ==
    Max({0} \cup {items[i].n : i \in {k \in DOMAIN items : IsTag(items[k]) \/ IsPushTag(items[k])}})

\* splitBlocks: one item after the other; id is the block it belongs to.
\* A block that ends in front of a tag keeps the end it has.
Opened(g, item, i) ==
    LET closed == IF IsTag(item) /\ g.id # Invalid
                  THEN [g EXCEPT !.blocks[g.id].end = i, !.id = Invalid] ELSE g
        id == IF IsTag(item) THEN item.n ELSE g.last + 1 IN
    IF closed.id # Invalid THEN closed
    ELSE [closed EXCEPT !.id = id,
                        !.last = IF IsTag(item) THEN @ ELSE id,
                        !.blocks = MapTo(@, id, IF id \in DOMAIN @ THEN [@[id] EXCEPT !.begin = i]
                                                ELSE NewBlock(i))]
\* Mutant: the tags of a block are listed in the wrong order.
FilledFront(g, item, i) ==
    LET b == g.blocks[g.id]
        pushing == [b EXCEPT !.pushed = IF IsPushTag(item) THEN <<item.n>> \o @ ELSE @] IN
    IF AltersControlFlow(item)
    THEN [g EXCEPT !.blocks[g.id] = [pushing EXCEPT !.end = i + 1, !.endType = EndTypeOf(item.op)],
                   !.id = Invalid]
    ELSE [g EXCEPT !.blocks[g.id] = pushing]

Filled(g, item, i) ==
    LET b == g.blocks[g.id]
        pushing == [b EXCEPT !.pushed = IF IsPushTag(item) THEN Append(@, item.n) ELSE @] IN
    IF AltersControlFlow(item)
    THEN [g EXCEPT !.blocks[g.id] = [pushing EXCEPT !.end = i + 1, !.endType = EndTypeOf(item.op)],
                   !.id = Invalid]
    ELSE [g EXCEPT !.blocks[g.id] = pushing]

Completed(g, items) ==
    IF g.id = Invalid THEN g.blocks
    ELSE [g.blocks EXCEPT ![g.id].end = Len(items) + 1,
                          ![g.id].endType = IF @ = "HANDOVER" THEN "STOP" ELSE @]
SplitBlocks(items) ==
    Completed(Accumulated(LAMBDA g, i : Filled(Opened(g, items[i], i), items[i], i),
                       [blocks |-> (Initial :> NewBlock(1)), id |-> Initial,
                        last |-> FindLargestTag(items)],
                       [i \in DOMAIN items |-> i]),
              items)

\* A block without an unconditional end goes on in the block behind it.
GoesOn(block) == block.endType \in {"JUMPI", "HANDOVER"}
BeginningAt(blocks, pos) ==
    {id \in DOMAIN blocks : blocks[id].begin = pos /\ blocks[id].begin # blocks[id].end}
SuccessorsFound(blocks) ==
    \A id \in DOMAIN blocks : GoesOn(blocks[id]) => BeginningAt(blocks, blocks[id].end) # {}
ResolveNextLinks(blocks) ==
    [id \in DOMAIN blocks |->
        IF GoesOn(blocks[id])
        THEN [blocks[id] EXCEPT !.next = Max(BeginningAt(blocks, blocks[id].end))]
        ELSE blocks[id]]

\* The blocks that are followed by, or whose tags are pushed by, needed ones.
Mentioned(blocks, id) == (ToSet(blocks[id].pushed) \cup {blocks[id].next}) \cap DOMAIN blocks
NeededBlocks(blocks) ==
    Accumulated(LAMBDA needed, i : needed \cup UNION {Mentioned(blocks, id) : id \in needed},
             {Initial}, [i \in 1..Cardinality(DOMAIN blocks) |-> i])
RemoveUnusedBlocks(blocks) == Restricted(blocks, NeededBlocks(blocks))

\* "Successor already has predecessor."
PredecessorsDistinct(blocks) ==
    \A a, b \in DOMAIN blocks :
        GoesOn(blocks[a]) /\ GoesOn(blocks[b]) /\ blocks[a].next = blocks[b].next => a = b
LinkFollowers(blocks) ==
    [id \in DOMAIN blocks |->
        LET before == {b \in DOMAIN blocks : GoesOn(blocks[b]) /\ blocks[b].next = id} IN
        [blocks[id] EXCEPT !.prev = IF before = {} THEN Invalid ELSE CHOOSE b \in before : TRUE]]

\* The blocks that follow id, without a jump, up to the end of the program.
Chain(blocks, id) ==
    Accumulated(LAMBDA seen, i : seen \cup {blocks[b].next : b \in seen \cap DOMAIN blocks},
             {id}, [i \in 1..Cardinality(DOMAIN blocks) |-> i]) \cap DOMAIN blocks

\* A block that ends with a jump to a block nobody precedes is put in front
\* of that block, without its last two items, the push and the jump.
JumpsTo(items, block) ==
    IF block.endType = "JUMP" /\ block.end - block.begin >= 2 /\ IsPushTag(items[block.end - 2])
    THEN {items[block.end - 2].n} ELSE {}
\* "Last pushed tag not at end of pushed list."
PushedLast(block, to) == block.pushed # <<>> /\ Last(block.pushed) = to

\* setPrevLinks: the blocks linked so far, and whether all assertions held.
LinkTo(r, id, to) ==
    IF ~PushedLast(r.blocks[id], to) THEN [r EXCEPT !.holds = FALSE]
    ELSE [r EXCEPT !.blocks[to].prev = id,
                   !.blocks[id] = [@ EXCEPT !.next = to, !.end = @ - 2, !.endType = "HANDOVER",
                                            !.pushed = Front(@)]]
LinkJump(items, r, id) ==
    LET free == {to \in JumpsTo(items, r.blocks[id]) \cap DOMAIN r.blocks :
                    r.blocks[to].prev = Invalid /\ id \notin Chain(r.blocks, to)} IN
    IF free = {} THEN r ELSE LinkTo(r, id, CHOOSE to \in free : TRUE)
SetPrevLinks(items, blocks) ==
    Accumulated(LAMBDA r, id : LinkJump(items, r, id),
             [blocks |-> LinkFollowers(blocks), holds |-> PredecessorsDistinct(blocks)],
             Sorted(DOMAIN blocks))

\* The graph, before anything is known of the states.
Linked(items, blocks) ==
    With(ResolveNextLinks(blocks), LAMBDA resolved :
    With(RemoveUnusedBlocks(resolved), LAMBDA needed : SetPrevLinks(items, needed)))

-----------------------------------------------------------------------------
(* gatherKnowledge.  The graph is a record g: g.blocks, g.queue (a stack   *)
(* of work items: a block, the state it is entered with, the blocks on the *)
(* path to it), g.unknown (unknownJumpEncountered) and g.cl, the classes.  *)

WorkItem(id, s, seen) == [id |-> id, state |-> [s EXCEPT !.cl = NoClasses], seen |-> seen]
Graph(blocks) ==
    [blocks |-> blocks, queue |-> <<WorkItem(Initial, EmptyState, {})>>, unknown |-> FALSE,
     cl |-> NoClasses]

BodyOf(items, block) == SubSeq(items, block.begin, block.end - 1)
EndsFlow(body) == body # <<>> /\ AltersControlFlow(Last(body))

\* What gatherKnowledge asserts of the block that is entered next: control
\* flow changes at its end only, and it does there if the block ends with a jump.
Enterable(items, g) ==
    LET id == Last(g.queue).id
        body == BodyOf(items, g.blocks[id])
        flow == {i \in DOMAIN body : AltersControlFlow(body[i])} IN
    /\ id # Invalid
    /\ id \in DOMAIN g.blocks =>
         \/ flow = {Len(body)}
         \/ flow = {} /\ g.blocks[id].endType \notin {"JUMP", "JUMPI"}

\* The blocks an unknown jump may lead to: all that begin with a tag.
JumpDests(items, blocks) ==
    Sorted({id \in DOMAIN blocks : /\ blocks[id].begin < blocks[id].end
                                   /\ IsTag(items[blocks[id].begin])})

\* The state s at the end of a block, entered by w with the state entry: the
\* successors are entered with it.
Leave(items, g, w, entry, s, jumpTags) ==
    LET b == g.blocks[w.id]
        seen == w.seen \cup {w.id}
        jumps == b.endType \in {"JUMP", "JUMPI"}
        unknown == jumps /\ jumpTags = {} /\ ~g.unknown
        to(ids, state, via) == [i \in DOMAIN ids |-> WorkItem(ids[i], state, via)] IN
    [g EXCEPT !.cl = s.cl,
              !.unknown = @ \/ unknown,
              !.blocks[w.id].start = <<[entry EXCEPT !.cl = NoClasses]>>,
              !.blocks[w.id].endState = <<[s EXCEPT !.cl = NoClasses]>>,
              !.queue = @ \o (IF unknown THEN to(JumpDests(items, g.blocks), EmptyState, {}) ELSE <<>>)
                          \o to(IF jumps THEN Sorted(jumpTags) ELSE <<>>, s, seen)
                          \o to(IF GoesOn(b) THEN <<b.next>> ELSE <<>>, s, seen)]
\* The target of the jump is looked at before the jump takes it away.
LeaveByJump(items, g, w, entry, r, jump) ==
    With(FeedItem(r.s, jump), LAMBDA s :
         Leave(items, g, w, entry, s, TagsInExpression(r.s, r.id)))
BeforeEnd(items, g, w, entry, s, last) ==
    IF g.blocks[w.id].endType \in {"JUMP", "JUMPI"}
    THEN With(StackElement(s, s.height), LAMBDA r : LeaveByJump(items, g, w, entry, r, last[1]))
    ELSE With(Accumulated(FeedItem, s, last), LAMBDA e : Leave(items, g, w, entry, e, {}))
Through(items, g, w, entry, body) ==
    LET last == IF EndsFlow(body) THEN <<Last(body)>> ELSE <<>> IN
    With(Accumulated(FeedItem, entry, SubSeq(body, 1, Len(body) - Len(last))), LAMBDA s :
         BeforeEnd(items, g, w, entry, s, last))

\* Mutant: what was known when the block was first entered stays.
KeepKnowledge(s, block, w, join) == s

\* The state a block is entered with by w, if it was entered before.
Joined(s, block, w, join) ==
    IF block.start = <<>> THEN s
    ELSE ReduceToCommonKnowledge(IF join THEN s ELSE Reset(s), block.start[1], w.id \notin w.seen)

Enters(items, g, w, s) ==
    LET b == g.blocks[w.id] IN
    IF b.start # <<>> /\ SameKnowledge(s, b.start[1]) THEN [g EXCEPT !.cl = s.cl]
    ELSE Through(items, g, w, s, BodyOf(items, b))
VisitBy(items, g, w, join) ==
    IF w.id \notin DOMAIN g.blocks THEN g
    ELSE With(Joined([w.state EXCEPT !.cl = g.cl], g.blocks[w.id], w, join), LAMBDA s :
              Enters(items, g, w, s))
\* One round of the loop: the last work item.
Visit(items, g, join) ==
    With([g EXCEPT !.queue = Front(@)], LAMBDA rest : VisitBy(items, rest, Last(g.queue), join))

Visited(blocks) == Restricted(blocks, {id \in DOMAIN blocks : blocks[id].start # <<>>})

-----------------------------------------------------------------------------
(* rebuildCode.                                                            *)

\* How often the tag of a block is pushed.
Pushes(blocks, id) ==
    Cardinality(UNION {{<<b, i>> : i \in {k \in DOMAIN blocks[b].pushed : blocks[b].pushed[k] = id}} :
                       b \in DOMAIN blocks})

\* The order of the blocks: chains, the one of the initial block first, each
\* from its first block; handed says whether control flows into the block.
RECURSIVE FirstBlock(_, _), Followers(_, _), Chains(_, _, _, _)
FirstBlock(blocks, id) ==
    IF blocks[id].prev = Invalid THEN id ELSE FirstBlock(blocks, blocks[id].prev)
Followers(blocks, id) ==
    IF id = Invalid THEN <<>> ELSE <<id>> \o Followers(blocks, blocks[id].next)

\* A block, without its tag if nobody uses that.
Emitted(items, blocks, acc, id) ==
    LET b == blocks[id]
        skip == acc.handed /\ Pushes(blocks, id) = 0 /\ IsTag(items[b.begin])
        begin == IF skip THEN b.begin + 1 ELSE b.begin
        state(s) == <<ClearTagUnions(s[1])>> IN
    IF b.begin = b.end THEN acc
    ELSE [handed |-> b.endType = "HANDOVER",
          out |-> IF begin = b.end THEN acc.out
                  ELSE Append(acc.out, [b EXCEPT !.begin = begin, !.start = state(@),
                                                 !.endState = state(@)])]
Chains(items, blocks, todo, id) ==
    LET ids == Followers(blocks, FirstBlock(blocks, id))
        rest == todo \ ToSet(ids)
        chain == Accumulated(LAMBDA acc, b : Emitted(items, blocks, acc, b),
                          [handed |-> id = Initial, out |-> <<>>], ids) IN
    chain.out \o (IF rest = {} THEN <<>> ELSE Chains(items, blocks, rest, Min(rest)))
\* Every predecessor is still there (m_blocks.at).
LinksIntact(blocks) ==
    \A id \in DOMAIN blocks : blocks[id].prev \in DOMAIN blocks \cup {Invalid}
RebuildCode(items, blocks) == Chains(items, blocks, DOMAIN blocks, Initial)
=============================================================================
