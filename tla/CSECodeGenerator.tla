-------------------------- MODULE CSECodeGenerator --------------------------
(***************************************************************************)
(* The code generator of the common subexpression eliminator: it makes     *)
(* code that turns a given stack into a target stack and performs the      *)
(* store operations that are still needed.                                 *)
(*                                                                         *)
(* The generator is a record g; g.err is the exception that was thrown,    *)
(* after which nothing changes any more.                                   *)
(***************************************************************************)
EXTENDS KnownState

Fail(g, e) == [g EXCEPT !.err = e]
Assert_(g, cond, e) == IF g.err = "none" /\ ~cond THEN Fail(g, e) ELSE g
Failed(g) == g.err # "none"

Rep(g, c) == g.cl.reps[c]
Positions(g, c) == IF c \in DOMAIN g.pos THEN g.pos[c] ELSE {}
ClassElementPosition(g, c) == Max(Positions(g, c))

\* The first, and the last, element of a map with ordered keys.
Lowest(map) == Min(DOMAIN map)
Highest(map) == Max(DOMAIN map)

AppendItem(g, item) ==
    [g EXCEPT !.items = Append(g.items, item), !.height = g.height + Deposit(item)]

\* Takes what is at position h off the stack.
Erase(g, h) ==
    [g EXCEPT !.pos[g.stack[h]] = @ \ {h},
              !.stack = [k \in DOMAIN g.stack \ {h} |-> g.stack[k]]]
Place(g, h, c) ==
    [g EXCEPT !.pos = MapTo(g.pos, c, Positions(g, c) \cup {h}),
              !.stack = MapTo(g.stack, h, c)]

\* Mutant: a copy that is wanted where it is counts as superfluous.
CanBeRemovedAnyCopy(g, c, result, from) ==
    \/ Cardinality(g.pos[c]) > 1
    \/ /\ c \notin g.final
       /\ \A p \in g.neededBy : p[1] = c => p[2] = result \/ p[2] \in DOMAIN g.pos

\* The copy of c at a position may go: it is a spare copy, or nothing that
\* is not computed yet needs c (besides result).
CanBeRemoved(g, c, result, from) ==
    IF c \in g.final
    THEN Cardinality(g.pos[c]) > 1 /\ ~(from \in DOMAIN g.target /\ g.target[from] = c)
    ELSE \/ Cardinality(g.pos[c]) > 1
         \/ \A p \in g.neededBy : p[1] = c => p[2] = result \/ p[2] \in DOMAIN g.pos
Removable(g, c, result) == CanBeRemoved(g, c, result, ClassElementPosition(g, c))

TopRemovable(g) ==
    /\ DOMAIN g.stack # {} /\ g.height \in DOMAIN g.stack
    /\ CanBeRemoved(g, g.stack[g.height], NoId, g.height)
RemoveStackTopIfPossible(g) ==
    LET valid == DOMAIN g.stack = {} \/ g.height \in DOMAIN g.stack IN
    IF Failed(g) \/ ~valid THEN Assert_(g, valid, "OptimizerException")
    ELSE IF TopRemovable(g) THEN AppendItem(Erase(g, g.height), Op("POP"))
    ELSE g

RECURSIVE RemoveSurplus(_)
RemoveSurplus(g) ==
    IF Failed(g) \/ ~TopRemovable(g) THEN RemoveStackTopIfPossible(g)
    ELSE RemoveSurplus(RemoveStackTopIfPossible(g))

AppendDup(g, from) ==
    LET n == 1 + g.height - from IN
    IF Failed(g) THEN g
    ELSE IF n > MaxReach THEN Fail(g, "StackTooDeepException")
    ELSE IF n < 1 THEN Fail(g, "OptimizerException")
    ELSE Place(AppendItem(g, Dup(n)), g.height + 1, g.stack[from])

Exchange(g, h, k) ==
    LET c == g.stack[h]
        d == g.stack[k] IN
    IF c = d THEN g
    ELSE [g EXCEPT !.pos[c] = (@ \ {h}) \cup {k}, !.pos[d] = (@ \ {k}) \cup {h},
                   !.stack[h] = d, !.stack[k] = c]

\* Two equal swaps in a row cancel each other.
AppendOrRemoveSwap(g, from) ==
    LET n == g.height - from
        len == Len(g.items)
        twice == len >= 1 /\ g.items[len] = Swap(n) IN
    IF Failed(g) \/ n = 0 THEN g
    ELSE IF n > MaxReach THEN Fail(g, "StackTooDeepException")
    ELSE IF n < 1 THEN Fail(g, "OptimizerException")
    ELSE Exchange([g EXCEPT !.items = IF twice THEN SubSeq(g.items, 1, len - 1)
                                      ELSE Append(g.items, Swap(n))],
                  g.height, from)

RECURSIVE UndoSwaps(_)
UndoSwaps(g) ==
    IF ~Failed(g) /\ g.items # <<>> /\ Last(g.items) = Swap(1)
    THEN UndoSwaps(AppendOrRemoveSwap(g, g.height - 1)) ELSE g

-----------------------------------------------------------------------------
(* Dependencies.                                                           *)

\* Mutant: loads are never reordered against stores.
IndependentAlways(cl, e, slot) == [cl |-> cl, holds |-> TRUE]

\* A load cannot see what a store to the slot wrote.
FoundOutside(r, length) ==
    LET o == KnownConstant(r.cl, r.id)
        l == KnownConstant(r.cl, length) IN
    [cl |-> r.cl,
     holds |-> \/ 0 \in l
               \/ \E x \in o : \/ Signed(x) <= -WordBytes
                               \/ \E y \in l : Signed(x) >= 0 /\ x >= y]
IndependentOf(cl, e, slot) ==
    LET from == e.args[1] IN
    CASE e.item.op = "SLOAD" -> KnownToBeDifferent(cl, slot, from)
      [] e.item.op = "MLOAD" -> KnownToBeDifferentBy32(cl, slot, from)
      [] e.item.op = "SHA3" ->
           FoundOutside(Find(cl, Op("SUB"), <<slot, from>>, 0), e.args[2])

\* The last store to the slot before the load, or the first one of all.
LatestStore(ops, seq) ==
    LET before == {i \in 2..Len(ops) : ops[i].seq < seq} IN
    ops[IF before = {} THEN 1 ELSE Max(before)].expression

Target(op) == IF op = "SLOAD" THEN "storage" ELSE "memory"
StoresTo(g, target) ==
    Sorted({k[2] : k \in {x \in DOMAIN g.stores : x[1] = target}})

RECURSIVE AddDependencies(_, _)
AddDependencies(g0, c) ==
    IF Failed(g0) \/ c \in DOMAIN g0.pos \/ \E p \in g0.neededBy : p[1] = c THEN g0
    ELSE LET e == Rep(g0, c)
             need(g, d) == [AddDependencies(g, d) EXCEPT !.neededBy = @ \cup {<<d, c>>}]
             onArgs == Accumulated(need, g0, e.args)
             unless(g, r, ops) ==
                 IF r.holds THEN [g EXCEPT !.cl = r.cl]
                 ELSE need([g EXCEPT !.cl = r.cl], LatestStore(ops, e.seq))
             onStore(g, slot) ==
                 LET ops == g.stores[<<Target(e.item.op), slot>>] IN
                 IF Failed(g) \/ ops[1].seq > e.seq THEN g
                 ELSE unless(g, IndependentOf(g.cl, e, slot), ops) IN
         IF e.item.op = "UNDEFINED" THEN Fail(g0, "ItemNotAvailableException")
         ELSE IF e.item.op \in {"SLOAD", "MLOAD", "SHA3"}
         THEN Accumulated(onStore, onArgs, StoresTo(g0, Target(e.item.op)))
         ELSE onArgs

-----------------------------------------------------------------------------
(* Code for one class.                                                     *)

\* Brings the arguments of c to the top of the stack, consuming those that
\* are not needed any more.
Arrange(g, a, c) ==
    LET pos(h, i) == ClassElementPosition(h, a[i])
        last == AppendOrRemoveSwap(g, pos(g, 2)) IN
    CASE Len(a) = 0 -> g
      [] Len(a) = 1 ->
           IF Removable(g, a[1], c) THEN AppendOrRemoveSwap(g, pos(g, 1))
           ELSE AppendDup(g, pos(g, 1))
      [] Len(a) = 2 /\ Removable(g, a[2], c) ->
           IF Failed(last) THEN last
           ELSE IF a[1] = a[2] THEN AppendDup(last, last.height)
           ELSE IF Removable(last, a[1], c)
           THEN LET h == AppendOrRemoveSwap(last, last.height - 1) IN
                IF Failed(h) THEN h ELSE AppendOrRemoveSwap(h, pos(h, 1))
           ELSE AppendDup(last, pos(last, 1))
      [] Len(a) = 2 /\ ~Removable(g, a[2], c) ->
           IF a[1] = a[2]
           THEN LET h == AppendDup(g, pos(g, 1)) IN AppendDup(h, h.height)
           ELSE IF Removable(g, a[1], c)
           THEN LET h == AppendOrRemoveSwap(g, pos(g, 1))
                    k == IF Failed(h) THEN h ELSE AppendDup(h, pos(h, 2)) IN
                AppendOrRemoveSwap(k, k.height - 1)
           ELSE LET h == AppendDup(g, pos(g, 2)) IN
                IF Failed(h) THEN h ELSE AppendDup(h, pos(h, 1))
      [] OTHER -> Fail(g, "OptimizerException")

\* The operation itself: its arguments leave the stack, its result enters.
Operate(g0, e, c) ==
    LET n == Len(e.args)
        swapped == IF e.item.op \in Commutative THEN UndoSwaps(g0) ELSE g0
        consumed == Accumulated(LAMBDA g, i : Erase(g, swapped.height - i + 1), swapped,
                             [i \in 1..n |-> i])
        done == AppendItem(consumed, e.item) IN
    IF ~Operation(e.item) \/ Info(e.item.op).ret = 1 THEN Place(done, done.height, c)
    ELSE [done EXCEPT !.pos = MapTo(done.pos, c, {})]

\* The assertions of generateClassElement.
PositionsValid(g) ==
    Assert_(g, \A d \in DOMAIN g.pos : \A p \in g.pos[d] : p <= g.height,
            "OptimizerException")
ArgumentsPresent(g, a) ==
    Assert_(g, \A i \in DOMAIN a : Positions(g, a[i]) # {}, "OptimizerException")
ArgumentsOnTop(g, a) ==
    Assert_(g, \A i \in DOMAIN a : /\ g.height - i + 1 \in DOMAIN g.stack
                                   /\ g.stack[g.height - i + 1] = a[i],
            "OptimizerException")

\* The class that e represents, once its arguments are on the stack.
Arranged(g, e, c) == IF Failed(g) THEN g ELSE ArgumentsOnTop(Arrange(g, e.args, c), e.args)
Operated(g, e, c) == IF Failed(g) THEN g ELSE Operate(g, e, c)
Combine(g, e, c) == Operated(Arranged(ArgumentsPresent(g, e.args), e, c), e, c)

\* ElementOf: the same after surplus elements are gone from the top.
RECURSIVE GenerateClassElement(_, _, _), ElementOf(_, _, _, _)
GenerateClassElement(g, c, allowSequenced) ==
    ElementOf(RemoveStackTopIfPossible(PositionsValid(g)), Rep(g, c), c, allowSequenced)
ElementOf(g, e, c, allowSequenced) ==
    IF Failed(g) THEN g
    ELSE IF c \in DOMAIN g.pos THEN Assert_(g, g.pos[c] # {}, "OptimizerException")
    ELSE IF (~allowSequenced /\ e.seq # 0) \/ e.item.op = "UNDEFINED"
    THEN Fail(g, "OptimizerException")
    ELSE Combine(Accumulated(LAMBDA h, arg : GenerateClassElement(h, arg, FALSE), g,
                          Reverse(e.args)), e, c)

\* Brings the class a target position wants to that position.
MoveTo(g, c, h) ==
    LET p == ClassElementPosition(g, c) IN
    IF Failed(g) \/ h \in Positions(g, c) THEN g
    ELSE AppendOrRemoveSwap(IF p < h THEN AppendDup(g, p) ELSE AppendOrRemoveSwap(g, p), h)
GenerateTarget(g, h) ==
    LET c == g.target[h] IN
    IF Failed(g) \/ (h \in DOMAIN g.stack /\ g.stack[h] = c) THEN g
    ELSE MoveTo(GenerateClassElement(g, c, FALSE), c, h)

-----------------------------------------------------------------------------
Generator(cl, stores, height, initial, target) ==
    LET keys == {<<stores[i].target, stores[i].slot>> : i \in DOMAIN stores} IN
    [cl |-> cl, items |-> <<>>, height |-> height, stack |-> initial, target |-> target,
     pos |-> [c \in Range(initial) |-> {h \in DOMAIN initial : initial[h] = c}],
     final |-> Range(target), neededBy |-> {}, err |-> "none",
     stores |-> [k \in keys |->
                   SelectSeq(stores, LAMBDA o : o.target = k[1] /\ o.slot = k[2])]]

\* Needed expressions with a sequence number, in that order.
Sequenced(g) ==
    SortedBy({c \in UNION {{p[1], p[2]} : p \in g.neededBy} : Rep(g, c).seq # 0},
             LAMBDA c, d : \/ Rep(g, c).seq < Rep(g, d).seq
                           \/ Rep(g, c).seq = Rep(g, d).seq /\ c < d)

\* Invalid ("memory", slot) < ("storage", slot): the order of the map.
StoreKeys(g) ==
    LET keys(t) == LET slots == StoresTo(g, t) IN [i \in DOMAIN slots |-> <<t, slots[i]>>] IN
    keys("memory") \o keys("storage")
Heights(map) == Sorted(DOMAIN map)

\* The parts of generateCode: the last store to every slot and the target
\* stack are needed; what has a sequence number is made first, in order;
\* then the target stack; and the rest is removed.
StoresNeeded(g) ==
    Accumulated(LAMBDA h, k : AddDependencies(h, Last(h.stores[k]).expression), g, StoreKeys(g))
TargetsNeeded(g) == Accumulated(LAMBDA h, k : AddDependencies(h, h.target[k]), g,
                             Heights(g.target))
GenerateSequenced(g, seq, initialSeq) ==
    Accumulated(LAMBDA h, c : IF c \in DOMAIN h.pos THEN h ELSE GenerateClassElement(h, c, TRUE),
             Assert_(g, \A i \in DOMAIN seq : Rep(g, seq[i]).seq >= initialSeq,
                     "StackTooDeepException"), seq)
GenerateNeeded(g, initialSeq) == GenerateSequenced(g, Sequenced(g), initialSeq)
GenerateTargets(g) == Accumulated(GenerateTarget, g, Heights(g.target))
AtHeight(g, h) == Assert_(g, g.height = h, "OptimizerException")

GenerateCode(cl, stores, initialSeq, height, initial, target) ==
    AtHeight(
        RemoveSurplus(GenerateTargets(GenerateNeeded(
            TargetsNeeded(StoresNeeded(Generator(cl, stores, height, initial, target))),
            initialSeq))),
        IF DOMAIN target # {} THEN Highest(target)
        ELSE IF DOMAIN initial # {} THEN Lowest(initial) - 1
        ELSE height)
=============================================================================
