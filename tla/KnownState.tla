----------------------------- MODULE KnownState -----------------------------
(***************************************************************************)
(* libevmasm/KnownState: what is known about the stack, the storage and    *)
(* the memory after a sequence of instructions, in terms of classes.       *)
(*                                                                         *)
(* A known state is a record s.  s.cl are the expression classes, which    *)
(* several known states share in the code; s.op is the store operation     *)
(* that feedItem returns; s.tags are the tag unions, classes of which only *)
(* the possible tags are known.  Heights are relative to the start of the  *)
(* block, so the stack below it has the heights 0, -1, -2, ...             *)
(***************************************************************************)
EXTENDS ExpressionClasses

NoStore == [target |-> "none", slot |-> 0, seq |-> 0, expression |-> 0]
NoMap == [k \in {} |-> 0]

EmptyState == [cl |-> NoClasses, height |-> 0, stack |-> NoMap, storage |-> NoMap,
               memory |-> NoMap, seq |-> 1, sha3 |-> NoMap, tags |-> NoMap, op |-> NoStore]

MapTo(f, k, v) == (k :> v) @@ f

\* The class of an expression, with the classes of s.
Found(s, r) == [s |-> [s EXCEPT !.cl = r.cl], id |-> r.id]
FindIn(s, item, args, seq) == Found(s, Find(s.cl, item, args, seq))

\* stackElement(): the class of an element, a new one if it was never set.
SetStackElement(s, h, id) == [s EXCEPT !.stack = MapTo(s.stack, h, id)]
PlaceFound(r, h) == [s |-> SetStackElement(r.s, h, r.id), id |-> r.id]
StackElement(s, h) ==
    IF h \in DOMAIN s.stack THEN [s |-> s, id |-> s.stack[h]]
    ELSE PlaceFound(FindIn(s, Item("UNDEFINED", h), <<>>, 0), h)

\* The classes of the n topmost elements, the top first.
AddId(acc, r) == [s |-> r.s, ids |-> Append(acc.ids, r.id)]
Arguments(s, n) ==
    Accumulated(LAMBDA acc, i : AddId(acc, StackElement(acc.s, s.height - i + 1)),
             [s |-> s, ids |-> <<>>], [i \in 1..n |-> i])

SwapWith(r, t, g, h) == SetStackElement(SetStackElement(t.s, g, t.id), h, r.id)
SwapFound(r, g, h) == SwapWith(r, StackElement(r.s, h), g, h)
SwapStackElements(s, g, h) == SwapFound(StackElement(s, g), g, h)

\* The entries whose slot differs from the one stored to; as knownToBe...
\* can add classes, they are asked for one slot after the other.
RetainIf(s, map, slot, Different(_, _, _), stays(_)) ==
    LET retained(acc, r, k) ==
            [cl |-> r.cl,
             map |-> IF r.holds \/ stays(k) THEN MapTo(acc.map, k, map[k]) ELSE acc.map] IN
    Accumulated(LAMBDA acc, k : retained(acc, Different(acc.cl, k, slot), k),
             [cl |-> s.cl, map |-> NoMap],
             Sorted(DOMAIN map))

\* The store operation r on a slot, after which the storage, or the memory,
\* is known to be as in kept elsewhere.
Stored(s, target, kept, r, slot, value) ==
    [s EXCEPT !.cl = r.cl, !.seq = s.seq + 2,
              !.storage = IF target = "storage" THEN MapTo(kept, slot, value) ELSE @,
              !.memory = IF target = "memory" THEN MapTo(kept, slot, value) ELSE @,
              !.op = [target |-> target, slot |-> slot, seq |-> s.seq + 1,
                      expression |-> r.id]]
Store(s, target, item, kept, slot, value) ==
    Stored(s, target, kept.map, Find(kept.cl, item, <<slot, value>>, s.seq + 1), slot, value)

\* Mutant: everything known about the storage survives a store.
StoreKeepingAll(s, slot, value) ==
    Store(s, "storage", Op("SSTORE"), [cl |-> s.cl, map |-> s.storage], slot, value)

StoreInStorage(s, slot, value) ==
    IF slot \in DOMAIN s.storage /\ s.storage[slot] = value THEN s
    ELSE Store(s, "storage", Op("SSTORE"),
               RetainIf(s, s.storage, slot, KnownToBeDifferent,
                        LAMBDA k : s.storage[k] = value), slot, value)

LoadFromStorage(s, slot) ==
    IF slot \in DOMAIN s.storage THEN [s |-> s, id |-> s.storage[slot]]
    ELSE LET loaded(r) == [r EXCEPT !.s.storage = MapTo(@, slot, r.id)] IN
         loaded(FindIn(s, Op("SLOAD"), <<slot>>, s.seq))

StoreInMemory(s, slot, value) ==
    IF slot \in DOMAIN s.memory /\ s.memory[slot] = value THEN s
    ELSE Store(s, "memory", Op("MSTORE"),
               RetainIf(s, s.memory, slot, KnownToBeDifferentBy32, LAMBDA k : FALSE),
               slot, value)

LoadFromMemory(s, slot) ==
    IF slot \in DOMAIN s.memory THEN [s |-> s, id |-> s.memory[slot]]
    ELSE LET loaded(r) == [r EXCEPT !.s.memory = MapTo(@, slot, r.id)] IN
         loaded(FindIn(s, Op("MLOAD"), <<slot>>, s.seq))

\* The classes of the words that a hash of the given length reads.
HashedWords(s, start, length) ==
    LET offset(s1, i) == FindIn(s1, Push(WordBytes * (i - 1)), <<>>, 0)
        address(r) == FindIn(r.s, Op("ADD"), <<start, r.id>>, 0)
        word(r) == LoadFromMemory(r.s, r.id) IN
    Accumulated(LAMBDA acc, i : AddId(acc, word(address(offset(acc.s, i)))),
             [s |-> s, ids |-> <<>>],
             [i \in 1..((length + WordBytes - 1) \div WordBytes) |-> i])

\* The class of a hash of l bytes of words w that was not met before: its
\* value if all words are constants.
UnknownSha3(s, start, length) == FindIn(s, Op("SHA3"), <<start, length>>, s.seq)
NewSha3(s, w, start, length, l) ==
    LET constant(i) == KnownConstant(s.cl, w[i])
        data == FlattenSeq([i \in DOMAIN w |-> Bytes(CHOOSE x \in constant(i) : TRUE)]) IN
    IF \A i \in DOMAIN w : constant(i) # {}
    THEN FindIn(s, Push(Hash(SubSeq(data, 1, l))), <<>>, 0)
    ELSE UnknownSha3(s, start, length)
Remembered(w, r) == [s |-> [r.s EXCEPT !.sha3 = MapTo(r.s.sha3, w, r.id)], id |-> r.id]
KnownSha3(w, start, length, l) ==
    IF w.ids \in DOMAIN w.s.sha3 THEN [s |-> w.s, id |-> w.s.sha3[w.ids]]
    ELSE Remembered(w.ids, NewSha3(w.s, w.ids, start, length, l))

ApplySha3(s, start, length) ==
    LET short == {l \in KnownConstant(s.cl, length) : l <= 4 * WordBytes}
        l == CHOOSE l \in short : TRUE IN
    IF short = {} THEN UnknownSha3(s, start, length)
    ELSE KnownSha3(HashedWords(s, start, l), start, length, l)

InvalidatesMemory == {"MSTORE8"}
InvalidatesStorage == {"CREATE"}

\* The new top of the stack is what was found.
PushFound(r, item) == SetStackElement(r.s, r.s.height + Deposit(item), r.id)

\* Any other instruction: forget what it may change, set its result.
ApplyOther(s, item, args) ==
    LET mem == item.op \in InvalidatesMemory
        stor == item.op \in InvalidatesStorage
        t == [s EXCEPT !.memory = IF mem THEN NoMap ELSE s.memory,
                       !.storage = IF stor THEN NoMap ELSE s.storage,
                       !.seq = IF mem \/ stor THEN s.seq + 2 ELSE s.seq] IN
    IF Info(item.op).ret = 1 THEN PushFound(FindIn(t, item, args, 0), item)
    ELSE t

\* An instruction with arguments a (state and classes).
FeedInstruction(a, item) ==
    CASE item.op = "SSTORE" -> StoreInStorage(a.s, a.ids[1], a.ids[2])
      [] item.op = "SLOAD" -> PushFound(LoadFromStorage(a.s, a.ids[1]), item)
      [] item.op = "MSTORE" -> StoreInMemory(a.s, a.ids[1], a.ids[2])
      [] item.op = "MLOAD" -> PushFound(LoadFromMemory(a.s, a.ids[1]), item)
      [] item.op = "SHA3" -> PushFound(ApplySha3(a.s, a.ids[1], a.ids[2]), item)
      [] OTHER -> ApplyOther(a.s, item, a.ids)

FeedOperation(s, item) ==
    CASE item.op = "DUP" -> PushFound(StackElement(s, s.height - item.n + 1), item)
      [] item.op = "SWAP" -> SwapStackElements(s, s.height, s.height - item.n)
      [] item.op = "POP" -> s
      [] OTHER -> FeedInstruction(Arguments(s, Info(item.op).args), item)

\* The stack has a new height; what is above it is forgotten.
WithHeight(s, top) ==
    [s EXCEPT !.height = top,
              !.stack = [h \in {g \in DOMAIN s.stack : g <= top} |-> s.stack[h]]]

FeedItem(before, item) ==
    LET s == [before EXCEPT !.op = NoStore] IN
    IF item.op = "TAG" THEN s
    ELSE WithHeight(IF Operation(item) THEN FeedOperation(s, item)
                    ELSE PushFound(FindIn(s, item, <<>>, 0), item),
                    s.height + Deposit(item))

Reset(s) == [s EXCEPT !.storage = NoMap, !.memory = NoMap, !.stack = NoMap, !.height = 0]

-----------------------------------------------------------------------------
(* What several states have in common.                                     *)

\* The tags that a class may be; none if it may be anything.
TagsInExpression(s, id) ==
    IF id \in DOMAIN s.tags THEN s.tags[id]
    ELSE IF s.cl.reps[id].item.op = "PUSHTAG" THEN {s.cl.reps[id].item.n} ELSE {}

NewTagUnion(s, r, tags) ==
    [s |-> [s EXCEPT !.cl = r.cl, !.tags = MapTo(s.tags, r.id, tags)], id |-> r.id]
TagUnion(s, tags) ==
    LET same == {id \in DOMAIN s.tags : s.tags[id] = tags} IN
    IF same # {} THEN [s |-> s, id |-> CHOOSE id \in same : TRUE]
    ELSE NewTagUnion(s, NewClass(s.cl), tags)

Restricted(f, keys) == [k \in keys |-> f[k]]
Intersect(f, g) == Restricted(f, {k \in DOMAIN f \cap DOMAIN g : f[k] = g[k]})

\* The stack elements of s that other, whose stack is diff lower, agrees
\* with; where both are tags, their union.
JoinTags(acc, h, mine, theirs) ==
    IF mine = {} \/ theirs = {} THEN acc
    ELSE PlaceFound(TagUnion(acc, mine \cup theirs), h).s
CommonElement(acc, h, mine, theirs) ==
    IF mine = theirs THEN SetStackElement(acc, h, mine)
    ELSE JoinTags(acc, h, TagsInExpression(acc, mine), TagsInExpression(acc, theirs))
CommonStack(s, other, diff) ==
    Accumulated(LAMBDA acc, h : CommonElement(acc, h, s.stack[h], other.stack[h - diff]),
             [s EXCEPT !.stack = NoMap],
             Sorted({h \in DOMAIN s.stack : h - diff \in DOMAIN other.stack}))

Lowered(s, diff) ==
    IF diff <= 0 THEN s
    ELSE [s EXCEPT !.height = s.height - diff,
                   !.stack = [h \in {g - diff : g \in DOMAIN s.stack} |-> s.stack[h + diff]]]

ReduceToCommonKnowledge(s, other, combineSequenceNumbers) ==
    [Lowered(CommonStack(s, other, s.height - other.height), s.height - other.height) EXCEPT
        !.storage = Intersect(s.storage, other.storage),
        !.memory = Intersect(s.memory, other.memory),
        !.seq = IF combineSequenceNumbers THEN Max({s.seq, other.seq}) ELSE s.seq]

\* operator==: the stacks are compared relative to their heights.
SameKnowledge(s, other) ==
    LET diff == s.height - other.height IN
    /\ s.storage = other.storage /\ s.memory = other.memory
    /\ DOMAIN other.stack = {h - diff : h \in DOMAIN s.stack}
    /\ \A h \in DOMAIN s.stack : s.stack[h] = other.stack[h - diff]

ClearTagUnions(s) ==
    [s EXCEPT !.stack = Restricted(s.stack, {h \in DOMAIN s.stack : s.stack[h] \notin DOMAIN s.tags})]
=============================================================================
