------------------------- MODULE BlockDeduplicator -------------------------
(***************************************************************************)
(* libevmasm/BlockDeduplicator: pushes of a tag whose block has the same   *)
(* code as an earlier one are replaced by pushes of the earlier tag.       *)
(***************************************************************************)
EXTENDS Evm, ControlFlowGraph

PushSelf == Item("PUSHTAG", Initial)          \* "the current block"

\* BlockIterator: the code that runs from an item on, up to the first item
\* that ends the flow of control for certain, without tags.
Suffix(items, from) ==
    LET ends == {i \in from..Len(items) : AltersControlFlow(items[i]) /\ items[i].op # "JUMPI"}
        code == SubSeq(items, from, IF ends = {} THEN Len(items) ELSE Min(ends)) IN
    SelectSeq(code, LAMBDA item : ~IsTag(item))

\* What a tag is compared by: pushes of the tag itself count as equal.
ComparedBy(items, i) ==
    LET own == Item("PUSHTAG", items[i].n)
        code == Suffix(items, i) IN
    [k \in DOMAIN code |-> IF code[k] = own THEN PushSelf ELSE code[k]]

\* Mutant: a tag is replaced by any other tag of equal code.
ReplacedByOther(items) ==
    LET tags == {i \in DOMAIN items : IsTag(items[i])}
        same(i) == {j \in tags : j # i /\ ComparedBy(items, j) = ComparedBy(items, i)} IN
    [n \in {items[i].n : i \in {k \in tags : same(k) # {}}} |->
        items[Min(same(CHOOSE i \in tags : items[i].n = n))].n]

\* tagReplacement: a tag that compares equal to an earlier one.
TagReplacement(items) ==
    LET tags == {i \in DOMAIN items : IsTag(items[i])}
        earlier(i) == {j \in tags : j < i /\ ComparedBy(items, j) = ComparedBy(items, i)} IN
    [n \in {items[i].n : i \in {k \in tags : earlier(k) # {}}} |->
        items[Min(earlier(CHOOSE i \in tags : items[i].n = n))].n]

\* One iteration.
Deduplicated(items) ==
    LET replace == TagReplacement(items) IN
    [i \in DOMAIN items |->
        IF IsPushTag(items[i]) /\ items[i].n \in DOMAIN replace
        THEN Item("PUSHTAG", replace[items[i].n]) ELSE items[i]]
=============================================================================
