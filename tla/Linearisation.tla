--------------------------- MODULE Linearisation ----------------------------
(***************************************************************************)
(* The order of base contracts: NameAndTypeResolver::linearizeBaseContracts *)
(* and cThreeMerge.  Contracts are resolved one after the other, in the    *)
(* order of the sources; contract c is the c-th of them.  Lists are from   *)
(* derived to base.                                                        *)
(***************************************************************************)
EXTENDS Integers, Sequences, FiniteSets, SequencesExt

VARIABLES
    hierarchy,    \* the direct bases of each contract so far, as they are written
    linearized    \* annotation linearizedBaseContracts; <<>> after the fatal error

-----------------------------------------------------------------------------
(* cThreeMerge.  A contract is removed from the lists only while it is at  *)
(* their heads, so that at[i], the number of elements that list i has      *)
(* lost, says what is left of it; lists without elements are skipped.      *)

HasHead(lists, at, i) == at[i] < Len(lists[i])
HeadOf(lists, at, i) == lists[i][at[i] + 1]
AppearsOnlyAtHead(lists, at, candidate) ==
    \A i \in DOMAIN lists : \A k \in (at[i] + 2)..Len(lists[i]) : lists[i][k] # candidate
\* The lists whose head may be next; nextCandidate() takes the first.
Possible(lists, at) ==
    {i \in DOMAIN lists : HasHead(lists, at, i) /\ AppearsOnlyAtHead(lists, at, HeadOf(lists, at, i))}
NextCandidate(lists, at) ==
    HeadOf(lists, at, CHOOSE i \in Possible(lists, at) : \A j \in Possible(lists, at) : i <= j)
RemoveCandidate(lists, at, candidate) ==
    [i \in DOMAIN lists |->
        IF HasHead(lists, at, i) /\ HeadOf(lists, at, i) = candidate THEN at[i] + 1 ELSE at[i]]

\* The loop; it stops where no head is possible.
MergeStart(lists) == [at |-> [i \in DOMAIN lists |-> 0], result |-> <<>>]
MergeTurn(lists, s) ==
    IF Possible(lists, s.at) = {} THEN s
    ELSE [at |-> RemoveCandidate(lists, s.at, NextCandidate(lists, s.at)),
          result |-> Append(s.result, NextCandidate(lists, s.at))]
\* Every turn removes a contract.
Elements(lists) == UNION {Range(lists[i]) : i \in DOMAIN lists}
MergeTurns(lists) ==
    LET turn[n \in 0..Cardinality(Elements(lists))] ==
            IF n = 0 THEN MergeStart(lists) ELSE MergeTurn(lists, turn[n - 1]) IN
    turn

\* <<>> if some list is not used up.
MergeEnd(lists) == MergeTurns(lists)[Cardinality(Elements(lists))]
UsedUp(lists, at) == \A i \in DOMAIN lists : at[i] = Len(lists[i])
CThreeMerge(lists) == IF UsedUp(lists, MergeEnd(lists).at) THEN MergeEnd(lists).result ELSE <<>>

-----------------------------------------------------------------------------
(* linearizeBaseContracts, for a contract whose bases have been resolved.  *)

\* Mutant: bases are taken in the order in which they are written.
LinearizeForward(contract, directBases, lin) ==
    CThreeMerge([i \in DOMAIN directBases |-> lin[directBases[i]]] \o <<<<contract>> \o directBases>>)

\* Bases mentioned later come first.
LinearizeBaseContracts(contract, directBases, lin) ==
    CThreeMerge(Reverse([i \in DOMAIN directBases |-> lin[directBases[i]]])
                \o <<<<contract>> \o Reverse(directBases)>>)

\* The next contract is resolved; after a fatal error no other is.
LinearisationInit == hierarchy = <<>> /\ linearized = <<>>
ResolveContract(directBases) ==
    /\ \A c \in DOMAIN linearized : linearized[c] # <<>>
    /\ hierarchy' = Append(hierarchy, directBases)
    /\ linearized' = Append(linearized,
          IF Range(directBases) \subseteq DOMAIN linearized
          THEN LinearizeBaseContracts(Len(hierarchy) + 1, directBases, linearized) ELSE <<>>)

linearisationVars == <<hierarchy, linearized>>
LinearisationNext == \E directBases \in Seq(Nat \ {0}) : ResolveContract(directBases)
LinearisationSpec == LinearisationInit /\ [][LinearisationNext]_linearisationVars

-----------------------------------------------------------------------------
(* What a linearisation is for.                                            *)

\* The contracts that c inherits from, directly or not: what is in every
\* set that has its bases and, with a contract, the bases of that.
ClosedUnder(bases, S) == \A d \in S : Range(bases[d]) \subseteq S
Ancestors(bases, c) ==
    {x \in 1..(c - 1) : \A S \in SUBSET (1..(c - 1)) :
                           Range(bases[c]) \subseteq S /\ ClosedUnder(bases, S) => x \in S}

\* A list that has the elements of part in the order of part.
KeepsOrder(list, part) ==
    \A i, j \in DOMAIN part :
        i < j => \E p, q \in DOMAIN list : p < q /\ list[p] = part[i] /\ list[q] = part[j]
Orders(set) == {list \in [1..Cardinality(set) -> set] : IsInjective(list) /\ Range(list) = set}
\* The contract comes first, its bases from the last to the first, and each
\* base sees its own bases in the order it expects.
GoodOrder(bases, lin, c, list) ==
    /\ KeepsOrder(list, <<c>> \o Reverse(bases[c]))
    /\ \A b \in Range(bases[c]) : KeepsOrder(list, lin[b])

SuitsBases(bases, lin, c) ==
    LET all == {c} \cup Ancestors(bases, c) IN
    IF lin[c] = <<>>
    THEN \/ ~(Range(bases[c]) \subseteq 1..(c - 1))
         \/ \A list \in Orders(all) : ~GoodOrder(bases, lin, c, list)
    ELSE lin[c] \in Orders(all) /\ GoodOrder(bases, lin, c, lin[c])

\* A linearisation holds the contract and all its ancestors once, in an
\* order that suits the contract and each of its bases; a hierarchy is
\* refused only if there is no such order, or a base is not defined before.
LinearisationSuitsBases == \A c \in DOMAIN hierarchy : SuitsBases(hierarchy, linearized, c)
=============================================================================
