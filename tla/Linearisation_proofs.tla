------------------------ MODULE Linearisation_proofs ------------------------
(***************************************************************************)
(* The order of base contracts is right for every hierarchy.               *)
(*                                                                         *)
(* The loop of cThreeMerge keeps an invariant, Merged: what the lists have *)
(* lost is in the result, once and in their order, and what they have left *)
(* is not.  Each turn takes a contract, so that after as many turns as     *)
(* there are contracts no head is possible.  If the lists are used up, the *)
(* result is all their elements in an order that suits them; if not, there *)
(* is no such order, since the first contract of what is left would be a   *)
(* possible head.  Over a hierarchy, the lists of the bases hold all their *)
(* ancestors, so that the lists of a contract hold all of its own.         *)
(***************************************************************************)
EXTENDS Linearisation, SequenceTheorems, FiniteSetTheorems, WellFoundedInduction, TLAPS

-----------------------------------------------------------------------------
(* Induction on numbers, for a set.                                        *)

LEMMA LeastNumber ==
    ASSUME NEW T \in SUBSET Nat, T # {}
    PROVE  \E x \in T : \A y \in T : x <= y
<1> DEFINE R == OpToRel(<, Nat)
<1>1. IsWellFoundedOn(R, Nat)
  BY NatLessThanWellFounded, Zenon
<1> HIDE DEF R
<1>2. PICK x \in T : \A y \in T : ~(<<y, x>> \in R)
  BY <1>1, WFMin
<1>3. \A y \in Nat : y < x => <<y, x>> \in R
  BY DEF OpToRel, R
<1>4. \A y \in T : ~(y < x)
  BY <1>2, <1>3
<1> QED
  BY <1>4

LEMMA SetInduction ==
    ASSUME NEW T, 0 \in T, \A n \in Nat : n \in T => n + 1 \in T
    PROVE  Nat \subseteq T
<1> SUFFICES ASSUME Nat \ T # {} PROVE FALSE
  OBVIOUS
<1>1. PICK x \in Nat \ T : \A y \in Nat \ T : x <= y
  BY LeastNumber
<1>2. x - 1 \in Nat /\ (x - 1) + 1 = x
  BY <1>1
<1>3. x - 1 \in T
  BY <1>1, <1>2
<1> QED
  BY <1>1, <1>2, <1>3

-----------------------------------------------------------------------------
(* The loop of cThreeMerge: what holds after every turn.                   *)

ListsOf(lists, C) ==
    /\ Len(lists) \in Nat /\ DOMAIN lists = 1..Len(lists)
    /\ \A i \in DOMAIN lists : Len(lists[i]) \in Nat /\ DOMAIN lists[i] = 1..Len(lists[i])
    /\ \A i \in DOMAIN lists : \A k \in 1..Len(lists[i]) : lists[i][k] \in C
LEMMA ListsParts ==
    ASSUME NEW C, NEW lists \in Seq(Seq(C))
    PROVE  ListsOf(lists, C)
<1>1. Len(lists) \in Nat /\ DOMAIN lists = 1..Len(lists)
  BY LenProperties
<1>2. ASSUME NEW i \in DOMAIN lists
      PROVE  /\ Len(lists[i]) \in Nat /\ DOMAIN lists[i] = 1..Len(lists[i])
             /\ \A k \in 1..Len(lists[i]) : lists[i][k] \in C
  <2>1. lists[i] \in Seq(C)
    BY <1>1, ElementOfSeq, Zenon
  <2> QED
    BY <2>1, LenProperties, ElementOfSeq
<1> QED
  BY <1>1, <1>2 DEF ListsOf

\* What the lists have lost is in the result, once and in their order, and
\* what they have left is not.
Counted(lists, at) ==
    at \in [DOMAIN lists -> Nat] /\ \A i \in DOMAIN lists : at[i] <= Len(lists[i])
Lost(lists, at, r) ==
    \A i \in DOMAIN lists : \A k \in 1..at[i] : \E p \in 1..Len(r) : r[p] = lists[i][k]
FromLists(lists, at, r) ==
    \A p \in 1..Len(r) : \E i \in DOMAIN lists : \E k \in 1..at[i] : r[p] = lists[i][k]
Left(lists, at, r) ==
    \A i \in DOMAIN lists : \A k \in (at[i] + 1)..Len(lists[i]) : \A p \in 1..Len(r) : r[p] # lists[i][k]
InOrder(lists, at, r) ==
    \A i \in DOMAIN lists : \A j, k \in 1..at[i] :
        j < k => \E p, q \in 1..Len(r) : p < q /\ r[p] = lists[i][j] /\ r[q] = lists[i][k]
Once(r) == \A p, q \in 1..Len(r) : r[p] = r[q] => p = q
Merged(lists, C, at, r) ==
    /\ Counted(lists, at) /\ r \in Seq(C) /\ Once(r)
    /\ Lost(lists, at, r) /\ FromLists(lists, at, r)
    /\ Left(lists, at, r) /\ InOrder(lists, at, r)

LEMMA MergedAtStart ==
    ASSUME NEW C, NEW lists, ListsOf(lists, C)
    PROVE  Merged(lists, C, MergeStart(lists).at, MergeStart(lists).result)
<1>1. PICK at, r : at = [i \in DOMAIN lists |-> 0] /\ r = <<>>
  OBVIOUS
<1>2. Counted(lists, at) /\ \A i \in DOMAIN lists : at[i] = 0
  BY <1>1 DEF Counted, ListsOf
<1>3. r \in Seq(C) /\ Len(r) = 0
  BY <1>1
<1>4. Merged(lists, C, at, r)
  BY <1>2, <1>3 DEF Merged, Once, Lost, FromLists, Left, InOrder
<1>5. MergeStart(lists).at = at /\ MergeStart(lists).result = r
  BY <1>1 DEF MergeStart
<1> QED
  BY <1>4, <1>5

\* The candidate is at the head of a list and nowhere else.
LEMMA CandidateParts ==
    ASSUME NEW C, NEW lists, ListsOf(lists, C), NEW at, Counted(lists, at), Possible(lists, at) # {}
    PROVE  \E m \in Possible(lists, at) : NextCandidate(lists, at) = HeadOf(lists, at, m)
<1>1. Possible(lists, at) \in SUBSET Nat
  BY DEF Possible, ListsOf
<1>2. \E i \in Possible(lists, at) : \A j \in Possible(lists, at) : i <= j
  BY <1>1, LeastNumber
<1> QED
  BY <1>2 DEF NextCandidate

Takes(lists, at, r, c, at2, r2) ==
    /\ Possible(lists, at) # {} /\ c = NextCandidate(lists, at)
    /\ at2 = RemoveCandidate(lists, at, c) /\ r2 = Append(r, c)
LEMMA MergedTurn ==
    ASSUME NEW C, NEW lists, ListsOf(lists, C), NEW at, NEW r, Merged(lists, C, at, r),
           NEW c, NEW at2, NEW r2, Takes(lists, at, r, c, at2, r2)
    PROVE  Merged(lists, C, at2, r2) /\ Len(r2) = Len(r) + 1
<1>0. /\ Possible(lists, at) # {} /\ c = NextCandidate(lists, at)
      /\ at2 = RemoveCandidate(lists, at, c) /\ r2 = Append(r, c)
  BY DEF Takes
<1>1. PICK m \in Possible(lists, at) : c = HeadOf(lists, at, m)
  BY <1>0, CandidateParts DEF Merged
<1>2. PICK n : n = Len(r)
  OBVIOUS
<1>3. /\ Counted(lists, at) /\ r \in Seq(C) /\ Once(r) /\ n \in Nat
      /\ at \in [DOMAIN lists -> Nat]
  BY <1>2 DEF Merged, Counted
<1>4. /\ m \in DOMAIN lists /\ at[m] < Len(lists[m]) /\ c = lists[m][at[m] + 1]
      /\ \A i \in DOMAIN lists : \A k \in (at[i] + 2)..Len(lists[i]) : lists[i][k] # c
  BY <1>1 DEF Possible, HasHead, HeadOf, AppearsOnlyAtHead
<1>5. at[m] + 1 \in (at[m] + 1)..Len(lists[m]) /\ at[m] + 1 \in 1..Len(lists[m])
  BY <1>3, <1>4 DEF ListsOf
<1>6. c \in C
  BY <1>4, <1>5 DEF ListsOf
<1>7. \A p \in 1..n : r[p] # c
  BY <1>2, <1>4, <1>5 DEF Merged, Left
<1>8. /\ r2 \in Seq(C) /\ Len(r2) = n + 1 /\ r2[n + 1] = c
      /\ \A p \in 1..n : r2[p] = r[p]
  BY <1>0, <1>2, <1>3, <1>6
<1>9. /\ at2 \in [DOMAIN lists -> Nat]
      /\ \A i \in DOMAIN lists :
            \/ at[i] < Len(lists[i]) /\ lists[i][at[i] + 1] = c /\ at2[i] = at[i] + 1
            \/ ~(at[i] < Len(lists[i]) /\ lists[i][at[i] + 1] = c) /\ at2[i] = at[i]
  BY <1>0, <1>3 DEF RemoveCandidate, HasHead, HeadOf
<1>10. \A i \in DOMAIN lists : at[i] \in Nat /\ at2[i] \in Nat /\ Len(lists[i]) \in Nat /\ at[i] <= Len(lists[i])
  BY <1>3, <1>9 DEF Counted, ListsOf
<1>11. Counted(lists, at2)
  BY <1>9, <1>10 DEF Counted
<1>12. Once(r2)
  BY <1>2, <1>3, <1>7, <1>8 DEF Once
<1>13. Lost(lists, at2, r2)
  <2> SUFFICES ASSUME NEW i \in DOMAIN lists, NEW k \in 1..at2[i]
               PROVE  \E p \in 1..Len(r2) : r2[p] = lists[i][k]
    BY DEF Lost
  <2>1. CASE k \in 1..at[i]
    <3>1. PICK p \in 1..n : r[p] = lists[i][k]
      BY <1>2, <2>1 DEF Merged, Lost
    <3> QED
      BY <1>3, <1>8, <3>1
  <2>2. CASE k \notin 1..at[i]
    <3>1. lists[i][k] = c
      BY <1>9, <1>10, <2>2
    <3> QED
      BY <1>3, <1>8, <3>1
  <2> QED
    BY <2>1, <2>2
<1>14. FromLists(lists, at2, r2)
  <2> SUFFICES ASSUME NEW p \in 1..Len(r2)
               PROVE  \E i \in DOMAIN lists : \E k \in 1..at2[i] : r2[p] = lists[i][k]
    BY DEF FromLists
  <2>1. CASE p = n + 1
    <3>1. at2[m] = at[m] + 1 /\ at[m] + 1 \in 1..at2[m]
      BY <1>4, <1>9, <1>10
    <3> QED
      BY <1>4, <1>8, <2>1, <3>1
  <2>2. CASE p # n + 1
    <3>1. p \in 1..n /\ r2[p] = r[p]
      BY <1>3, <1>8, <2>2
    <3>a. PICK i \in DOMAIN lists : \E k \in 1..at[i] : r[p] = lists[i][k]
      BY <1>2, <3>1 DEF Merged, FromLists
    <3>2. PICK k \in 1..at[i] : r[p] = lists[i][k]
      BY <3>a
    <3>3. k \in 1..at2[i]
      BY <1>9, <1>10
    <3> QED
      BY <3>1, <3>2, <3>3
  <2> QED
    BY <2>1, <2>2
<1>15. Left(lists, at2, r2)
  <2> SUFFICES ASSUME NEW i \in DOMAIN lists, NEW k \in (at2[i] + 1)..Len(lists[i]), NEW p \in 1..Len(r2)
               PROVE  r2[p] # lists[i][k]
    BY DEF Left
  <2>1. lists[i][k] # c
    <3>1. CASE k = at[i] + 1
      BY <1>9, <1>10, <3>1
    <3>2. CASE k # at[i] + 1
      <4>1. k \in (at[i] + 2)..Len(lists[i])
        BY <1>9, <1>10, <3>2
      <4> QED
        BY <1>4, <4>1
    <3> QED
      BY <3>1, <3>2
  <2>2. CASE p = n + 1
    BY <1>8, <2>1, <2>2
  <2>3. CASE p # n + 1
    <3>1. p \in 1..n /\ r2[p] = r[p]
      BY <1>3, <1>8, <2>3
    <3>2. k \in (at[i] + 1)..Len(lists[i])
      BY <1>9, <1>10
    <3> QED
      BY <1>2, <3>1, <3>2 DEF Merged, Left
  <2> QED
    BY <2>2, <2>3
<1>16. InOrder(lists, at2, r2)
  <2> SUFFICES ASSUME NEW i \in DOMAIN lists, NEW j \in 1..at2[i], NEW k \in 1..at2[i], j < k
               PROVE  \E p, q \in 1..Len(r2) : p < q /\ r2[p] = lists[i][j] /\ r2[q] = lists[i][k]
    BY DEF InOrder
  <2>1. CASE k \in 1..at[i]
    <3>1. j \in 1..at[i]
      BY <1>10, <2>1
    <3>2. PICK p \in 1..n, q \in 1..n : p < q /\ r[p] = lists[i][j] /\ r[q] = lists[i][k]
      BY <1>2, <2>1, <3>1 DEF Merged, InOrder
    <3> QED
      BY <1>3, <1>8, <3>2
  <2>2. CASE k \notin 1..at[i]
    <3>1. lists[i][k] = c /\ j \in 1..at[i]
      BY <1>9, <1>10, <2>2
    <3>2. PICK p \in 1..n : r[p] = lists[i][j]
      BY <1>2, <3>1 DEF Merged, Lost
    <3> QED
      BY <1>3, <1>8, <3>1, <3>2
  <2> QED
    BY <2>1, <2>2
<1> QED
  BY <1>2, <1>8, <1>11, <1>12, <1>13, <1>14, <1>15, <1>16 DEF Merged

-----------------------------------------------------------------------------
(* The loop computes what its definition says.                             *)

Turns(t, lists, N) ==
    /\ t = [n \in 0..N |-> t[n]]
    /\ t[0] = MergeStart(lists)
    /\ \A n \in 1..N : t[n] = MergeTurn(lists, t[n - 1])

LEMMA TurnsExist ==
    ASSUME NEW lists, NEW N \in Nat
    PROVE  \E t : Turns(t, lists, N)
<1> DEFINE T == {n \in Nat : \E t : Turns(t, lists, n)}
<1>1. 0 \in T
  <2>1. PICK t : t = [n \in 0..0 |-> MergeStart(lists)]
    OBVIOUS
  <2>2. Turns(t, lists, 0)
    BY <2>1 DEF Turns
  <2> QED
    BY <2>2
<1>2. ASSUME NEW n \in Nat, n \in T PROVE n + 1 \in T
  <2>1. PICK t : Turns(t, lists, n)
    BY <1>2
  <2>2. PICK u : u = [i \in 0..(n + 1) |-> IF i = n + 1 THEN MergeTurn(lists, t[n]) ELSE t[i]]
    OBVIOUS
  <2>3. u = [i \in 0..(n + 1) |-> u[i]] /\ u[0] = MergeStart(lists)
    BY <2>1, <2>2 DEF Turns
  <2>4. ASSUME NEW i \in 1..(n + 1) PROVE u[i] = MergeTurn(lists, u[i - 1])
    <3>1. u[i - 1] = t[i - 1]
      BY <2>2
    <3>2. CASE i = n + 1
      BY <2>2, <3>1, <3>2
    <3>3. CASE i # n + 1
      <4>1. u[i] = t[i] /\ i \in 1..n
        BY <2>2, <3>3
      <4> QED
        BY <2>1, <3>1, <4>1 DEF Turns
    <3> QED
      BY <3>2, <3>3
  <2>5. Turns(u, lists, n + 1)
    BY <2>3, <2>4 DEF Turns
  <2> QED
    BY <2>5
<1>3. Nat \subseteq T
  <2> HIDE DEF T
  <2> QED
    BY <1>1, <1>2, SetInduction
<1> QED
  BY <1>3

LEMMA MergeTurnsAre ==
    ASSUME NEW lists, NEW N \in Nat, N = Cardinality(Elements(lists))
    PROVE  Turns(MergeTurns(lists), lists, N)
<1> DEFINE Turn(t, n) == IF n = 0 THEN MergeStart(lists) ELSE MergeTurn(lists, t[n - 1])
           IsTurns(t) == t = [n \in 0..Cardinality(Elements(lists)) |-> Turn(t, n)]
           e == CHOOSE t : IsTurns(t)
<1>1. PICK t : Turns(t, lists, N)
  BY TurnsExist
<1>2. IsTurns(t)
  <2>1. ASSUME NEW n \in 0..N PROVE t[n] = Turn(t, n)
    <3>1. CASE n = 0
      BY <1>1, <3>1 DEF Turns
    <3>2. CASE n # 0
      <4>1. n \in 1..N
        BY <3>2
      <4> QED
        BY <1>1, <3>2, <4>1 DEF Turns
    <3> QED
      BY <3>1, <3>2
  <2>2. t = [n \in 0..N |-> t[n]]
    BY <1>1 DEF Turns
  <2> QED
    BY <2>1, <2>2
<1>3. IsTurns(e)
  BY <1>2
<1>4. e = MergeTurns(lists)
  BY DEF MergeTurns
<1> HIDE DEF e
<1>5. ASSUME NEW d, IsTurns(d) PROVE Turns(d, lists, N)
  <2>1. \A n \in 0..N : d[n] = Turn(d, n)
    BY <1>5
  <2>2. d = [n \in 0..N |-> d[n]]
    BY <1>5, <2>1
  <2>3. d[0] = MergeStart(lists)
    BY <2>1
  <2>4. \A n \in 1..N : d[n] = MergeTurn(lists, d[n - 1])
    BY <2>1
  <2> QED
    BY <2>2, <2>3, <2>4 DEF Turns
<1> QED
  BY <1>3, <1>4, <1>5

\* After n turns there are n contracts in the result, or there is no
\* candidate.
LEMMA MergedAlways ==
    ASSUME NEW C, NEW lists, ListsOf(lists, C), NEW N \in Nat, NEW t, Turns(t, lists, N)
    PROVE  \A n \in 0..N : /\ Merged(lists, C, t[n].at, t[n].result)
                           /\ Possible(lists, t[n].at) = {} \/ Len(t[n].result) = n
<1> DEFINE Good(n) == /\ Merged(lists, C, t[n].at, t[n].result)
                      /\ Possible(lists, t[n].at) = {} \/ Len(t[n].result) = n
           T == {n \in Nat : n <= N => Good(n)}
<1>1. 0 \in T
  <2>1. t[0] = MergeStart(lists)
    BY DEF Turns
  <2>2. Merged(lists, C, t[0].at, t[0].result)
    BY <2>1, MergedAtStart
  <2>3. Len(t[0].result) = 0
    BY <2>1 DEF MergeStart
  <2> QED
    BY <2>2, <2>3
<1>2. ASSUME NEW n \in Nat, n \in T PROVE n + 1 \in T
  <2> SUFFICES ASSUME n + 1 <= N PROVE Good(n + 1)
    OBVIOUS
  <2>1. Good(n)
    BY <1>2
  <2>2. n + 1 \in 1..N /\ (n + 1) - 1 = n
    OBVIOUS
  <2>3. t[n + 1] = MergeTurn(lists, t[n])
    BY <2>2 DEF Turns
  <2>4. PICK at, r : at = t[n].at /\ r = t[n].result
    OBVIOUS
  <2>5. CASE Possible(lists, at) = {}
    <3>1. t[n + 1] = t[n]
      BY <2>3, <2>4, <2>5 DEF MergeTurn
    <3> QED
      BY <2>1, <2>4, <2>5, <3>1
  <2>6. CASE Possible(lists, at) # {}
    <3>1. PICK c : c = NextCandidate(lists, at)
      OBVIOUS
    <3>2. PICK at2, r2 : at2 = RemoveCandidate(lists, at, c) /\ r2 = Append(r, c)
      OBVIOUS
    <3>3. t[n + 1] = [at |-> at2, result |-> r2]
      BY <2>3, <2>4, <2>6, <3>1, <3>2 DEF MergeTurn
    <3>4. Merged(lists, C, at, r)
      BY <2>1, <2>4
    <3>5. Len(r) = n
      BY <2>1, <2>4, <2>6
    <3>a. Takes(lists, at, r, c, at2, r2)
      BY <2>6, <3>1, <3>2 DEF Takes
    <3>6. Merged(lists, C, at2, r2) /\ Len(r2) = Len(r) + 1
      BY <3>4, <3>a, MergedTurn
    <3> QED
      BY <3>3, <3>5, <3>6
  <2> QED
    BY <2>5, <2>6
<1>3. Nat \subseteq T
  <2> HIDE DEF T
  <2> QED
    BY <1>1, <1>2, SetInduction
<1> QED
  BY <1>3

LEMMA ElementsParts ==
    ASSUME NEW C, NEW lists, ListsOf(lists, C)
    PROVE  /\ Elements(lists) \subseteq C
           /\ \A x : x \in Elements(lists) <=>
                       \E i \in DOMAIN lists : \E k \in 1..Len(lists[i]) : x = lists[i][k]
BY DEF Elements, Range, ListsOf

\* The loop ends: at its last turn there is no candidate.
LEMMA MergeEnds ==
    ASSUME NEW C, IsFiniteSet(C), NEW lists, ListsOf(lists, C)
    PROVE  /\ Merged(lists, C, MergeEnd(lists).at, MergeEnd(lists).result)
           /\ Possible(lists, MergeEnd(lists).at) = {}
<1>1. PICK N, E : E = Elements(lists) /\ N = Cardinality(E)
  OBVIOUS
<1>2. IsFiniteSet(E)
  BY <1>1, ElementsParts, FS_Subset
<1>3. N \in Nat
  BY <1>1, <1>2, FS_CardinalityType
<1>4. Turns(MergeTurns(lists), lists, N)
  BY <1>1, <1>3, MergeTurnsAre
<1>5. PICK at, r : at = MergeEnd(lists).at /\ r = MergeEnd(lists).result
  OBVIOUS
<1>6. MergeEnd(lists) = MergeTurns(lists)[N]
  BY <1>1 DEF MergeEnd
<1>7. Merged(lists, C, at, r) /\ (Possible(lists, at) = {} \/ Len(r) = N)
  BY <1>3, <1>4, <1>5, <1>6, MergedAlways
<1>8. ASSUME Len(r) = N PROVE Possible(lists, at) = {}
  <2>1. r \in Seq(C) /\ Once(r) /\ FromLists(lists, at, r) /\ Counted(lists, at)
    BY <1>7 DEF Merged
  <2>2. \A p \in 1..N : r[p] \in E
    <3> SUFFICES ASSUME NEW p \in 1..N PROVE r[p] \in E
      OBVIOUS
    <3>1. PICK i \in DOMAIN lists : \E k \in 1..at[i] : r[p] = lists[i][k]
      BY <1>8, <2>1 DEF FromLists
    <3>2. PICK k \in 1..at[i] : r[p] = lists[i][k]
      BY <3>1
    <3>3. k \in 1..Len(lists[i])
      BY <2>1 DEF Counted, ListsOf
    <3> QED
      BY <1>1, <3>2, <3>3, ElementsParts
  <2>3. r \in [1..N -> E]
    BY <1>8, <2>1, <2>2
  <2>4. r \in Injection(1..N, E)
    BY <1>8, <2>1, <2>3 DEF Injection, IsInjective, Once
  <2>5. Cardinality(1..N) = N
    BY <1>3, FS_Interval
  <2>6. r \in Surjection(1..N, E)
    BY <1>1, <1>2, <2>4, <2>5, FS_Injection
  <2>7. \A x \in E : \E p \in 1..N : r[p] = x
    BY <2>6 DEF Surjection
  <2> SUFFICES ASSUME NEW i \in Possible(lists, at) PROVE FALSE
    OBVIOUS
  <2>8. i \in DOMAIN lists /\ at[i] < Len(lists[i]) /\ at[i] \in Nat /\ Len(lists[i]) \in Nat
    BY <2>1 DEF Possible, HasHead, Counted, ListsOf
  <2>9. at[i] + 1 \in (at[i] + 1)..Len(lists[i]) /\ at[i] + 1 \in 1..Len(lists[i])
    BY <2>8
  <2>10. lists[i][at[i] + 1] \in E
    BY <1>1, <2>8, <2>9, ElementsParts
  <2>11. PICK p \in 1..N : r[p] = lists[i][at[i] + 1]
    BY <2>7, <2>10
  <2> QED
    BY <1>7, <1>8, <2>8, <2>9, <2>11 DEF Merged, Left
<1> QED
  BY <1>5, <1>7, <1>8

-----------------------------------------------------------------------------
(* What cThreeMerge returns.                                               *)

\* All elements of the lists, once and in their order.
Suits(lists, r) ==
    /\ IsInjective(r) /\ Range(r) = Elements(lists)
    /\ \A i \in DOMAIN lists : KeepsOrder(r, lists[i])

LEMMA UsedUpSuits ==
    ASSUME NEW C, NEW lists, ListsOf(lists, C), NEW at, NEW r,
           Merged(lists, C, at, r), UsedUp(lists, at)
    PROVE  Suits(lists, r)
<1>1. PICK n : n = Len(r)
  OBVIOUS
<1>2. r \in Seq(C) /\ Once(r) /\ n \in Nat /\ DOMAIN r = 1..n
  BY <1>1, LenProperties DEF Merged
<1>3. \A i \in DOMAIN lists : at[i] = Len(lists[i]) /\ DOMAIN lists[i] = 1..at[i]
  BY DEF UsedUp, ListsOf
<1>4. IsInjective(r)
  BY <1>1, <1>2 DEF IsInjective, Once
<1>5. \A x : x \in Range(r) <=> \E p \in 1..n : x = r[p]
  BY <1>2 DEF Range
<1>6. Range(r) \subseteq Elements(lists)
  <2> SUFFICES ASSUME NEW p \in 1..n PROVE r[p] \in Elements(lists)
    BY <1>5
  <2>1. PICK i \in DOMAIN lists : \E k \in 1..at[i] : r[p] = lists[i][k]
    BY <1>1 DEF Merged, FromLists
  <2> QED
    BY <1>3, <2>1, ElementsParts
<1>7. Elements(lists) \subseteq Range(r)
  <2> SUFFICES ASSUME NEW i \in DOMAIN lists, NEW k \in 1..Len(lists[i])
               PROVE  lists[i][k] \in Range(r)
    BY ElementsParts
  <2>1. k \in 1..at[i]
    BY <1>3
  <2>2. PICK p \in 1..Len(r) : r[p] = lists[i][k]
    BY <2>1 DEF Merged, Lost
  <2> QED
    BY <1>1, <1>5, <2>2
<1>8. ASSUME NEW i \in DOMAIN lists PROVE KeepsOrder(r, lists[i])
  <2>1. \A j, k \in 1..at[i] :
          j < k => \E p, q \in 1..n : p < q /\ r[p] = lists[i][j] /\ r[q] = lists[i][k]
    BY <1>1 DEF Merged, InOrder
  <2>2. DOMAIN lists[i] = 1..at[i] /\ DOMAIN r = 1..n
    BY <1>2, <1>3
  <2>3. \A j, k \in DOMAIN lists[i] :
          j < k => \E p, q \in DOMAIN r : p < q /\ r[p] = lists[i][j] /\ r[q] = lists[i][k]
    BY <2>1, <2>2
  <2> QED
    BY <2>3, Zenon DEF KeepsOrder
<1> QED
  BY <1>4, <1>6, <1>7, <1>8 DEF Suits

\* Where the loop stops before the lists are used up there is no order of
\* the elements that suits all lists: its first element that is left in a
\* list is the head of that list and in no other tail.
LEMMA StuckNeverSuits ==
    ASSUME NEW C, NEW lists, ListsOf(lists, C), NEW at, Counted(lists, at),
           Possible(lists, at) = {}, ~UsedUp(lists, at),
           NEW D, NEW order \in Seq(D)
    PROVE  ~Suits(lists, order)
<1> SUFFICES ASSUME Suits(lists, order) PROVE FALSE
  OBVIOUS
<1>1. PICK n : n = Len(order)
  OBVIOUS
<1>2. n \in Nat /\ DOMAIN order = 1..n
  BY <1>1, LenProperties
<1>3. \A i \in DOMAIN lists : at[i] \in Nat /\ Len(lists[i]) \in Nat /\ at[i] <= Len(lists[i])
  BY DEF Counted, ListsOf
<1>4. \A p, q \in 1..n : order[p] = order[q] => p = q
  BY <1>2 DEF Suits, IsInjective
<1>5. \A i \in DOMAIN lists : \A k \in 1..Len(lists[i]) : \E p \in 1..n : order[p] = lists[i][k]
  <2> SUFFICES ASSUME NEW i \in DOMAIN lists, NEW k \in 1..Len(lists[i])
               PROVE  \E p \in 1..n : order[p] = lists[i][k]
    OBVIOUS
  <2>1. lists[i][k] \in Range(order)
    BY ElementsParts DEF Suits
  <2> QED
    BY <1>2, <2>1 DEF Range
<1>6. \A i \in DOMAIN lists : \A j, k \in 1..Len(lists[i]) :
        j < k => \E p, q \in 1..n : p < q /\ order[p] = lists[i][j] /\ order[q] = lists[i][k]
  <2> SUFFICES ASSUME NEW i \in DOMAIN lists, NEW j \in 1..Len(lists[i]), NEW k \in 1..Len(lists[i]), j < k
               PROVE  \E p, q \in 1..n : p < q /\ order[p] = lists[i][j] /\ order[q] = lists[i][k]
    OBVIOUS
  <2>1. KeepsOrder(order, lists[i]) /\ DOMAIN lists[i] = 1..Len(lists[i])
    BY DEF Suits, ListsOf
  <2> QED
    BY <1>2, <2>1 DEF KeepsOrder
<1>7. PICK T : T = {p \in 1..n : \E i \in DOMAIN lists : \E k \in (at[i] + 1)..Len(lists[i]) : order[p] = lists[i][k]}
  OBVIOUS
<1>8. T \in SUBSET Nat /\ T # {}
  <2>1. PICK i \in DOMAIN lists : at[i] # Len(lists[i])
    BY DEF UsedUp
  <2>2. at[i] + 1 \in (at[i] + 1)..Len(lists[i]) /\ at[i] + 1 \in 1..Len(lists[i])
    BY <1>3, <2>1
  <2>3. PICK p \in 1..n : order[p] = lists[i][at[i] + 1]
    BY <1>5, <2>2
  <2> QED
    BY <1>2, <1>7, <2>2, <2>3
<1>9. PICK p \in T : \A q \in T : p <= q
  BY <1>8, LeastNumber
<1>10. p \in 1..n /\ \E i \in DOMAIN lists : \E k \in (at[i] + 1)..Len(lists[i]) : order[p] = lists[i][k]
  BY <1>7
<1>11. PICK i \in DOMAIN lists : \E k \in (at[i] + 1)..Len(lists[i]) : order[p] = lists[i][k]
  BY <1>10
\* No list has it behind its head.
<1>12. \A j \in DOMAIN lists : \A k \in (at[j] + 2)..Len(lists[j]) : lists[j][k] # order[p]
  <2> SUFFICES ASSUME NEW j \in DOMAIN lists, NEW k \in (at[j] + 2)..Len(lists[j]),
                      lists[j][k] = order[p]
               PROVE  FALSE
    OBVIOUS
  <2>1. /\ at[j] + 1 \in 1..Len(lists[j]) /\ at[j] + 1 \in (at[j] + 1)..Len(lists[j])
        /\ k \in 1..Len(lists[j]) /\ at[j] + 1 < k
    BY <1>3
  <2>2. PICK q \in 1..n, q2 \in 1..n : q < q2 /\ order[q] = lists[j][at[j] + 1] /\ order[q2] = lists[j][k]
    BY <1>6, <2>1
  <2>3. q2 = p /\ q \in T
    BY <1>4, <1>7, <1>10, <2>1, <2>2
  <2> QED
    BY <1>2, <1>9, <1>10, <2>2, <2>3
<1>13. HasHead(lists, at, i) /\ HeadOf(lists, at, i) = order[p]
  <2>1. PICK k \in (at[i] + 1)..Len(lists[i]) : order[p] = lists[i][k]
    BY <1>11
  <2>2. k = at[i] + 1
    BY <1>3, <1>12, <2>1
  <2> QED
    BY <1>3, <2>1, <2>2 DEF HasHead, HeadOf
<1>14. AppearsOnlyAtHead(lists, at, order[p])
  BY <1>12 DEF AppearsOnlyAtHead
<1>15. i \in Possible(lists, at)
  BY <1>13, <1>14 DEF Possible
<1> QED
  BY <1>15

\* What cThreeMerge returns has all elements of the lists, once and in the
\* order of every list.
THEOREM MergeKeepsOrder ==
    ASSUME NEW C, IsFiniteSet(C), NEW lists \in Seq(Seq(C)), CThreeMerge(lists) # <<>>
    PROVE  CThreeMerge(lists) \in Seq(C) /\ Suits(lists, CThreeMerge(lists))
<1>1. PICK at, r : at = MergeEnd(lists).at /\ r = MergeEnd(lists).result
  OBVIOUS
<1>2. ListsOf(lists, C)
  BY ListsParts
<1>3. Merged(lists, C, at, r)
  BY <1>1, <1>2, MergeEnds
<1>4. UsedUp(lists, at) /\ CThreeMerge(lists) = r
  BY <1>1 DEF CThreeMerge
<1>5. Suits(lists, r)
  BY <1>2, <1>3, <1>4, UsedUpSuits
<1> QED
  BY <1>3, <1>4, <1>5 DEF Merged

\* It returns nothing only if there is nothing to return, in any order.
THEOREM MergeRefusesOnlyImpossible ==
    ASSUME NEW C, IsFiniteSet(C), NEW lists \in Seq(Seq(C)), Elements(lists) # {},
           CThreeMerge(lists) = <<>>, NEW D, NEW order \in Seq(D)
    PROVE  ~Suits(lists, order)
<1>1. PICK at, r : at = MergeEnd(lists).at /\ r = MergeEnd(lists).result
  OBVIOUS
<1>2. ListsOf(lists, C)
  BY ListsParts
<1>3. Merged(lists, C, at, r) /\ Possible(lists, at) = {}
  BY <1>1, <1>2, MergeEnds
<1>4. CASE UsedUp(lists, at)
  <2>1. Suits(lists, r)
    BY <1>2, <1>3, <1>4, UsedUpSuits
  <2>2. r = <<>>
    BY <1>1, <1>4 DEF CThreeMerge
  <2>3. Range(r) = {}
    BY <2>2 DEF Range
  <2> QED
    BY <2>1, <2>3 DEF Suits
<1>5. CASE ~UsedUp(lists, at)
  <2>1. Counted(lists, at)
    BY <1>3 DEF Merged
  <2> QED
    BY <1>2, <1>3, <1>5, <2>1, StuckNeverSuits
<1> QED
  BY <1>4, <1>5

-----------------------------------------------------------------------------
(* Ancestors.                                                              *)

\* Every contract has only earlier ones as its bases.
EarlierBases(bases, n) == \A d \in 1..n : Range(bases[d]) \subseteq 1..(d - 1)

\* A set of contracts with all that contract c inherits from.
HoldsBases(bases, c, S) == Range(bases[c]) \subseteq S /\ ClosedUnder(bases, S)

LEMMA AncestorsIn ==
    ASSUME NEW bases, NEW c, NEW x
    PROVE  x \in Ancestors(bases, c) <=>
             x \in 1..(c - 1) /\ \A S \in SUBSET (1..(c - 1)) : HoldsBases(bases, c, S) => x \in S
BY DEF Ancestors, HoldsBases

LEMMA AncestorsHoldBases ==
    ASSUME NEW n \in Nat, NEW bases, EarlierBases(bases, n), NEW c \in 1..n
    PROVE  HoldsBases(bases, c, Ancestors(bases, c))
<1>1. Range(bases[c]) \subseteq Ancestors(bases, c)
  BY AncestorsIn DEF HoldsBases, EarlierBases
<1>2. ASSUME NEW d \in Ancestors(bases, c), NEW y \in Range(bases[d]) PROVE y \in Ancestors(bases, c)
  <2>1. d \in 1..(c - 1) /\ d \in 1..n
    BY AncestorsIn
  <2>2. y \in 1..(c - 1)
    BY <2>1 DEF EarlierBases
  <2>3. ASSUME NEW S \in SUBSET (1..(c - 1)), HoldsBases(bases, c, S) PROVE y \in S
    <3>1. d \in S
      BY <2>3, AncestorsIn
    <3> QED
      BY <2>3, <3>1 DEF HoldsBases, ClosedUnder
  <2> QED
    BY <2>2, <2>3, AncestorsIn
<1> QED
  BY <1>1, <1>2 DEF HoldsBases, ClosedUnder

\* The ancestors of a contract are its bases and theirs.
LEMMA AncestorsUnfold ==
    ASSUME NEW n \in Nat, NEW bases, EarlierBases(bases, n), NEW c \in 1..n
    PROVE  \A y : y \in Ancestors(bases, c) <=>
                    \E x \in Range(bases[c]) : y = x \/ y \in Ancestors(bases, x)
<1>0. ASSUME NEW x \in Range(bases[c]) PROVE x \in 1..(c - 1) /\ x \in 1..n
  BY <1>0 DEF EarlierBases
<1>1. ASSUME NEW x \in Range(bases[c]), NEW y \in Ancestors(bases, x) PROVE y \in Ancestors(bases, c)
  <2>1. x \in 1..(c - 1) /\ y \in 1..(x - 1) /\ x \in 1..n
    BY <1>0, AncestorsIn
  <2>2. ASSUME NEW S \in SUBSET (1..(c - 1)), HoldsBases(bases, c, S) PROVE y \in S
    <3>1. PICK R : R = S \cap (1..(x - 1))
      OBVIOUS
    <3>2. x \in S /\ ClosedUnder(bases, S)
      BY <2>2 DEF HoldsBases
    <3>3. Range(bases[x]) \subseteq R
      BY <2>1, <3>1, <3>2 DEF ClosedUnder, EarlierBases
    <3>4. ASSUME NEW d \in R PROVE Range(bases[d]) \subseteq R
      <4>1. d \in S /\ d \in 1..(x - 1) /\ d \in 1..n
        BY <2>1, <3>1
      <4>2. Range(bases[d]) \subseteq S
        BY <3>2, <4>1 DEF ClosedUnder
      <4>3. Range(bases[d]) \subseteq 1..(d - 1)
        BY <4>1 DEF EarlierBases
      <4> QED
        BY <2>1, <3>1, <4>1, <4>2, <4>3
    <3>5. HoldsBases(bases, x, R) /\ R \in SUBSET (1..(x - 1))
      BY <3>1, <3>3, <3>4 DEF HoldsBases, ClosedUnder
    <3> QED
      BY <3>1, <3>5, AncestorsIn
  <2>3. y \in 1..(c - 1)
    BY <2>1
  <2> QED
    BY <2>2, <2>3, AncestorsIn
<1>2. ASSUME NEW y \in Ancestors(bases, c)
      PROVE  \E x \in Range(bases[c]) : y = x \/ y \in Ancestors(bases, x)
  <2>1. PICK U : U = {z \in 1..(c - 1) : \E x \in Range(bases[c]) : z = x \/ z \in Ancestors(bases, x)}
    OBVIOUS
  <2>2. Range(bases[c]) \subseteq U
    BY <1>0, <2>1
  <2>3. ASSUME NEW d \in U, NEW z \in Range(bases[d]) PROVE z \in U
    <3>1. PICK x \in Range(bases[c]) : d = x \/ d \in Ancestors(bases, x)
      BY <2>1
    <3>2. x \in 1..(c - 1) /\ x \in 1..n
      BY <1>0
    <3>3. HoldsBases(bases, x, Ancestors(bases, x))
      BY <3>2, AncestorsHoldBases
    <3>4. z \in Ancestors(bases, x)
      BY <3>1, <3>3 DEF HoldsBases, ClosedUnder
    <3>5. z \in 1..(x - 1)
      BY <3>4, AncestorsIn
    <3>6. z \in 1..(c - 1)
      BY <3>2, <3>5
    <3> QED
      BY <2>1, <3>4, <3>6
  <2>4. HoldsBases(bases, c, U) /\ U \in SUBSET (1..(c - 1))
    BY <2>1, <2>2, <2>3 DEF HoldsBases, ClosedUnder
  <2>5. y \in U
    BY <2>4, AncestorsIn
  <2> QED
    BY <2>1, <2>5
<1>3. HoldsBases(bases, c, Ancestors(bases, c))
  BY AncestorsHoldBases
<1> QED
  BY <1>1, <1>2, <1>3 DEF HoldsBases

\* Later contracts do not matter.
LEMMA AncestorsStay ==
    ASSUME NEW n \in Nat, NEW bases, NEW more, EarlierBases(bases, n),
           \A d \in 1..n : more[d] = bases[d], NEW c \in 1..n
    PROVE  Ancestors(more, c) = Ancestors(bases, c)
<1>1. ASSUME NEW S \in SUBSET (1..(c - 1)) PROVE HoldsBases(more, c, S) <=> HoldsBases(bases, c, S)
  <2>1. \A d \in S : more[d] = bases[d]
    OBVIOUS
  <2> QED
    BY <2>1 DEF HoldsBases, ClosedUnder
<1> QED
  BY <1>1, AncestorsIn

-----------------------------------------------------------------------------
(* One contract.                                                           *)

LEMMA ListedOnce ==
    ASSUME NEW D, NEW list \in Seq(D), IsInjective(list)
    PROVE  list \in Orders(Range(list))
<1>1. PICK n, all : n = Len(list) /\ all = Range(list)
  OBVIOUS
<1>2. n \in Nat /\ DOMAIN list = 1..n
  BY <1>1, LenProperties
<1>3. list \in [1..n -> all]
  BY <1>1, <1>2 DEF Range
<1>4. list \in Injection(1..n, all) /\ list \in Surjection(1..n, all)
  BY <1>1, <1>2, <1>3 DEF Injection, IsInjective, Surjection, Range
<1>5. ExistsBijection(1..n, all)
  BY <1>4 DEF ExistsBijection, Bijection
<1>6. Cardinality(all) = n
  BY <1>2, <1>5, FS_CountingElements
<1> QED
  BY <1>1, <1>3, <1>6 DEF Orders

LEMMA OrdersParts ==
    ASSUME NEW all, IsFiniteSet(all), NEW list \in Orders(all)
    PROVE  list \in Seq(all) /\ IsInjective(list) /\ Range(list) = all
<1>1. Cardinality(all) \in Nat
  BY FS_CardinalityType
<1>2. list \in [1..Cardinality(all) -> all]
  BY DEF Orders
<1>3. list \in Seq(all)
  BY <1>1, <1>2, IsASeq
<1> QED
  BY <1>3 DEF Orders

\* The lists that cThreeMerge is given.
ListsFor(c, bs, lin) == Reverse([i \in DOMAIN bs |-> lin[bs[i]]]) \o <<<<c>> \o Reverse(bs)>>

\* k linearisations from the last base to the first, and the bases themselves.
Given(c, bs, lin, lists, own, k) ==
    /\ lists = ListsFor(c, bs, lin) /\ own = <<c>> \o Reverse(bs) /\ k = Len(bs)
    /\ \A x \in Range(bs) : lin[x] \in Seq(1..c)
Indexed(c, bs, lin, lists, own, k) ==
    /\ k \in Nat /\ DOMAIN bs = 1..k
    /\ own \in Seq(1..c) /\ Len(own) = k + 1 /\ DOMAIN own = 1..(k + 1) /\ own[1] = c
    /\ \A i \in 1..k : own[i + 1] = bs[(k - i) + 1]
    /\ lists \in Seq(Seq(1..c)) /\ DOMAIN lists = 1..(k + 1) /\ lists[k + 1] = own
    /\ \A i \in 1..k : lists[i] = lin[bs[(k - i) + 1]]

LEMMA ListsForParts ==
    ASSUME NEW c \in Nat \ {0}, NEW bs \in Seq(1..(c - 1)), NEW lin,
           NEW lists, NEW own, NEW k, Given(c, bs, lin, lists, own, k)
    PROVE  Indexed(c, bs, lin, lists, own, k)
<1>0. /\ lists = ListsFor(c, bs, lin) /\ own = <<c>> \o Reverse(bs) /\ k = Len(bs)
      /\ \A x \in Range(bs) : lin[x] \in Seq(1..c)
  BY DEF Given
<1>1. k \in Nat /\ DOMAIN bs = 1..k
  BY <1>0, LenProperties
<1>2. \A i \in 1..k : (k - i) + 1 \in 1..k /\ bs[(k - i) + 1] \in 1..c
  <2> SUFFICES ASSUME NEW i \in 1..k PROVE (k - i) + 1 \in 1..k /\ bs[(k - i) + 1] \in 1..c
    OBVIOUS
  <2>1. (k - i) + 1 \in 1..k
    BY <1>1
  <2>2. bs[(k - i) + 1] \in 1..(c - 1)
    BY <1>0, <2>1, ElementOfSeq
  <2> QED
    BY <2>1, <2>2
<1>3. PICK rev : rev = Reverse(bs)
  OBVIOUS
<1>4. rev = [i \in 1..k |-> bs[(k - i) + 1]]
  BY <1>0, <1>3 DEF Reverse
<1>5. rev \in Seq(1..c)
  BY <1>1, <1>2, <1>4, IsASeq
<1>6. Len(rev) = k /\ \A i \in 1..k : rev[i] = bs[(k - i) + 1]
  BY <1>1, <1>4, <1>5, LenProperties
<1>a. PICK one, S : one = <<c>> /\ S = 1..c
  OBVIOUS
<1>7. one \in Seq(S) /\ Len(one) = 1 /\ one[1] = c
  BY <1>a
<1>8. /\ own \in Seq(1..c) /\ Len(own) = k + 1 /\ own[1] = c
      /\ \A i \in 1..k : own[i + 1] = bs[(k - i) + 1]
  <2>1. own = one \o rev
    BY <1>0, <1>3, <1>a
  <2>a. rev \in Seq(S)
    BY <1>5, <1>a
  <2>2. own \in Seq(S) /\ Len(own) = Len(one) + Len(rev)
    BY <1>7, <2>1, <2>a, ConcatProperties
  <2>3. \A i \in 1..(Len(one) + Len(rev)) : own[i] = IF i <= Len(one) THEN one[i] ELSE rev[i - Len(one)]
    <3>1. own = one \o rev /\ one \in Seq(S) /\ rev \in Seq(S)
      BY <1>7, <2>1, <2>a
    <3> QED
      BY ONLY <3>1, ConcatProperties
  <2>4. own \in Seq(1..c) /\ Len(own) = k + 1
    BY <1>1, <1>6, <1>7, <1>a, <2>2
  <2>5. own[1] = c
    BY <1>1, <1>6, <1>7, <2>3
  <2>6. ASSUME NEW i \in 1..k PROVE own[i + 1] = bs[(k - i) + 1]
    <3>1. i + 1 \in 1..(1 + k) /\ ~(i + 1 <= 1) /\ (i + 1) - 1 = i
      BY <1>1
    <3>2. own[i + 1] = rev[i]
      BY <1>6, <1>7, <2>3, <3>1
    <3> QED
      BY <1>6, <3>2
  <2> QED
    BY <2>4, <2>5, <2>6
<1>9. PICK ls, back : ls = [i \in DOMAIN bs |-> lin[bs[i]]] /\ back = Reverse(ls)
  OBVIOUS
<1>10. \A i \in 1..k : lin[bs[i]] \in Seq(1..c)
  BY <1>0, <1>1 DEF Range
<1>11. ls \in Seq(Seq(1..c)) /\ Len(ls) = k /\ \A i \in 1..k : ls[i] = lin[bs[i]]
  <2>1. ls = [i \in 1..k |-> lin[bs[i]]]
    BY <1>1, <1>9
  <2>2. ls \in Seq(Seq(1..c))
    BY <1>1, <1>10, <2>1, IsASeq
  <2> QED
    BY <1>1, <2>1, <2>2, LenProperties
<1>12. back \in Seq(Seq(1..c)) /\ Len(back) = k /\ \A i \in 1..k : back[i] = lin[bs[(k - i) + 1]]
  <2>1. back = [i \in 1..k |-> ls[(k - i) + 1]]
    BY <1>9, <1>11 DEF Reverse
  <2>2. \A i \in 1..k : ls[(k - i) + 1] = lin[bs[(k - i) + 1]] /\ ls[(k - i) + 1] \in Seq(1..c)
    BY <1>2, <1>10, <1>11
  <2>3. back \in Seq(Seq(1..c))
    BY <1>1, <2>1, <2>2, IsASeq
  <2> QED
    BY <1>1, <2>1, <2>2, <2>3, LenProperties
<1>b. PICK last, Q : last = <<own>> /\ Q = Seq(1..c)
  OBVIOUS
<1>13. last \in Seq(Q) /\ Len(last) = 1 /\ last[1] = own
  BY <1>8, <1>b
<1>c. lists = back \o last /\ back \in Seq(Q)
  BY <1>0, <1>9, <1>12, <1>b DEF ListsFor
<1>14. /\ lists \in Seq(Q) /\ Len(lists) = Len(back) + Len(last)
       /\ \A i \in 1..(Len(back) + Len(last)) :
             lists[i] = IF i <= Len(back) THEN back[i] ELSE last[i - Len(back)]
  <2>1. lists = back \o last /\ back \in Seq(Q) /\ last \in Seq(Q)
    BY <1>13, <1>c
  <2> QED
    BY ONLY <2>1, ConcatProperties
<1>15. lists \in Seq(Seq(1..c)) /\ Len(lists) = k + 1
  BY <1>1, <1>12, <1>13, <1>14, <1>b
<1>d. \A i \in 1..(k + 1) : lists[i] = IF i <= k THEN back[i] ELSE last[i - k]
  BY <1>12, <1>13, <1>14
<1>16. lists[k + 1] = own /\ \A i \in 1..k : lists[i] = back[i]
  BY <1>1, <1>13, <1>d
<1>17. DOMAIN lists = 1..(k + 1)
  BY <1>15, LenProperties
<1>18. DOMAIN own = 1..(k + 1)
  BY <1>8, LenProperties
<1>19. \A i \in 1..k : lists[i] = lin[bs[(k - i) + 1]]
  BY <1>12, <1>16
<1> QED
  BY <1>1, <1>8, <1>15, <1>16, <1>17, <1>18, <1>19 DEF Indexed

\* What the linearisations of the first n contracts are, if none is refused.
Linearised(bases, lin, n) ==
    \A x \in 1..n : lin[x] \in Seq(1..x) /\ Range(lin[x]) = {x} \cup Ancestors(bases, x)

LEMMA ListsForElements ==
    ASSUME NEW c \in Nat \ {0}, NEW bases, NEW lin, EarlierBases(bases, c), bases[c] \in Seq(1..(c - 1)),
           Linearised(bases, lin, c - 1), NEW lists, lists = ListsFor(c, bases[c], lin)
    PROVE  /\ lists \in Seq(Seq(1..c))
           /\ Elements(lists) = {c} \cup Ancestors(bases, c)
           /\ \A list : (\A i \in DOMAIN lists : KeepsOrder(list, lists[i])) <=> GoodOrder(bases, lin, c, list)
<1>1. PICK bs, k, own : bs = bases[c] /\ k = Len(bs) /\ own = <<c>> \o Reverse(bs)
  OBVIOUS
<1>2. \A x \in Range(bs) : x \in 1..(c - 1) /\ lin[x] \in Seq(1..c)
  <2> SUFFICES ASSUME NEW x \in Range(bs) PROVE x \in 1..(c - 1) /\ lin[x] \in Seq(1..c)
    OBVIOUS
  <2>1. x \in 1..(c - 1)
    BY <1>1 DEF EarlierBases
  <2>2. lin[x] \in Seq(1..x) /\ 1..x \subseteq 1..c
    BY <2>1 DEF Linearised
  <2> QED
    BY <2>1, <2>2, SeqMonotonic
<1>3. bs \in Seq(1..(c - 1)) /\ lists = ListsFor(c, bs, lin)
  BY <1>1
<1>a. Given(c, bs, lin, lists, own, k)
  BY <1>1, <1>2, <1>3 DEF Given
<1>b. Indexed(c, bs, lin, lists, own, k)
  BY <1>3, <1>a, ListsForParts
<1>4. /\ k \in Nat /\ DOMAIN bs = 1..k
      /\ DOMAIN own = 1..(k + 1) /\ own[1] = c
      /\ \A i \in 1..k : own[i + 1] = bs[(k - i) + 1]
      /\ lists \in Seq(Seq(1..c)) /\ DOMAIN lists = 1..(k + 1) /\ lists[k + 1] = own
      /\ \A i \in 1..k : lists[i] = lin[bs[(k - i) + 1]]
  BY <1>b DEF Indexed
<1>5. \A i \in 1..k : (k - i) + 1 \in 1..k /\ (k - ((k - i) + 1)) + 1 = i
  BY <1>4
<1>6. \A x : x \in Range(bs) <=> \E i \in 1..k : x = bs[i]
  BY <1>4 DEF Range
<1>7. \A x : x \in Range(bs) <=> \E i \in 1..k : x = bs[(k - i) + 1]
  BY <1>5, <1>6
<1>8. \A x \in Range(bs) : \E i \in DOMAIN lists : lists[i] = lin[x]
  <2> SUFFICES ASSUME NEW x \in Range(bs) PROVE \E i \in DOMAIN lists : lists[i] = lin[x]
    OBVIOUS
  <2>1. PICK i \in 1..k : x = bs[(k - i) + 1]
    BY <1>7
  <2>2. i \in 1..(k + 1)
    BY <1>4
  <2>3. lists[i] = lin[x]
    BY <1>4, <2>1
  <2> QED
    BY <1>4, <2>2, <2>3
<1>9. \A i \in DOMAIN lists : lists[i] = own \/ \E x \in Range(bs) : lists[i] = lin[x]
  <2> SUFFICES ASSUME NEW i \in DOMAIN lists, lists[i] # own PROVE \E x \in Range(bs) : lists[i] = lin[x]
    OBVIOUS
  <2>1. i \in 1..k
    BY <1>4
  <2>2. bs[(k - i) + 1] \in Range(bs) /\ lists[i] = lin[bs[(k - i) + 1]]
    BY <1>4, <1>7, <2>1
  <2> QED
    BY <2>2
<1>10. \E i \in DOMAIN lists : lists[i] = own
  <2>1. k + 1 \in 1..(k + 1)
    BY <1>4
  <2> QED
    BY <1>4, <2>1
<1>11. Range(own) = {c} \cup Range(bs)
  <2>1. DOMAIN own = 1..(k + 1) /\ 1 \in 1..(k + 1)
    BY <1>4
  <2>2. c \in Range(own)
    BY <1>4, <2>1 DEF Range
  <2>3. ASSUME NEW x \in Range(bs) PROVE x \in Range(own)
    <3>1. PICK i \in 1..k : x = bs[(k - i) + 1]
      BY <1>7
    <3>a. k \in Nat /\ own[i + 1] = bs[(k - i) + 1]
      BY <1>4
    <3>b. i + 1 \in 1..(k + 1)
      BY <3>a
    <3>2. i + 1 \in DOMAIN own /\ own[i + 1] = x
      BY <2>1, <3>1, <3>a, <3>b
    <3> QED
      BY <3>2 DEF Range
  <2>4. ASSUME NEW j \in 1..(k + 1) PROVE own[j] \in {c} \cup Range(bs)
    <3>1. CASE j = 1
      BY <1>4, <3>1
    <3>2. CASE j # 1
      <4>1. j - 1 \in 1..k /\ (j - 1) + 1 = j
        BY <1>4, <3>2
      <4>2. own[j] = bs[(k - (j - 1)) + 1]
        BY <1>4, <4>1
      <4> QED
        BY <1>7, <4>1, <4>2
    <3> QED
      BY <3>1, <3>2
  <2>5. Range(own) \subseteq {c} \cup Range(bs)
    BY <2>1, <2>4 DEF Range
  <2> QED
    BY <2>2, <2>3, <2>5
<1>12. \A x \in Range(bs) : Range(lin[x]) = {x} \cup Ancestors(bases, x)
  BY <1>2 DEF Linearised
<1>13. \A y : y \in Elements(lists) <=> y \in Range(own) \/ \E x \in Range(bs) : y \in Range(lin[x])
  <2>1. \A y : y \in Elements(lists) <=> \E i \in DOMAIN lists : y \in Range(lists[i])
    BY DEF Elements
  <2> QED
    BY <1>8, <1>9, <1>10, <2>1
<1>14. \A y : y \in Ancestors(bases, c) <=> \E x \in Range(bs) : y = x \/ y \in Ancestors(bases, x)
  <2>1. c \in Nat /\ c \in 1..c
    OBVIOUS
  <2> QED
    BY <1>1, <2>1, AncestorsUnfold
<1>15. Elements(lists) = {c} \cup Ancestors(bases, c)
  BY <1>11, <1>12, <1>13, <1>14
<1>16. ASSUME NEW list
       PROVE  (\A i \in DOMAIN lists : KeepsOrder(list, lists[i])) <=> GoodOrder(bases, lin, c, list)
  <2>1. GoodOrder(bases, lin, c, list) <=>
          KeepsOrder(list, own) /\ \A x \in Range(bs) : KeepsOrder(list, lin[x])
    BY <1>1 DEF GoodOrder
  <2> QED
    BY <1>8, <1>9, <1>10, <2>1
<1> QED
  BY <1>4, <1>15, <1>16

\* The linearisation of a contract suits its bases, if theirs do.
LEMMA ContractSuits ==
    ASSUME NEW c \in Nat \ {0}, NEW bases, NEW lin, EarlierBases(bases, c), bases[c] \in Seq(1..(c - 1)),
           Linearised(bases, lin, c - 1),
           lin[c] = CThreeMerge(ListsFor(c, bases[c], lin))
    PROVE  /\ SuitsBases(bases, lin, c)
           /\ lin[c] # <<>> => Linearised(bases, lin, c)
<1>1. PICK lists, all, C : lists = ListsFor(c, bases[c], lin) /\ all = {c} \cup Ancestors(bases, c) /\ C = 1..c
  OBVIOUS
<1>2. /\ lists \in Seq(Seq(C)) /\ Elements(lists) = all
      /\ \A list : (\A i \in DOMAIN lists : KeepsOrder(list, lists[i])) <=> GoodOrder(bases, lin, c, list)
  BY <1>1, ListsForElements
<1>3. IsFiniteSet(C)
  BY <1>1, FS_Interval
<1>4. all \subseteq C
  BY <1>1, AncestorsIn
<1>5. IsFiniteSet(all)
  BY <1>3, <1>4, FS_Subset
<1>6. CASE lin[c] = <<>>
  <2>1. CThreeMerge(lists) = <<>> /\ Elements(lists) # {}
    BY <1>1, <1>2, <1>6
  <2>2. ASSUME NEW list \in Orders(all), GoodOrder(bases, lin, c, list) PROVE FALSE
    <3>1. list \in Seq(all) /\ IsInjective(list) /\ Range(list) = all
      BY <1>5, <2>2, OrdersParts
    <3>2. Suits(lists, list)
      BY <1>2, <2>2, <3>1 DEF Suits
    <3> QED
      BY <1>2, <1>3, <2>1, <3>1, <3>2, MergeRefusesOnlyImpossible
  <2> QED
    BY <1>1, <1>6, <2>2 DEF SuitsBases
<1>7. CASE lin[c] # <<>>
  <2>1. lin[c] \in Seq(C) /\ Suits(lists, lin[c])
    BY <1>1, <1>2, <1>3, <1>7, MergeKeepsOrder
  <2>2. IsInjective(lin[c]) /\ Range(lin[c]) = all /\ GoodOrder(bases, lin, c, lin[c])
    BY <1>2, <2>1 DEF Suits
  <2>3. lin[c] \in Orders(all)
    BY <2>1, <2>2, ListedOnce
  <2>4. SuitsBases(bases, lin, c)
    BY <1>1, <1>7, <2>2, <2>3 DEF SuitsBases
  <2>5. ASSUME NEW x \in 1..c PROVE lin[x] \in Seq(1..x) /\ Range(lin[x]) = {x} \cup Ancestors(bases, x)
    <3>1. CASE x = c
      BY <1>1, <2>1, <2>2, <3>1
    <3>2. CASE x # c
      <4>1. x \in 1..(c - 1)
        BY <3>2
      <4> QED
        BY <4>1 DEF Linearised
    <3> QED
      BY <3>1, <3>2
  <2> QED
    BY <2>4, <2>5 DEF Linearised
<1> QED
  BY <1>6, <1>7

-----------------------------------------------------------------------------
(* All contracts.                                                          *)

\* What is right stays right when contracts are added.
LEMMA SuitsStays ==
    ASSUME NEW n \in Nat, NEW bases, NEW lin, NEW more, NEW lin2, EarlierBases(bases, n),
           \A d \in 1..n : more[d] = bases[d] /\ lin2[d] = lin[d],
           NEW c \in 1..n, SuitsBases(bases, lin, c)
    PROVE  SuitsBases(more, lin2, c)
<1>1. more[c] = bases[c] /\ lin2[c] = lin[c] /\ Ancestors(more, c) = Ancestors(bases, c)
  BY AncestorsStay
<1>2. \A b \in Range(bases[c]) : lin2[b] = lin[b]
  BY DEF EarlierBases
<1>3. \A list : GoodOrder(more, lin2, c, list) <=> GoodOrder(bases, lin, c, list)
  BY <1>1, <1>2 DEF GoodOrder
<1> QED
  BY <1>1, <1>3 DEF SuitsBases

\* As long as no contract has been refused, all bases come first and all
\* linearisations hold all ancestors.
InvHierarchy(bases, lin, n) ==
    /\ bases \in Seq(Seq(Nat \ {0})) /\ lin \in Seq(Seq(Nat)) /\ Len(bases) = n /\ Len(lin) = n
    /\ \A c \in 1..n : SuitsBases(bases, lin, c)
    /\ (\A c \in 1..n : lin[c] # <<>>) => EarlierBases(bases, n) /\ Linearised(bases, lin, n)

\* Contract c with the direct bases bs joins n others.
Joins(bases, lin, n, bs, more, lin2) ==
    /\ \A d \in 1..n : lin[d] # <<>>
    /\ more = Append(bases, bs)
    /\ lin2 = Append(lin, IF Range(bs) \subseteq 1..n THEN CThreeMerge(ListsFor(n + 1, bs, lin)) ELSE <<>>)

LEMMA HierarchyStep ==
    ASSUME NEW n \in Nat, NEW bases, NEW lin, InvHierarchy(bases, lin, n), NEW bs \in Seq(Nat \ {0}),
           NEW more, NEW lin2, Joins(bases, lin, n, bs, more, lin2)
    PROVE  InvHierarchy(more, lin2, n + 1)
<1>1. PICK c, x : c = n + 1 /\ x = IF Range(bs) \subseteq 1..n THEN CThreeMerge(ListsFor(c, bs, lin)) ELSE <<>>
  OBVIOUS
<1>2. /\ bases \in Seq(Seq(Nat \ {0})) /\ lin \in Seq(Seq(Nat)) /\ Len(bases) = n /\ Len(lin) = n
      /\ EarlierBases(bases, n) /\ Linearised(bases, lin, n)
      /\ more = Append(bases, bs) /\ lin2 = Append(lin, x)
  BY <1>1 DEF InvHierarchy, Joins
<1>3. /\ more \in Seq(Seq(Nat \ {0})) /\ Len(more) = c /\ more[c] = bs
      /\ \A d \in 1..n : more[d] = bases[d]
  BY <1>1, <1>2, AppendProperties
<1>4. Len(lin2) = c /\ lin2[c] = x /\ \A d \in 1..n : lin2[d] = lin[d]
  BY <1>1, <1>2
<1>5. c \in Nat \ {0} /\ c - 1 = n /\ 1..c = (1..n) \cup {c}
  BY <1>1
<1>6. \A d \in 1..n : SuitsBases(more, lin2, d)
  <2> SUFFICES ASSUME NEW d \in 1..n PROVE SuitsBases(more, lin2, d)
    OBVIOUS
  <2>1. SuitsBases(bases, lin, d)
    BY DEF InvHierarchy
  <2> QED
    BY <1>2, <1>3, <1>4, <2>1, SuitsStays
<1>7. CASE Range(bs) \subseteq 1..n
  <2>1. EarlierBases(more, c)
    BY <1>2, <1>3, <1>5, <1>7 DEF EarlierBases
  <2>2. bs \in Seq(1..n)
    <3>1. bs \in Seq(Range(bs))
      BY SeqOfRange
    <3> QED
      BY <1>7, <3>1, SeqMonotonic
  <2>3. Linearised(more, lin2, n)
    <3> SUFFICES ASSUME NEW d \in 1..n
                 PROVE  lin2[d] \in Seq(1..d) /\ Range(lin2[d]) = {d} \cup Ancestors(more, d)
      BY DEF Linearised
    <3>1. Ancestors(more, d) = Ancestors(bases, d)
      BY <1>2, <1>3, AncestorsStay
    <3> QED
      BY <1>2, <1>4, <3>1 DEF Linearised
  <2>4. ListsFor(c, bs, lin) = ListsFor(c, bs, lin2)
    <3>1. \A i \in DOMAIN bs : bs[i] \in 1..n
      BY <1>7 DEF Range
    <3>2. [i \in DOMAIN bs |-> lin[bs[i]]] = [i \in DOMAIN bs |-> lin2[bs[i]]]
      BY <1>4, <3>1
    <3> QED
      BY <3>2, Zenon DEF ListsFor
  <2>5. lin2[c] = CThreeMerge(ListsFor(c, more[c], lin2))
    BY <1>1, <1>3, <1>4, <1>7, <2>4
  <2>6. more[c] \in Seq(1..(c - 1)) /\ Linearised(more, lin2, c - 1)
    BY <1>3, <1>5, <2>2, <2>3
  <2>7. SuitsBases(more, lin2, c) /\ (lin2[c] # <<>> => Linearised(more, lin2, c))
    BY <1>5, <2>1, <2>5, <2>6, ContractSuits
  <2>8. x \in Seq(Nat)
    <3>1. CASE x = <<>>
      BY <3>1
    <3>2. CASE x # <<>>
      <4>1. x \in Seq(1..c)
        BY <1>4, <1>5, <2>7, <3>2 DEF Linearised
      <4>2. 1..c \subseteq Nat
        BY <1>5
      <4> QED
        BY <4>1, <4>2, SeqMonotonic
    <3> QED
      BY <3>1, <3>2
  <2>9. lin2 \in Seq(Seq(Nat))
    BY <1>2, <2>8, AppendProperties
  <2>10. \A d \in 1..c : SuitsBases(more, lin2, d)
    BY <1>5, <1>6, <2>7
  <2>11. (\A d \in 1..c : lin2[d] # <<>>) => EarlierBases(more, c) /\ Linearised(more, lin2, c)
    BY <1>5, <2>1, <2>7
  <2> QED
    BY <1>1, <1>3, <1>4, <2>9, <2>10, <2>11 DEF InvHierarchy
<1>8. CASE ~(Range(bs) \subseteq 1..n)
  <2>1. x = <<>> /\ lin2[c] = <<>>
    BY <1>1, <1>4, <1>8
  <2>2. lin2 \in Seq(Seq(Nat))
    <3>1. x \in Seq(Nat)
      BY <2>1
    <3> QED
      BY <1>2, <3>1, AppendProperties
  <2>3. SuitsBases(more, lin2, c)
    BY <1>3, <1>5, <1>8, <2>1 DEF SuitsBases
  <2>4. \A d \in 1..c : SuitsBases(more, lin2, d)
    BY <1>5, <1>6, <2>3
  <2> QED
    BY <1>1, <1>3, <1>4, <1>5, <2>1, <2>2, <2>4 DEF InvHierarchy
<1> QED
  BY <1>7, <1>8

IHierarchy == InvHierarchy(hierarchy, linearized, Len(hierarchy))

\* For every hierarchy, of any number of contracts: a linearisation holds
\* the contract and all its ancestors once, in an order that suits it and
\* each of its bases, and linearizeBaseContracts reports an error only if
\* there is no such order or a base is not defined before.
THEOREM LinearisationAlwaysSuitsBases == LinearisationSpec => []LinearisationSuitsBases
<1>1. LinearisationInit => IHierarchy
  <2> SUFFICES ASSUME LinearisationInit PROVE IHierarchy
    OBVIOUS
  <2>1. hierarchy = <<>> /\ linearized = <<>> /\ Len(hierarchy) = 0 /\ Len(linearized) = 0
    BY DEF LinearisationInit
  <2>2. hierarchy \in Seq(Seq(Nat \ {0})) /\ linearized \in Seq(Seq(Nat))
    BY <2>1
  <2>3. \A c \in 1..0 : FALSE
    OBVIOUS
  <2> QED
    BY <2>1, <2>2, <2>3 DEF IHierarchy, InvHierarchy, EarlierBases, Linearised
<1>2. IHierarchy /\ [LinearisationNext]_linearisationVars => IHierarchy'
  <2> SUFFICES ASSUME IHierarchy, [LinearisationNext]_linearisationVars
               PROVE  IHierarchy'
    OBVIOUS
  <2>1. CASE UNCHANGED linearisationVars
    BY <2>1 DEF linearisationVars, IHierarchy
  <2>2. CASE LinearisationNext
    <3>1. PICK bs \in Seq(Nat \ {0}) : ResolveContract(bs)
      BY <2>2 DEF LinearisationNext
    <3>2. PICK n : n = Len(hierarchy)
      OBVIOUS
    <3>3. n \in Nat /\ DOMAIN linearized = 1..n /\ InvHierarchy(hierarchy, linearized, n)
      BY <3>2, LenProperties DEF IHierarchy, InvHierarchy
    <3>4. Joins(hierarchy, linearized, n, bs, hierarchy', linearized')
      BY <3>1, <3>2, <3>3 DEF Joins, ResolveContract, LinearizeBaseContracts, ListsFor
    <3>5. InvHierarchy(hierarchy', linearized', n + 1)
      BY <3>3, <3>4, HierarchyStep
    <3>6. Len(hierarchy') = n + 1
      BY <3>5 DEF InvHierarchy
    <3> QED
      BY <3>5, <3>6 DEF IHierarchy
  <2> QED
    BY <2>1, <2>2
<1>3. IHierarchy => LinearisationSuitsBases
  <2> SUFFICES ASSUME IHierarchy PROVE LinearisationSuitsBases
    OBVIOUS
  <2>1. DOMAIN hierarchy = 1..Len(hierarchy)
    BY LenProperties DEF IHierarchy, InvHierarchy
  <2> QED
    BY <2>1 DEF IHierarchy, InvHierarchy, LinearisationSuitsBases
<1> QED
  BY <1>1, <1>2, <1>3, PTL DEF LinearisationSpec
=============================================================================
