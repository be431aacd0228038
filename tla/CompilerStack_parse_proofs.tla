--------------------- MODULE CompilerStack_parse_proofs ---------------------
(***************************************************************************)
(* What parse() promises.                                                  *)
(*                                                                         *)
(* The order: resolveImports lists exactly the sources that can be reached *)
(* from the user's own sources, each once, imported ones before their      *)
(* importers unless two sources import each other.  The argument is the    *)
(* one for depth-first search.  What has been seen is on the stack or      *)
(* finished; a finished source has only seen imports; each source on the   *)
(* stack is reachable from those below it.  So an import of the source     *)
(* that is finished next is either finished already, or it is on the stack *)
(* and the two reach each other.                                           *)
(*                                                                         *)
(* The verdict: parse() returns true when it has reported no error, and    *)
(* with one exception only then.  The code keeps two answers, m_errors and *)
(* the local noErrors.  Each phase but one updates both.  Registration     *)
(* reports a name declared twice without clearing noErrors, and parse()    *)
(* goes on.  If there is a contract, the verdict is right all the same,    *)
(* because checking the first contract of any source looks at all of       *)
(* m_errors.  If there is none, the name is the alias of two imports, and  *)
(* parse() returns true with the error reported.                           *)
(***************************************************************************)
EXTENDS CompilerStack_proofs

-----------------------------------------------------------------------------
(* Reachability along imports.                                             *)

LEMMA ReachableRefl ==
    ASSUME NEW S \in SUBSET Path PROVE S \subseteq Reachable(S)
BY DEF Reachable

\* What is reachable is closed under the imports of sources that exist.
LEMMA ReachableStep ==
    ASSUME NEW S, NEW p \in Reachable(S), p \in DOMAIN sources,
           NEW q \in ImportTargets(p), q \in Path
    PROVE  q \in Reachable(S)
<1> SUFFICES ASSUME NEW C \in SUBSET Path, S \subseteq C, ImportClosed(C) PROVE q \in C
  BY DEF Reachable
<1>1. p \in C
  BY DEF Reachable
<1> QED
  BY <1>1 DEF ImportClosed

LEMMA ReachableTrans ==
    ASSUME NEW S, NEW p \in Reachable(S), NEW q \in Reachable({p})
    PROVE  q \in Reachable(S)
<1> SUFFICES ASSUME NEW C \in SUBSET Path, S \subseteq C, ImportClosed(C) PROVE q \in C
  BY DEF Reachable
<1>1. {p} \subseteq C
  BY DEF Reachable
<1> QED
  BY <1>1 DEF Reachable

\* ... and it is the least set that is.
LEMMA ReachableLeast ==
    ASSUME NEW S, NEW C \in SUBSET Path, S \subseteq C, ImportClosed(C)
    PROVE  Reachable(S) \subseteq C
BY DEF Reachable

LEMMA SameGraph ==
    ASSUME UNCHANGED <<sources, remap>>
    PROVE  /\ \A p : ImportTargets(p)' = ImportTargets(p) /\ Imports(p)' = Imports(p)
           /\ \A p, k : Target(p, k)' = Target(p, k)
           /\ \A C : ImportClosed(C)' = ImportClosed(C)
           /\ \A S : Reachable(S)' = Reachable(S)
           /\ Roots' = Roots
           /\ \A p : Usable(p)' = Usable(p)
<1>1. /\ \A p : ImportTargets(p)' = ImportTargets(p) /\ Imports(p)' = Imports(p)
      /\ \A p, k : Target(p, k)' = Target(p, k)
  BY DEF ImportTargets, Imports, UnitOf, Target
<1>2. \A C : ImportClosed(C)' = ImportClosed(C)
  BY <1>1 DEF ImportClosed
<1>3. \A S : Reachable(S)' = Reachable(S)
  BY <1>2 DEF Reachable
<1> QED
  BY <1>1, <1>2, <1>3 DEF Roots, Usable, UnitOf

-----------------------------------------------------------------------------
(* The invariant.                                                          *)

\* From the sort on, the sources that are there are closed under imports.
InvClosed ==
    pc \in {"sort"} \cup OrderKnown =>
      \A q \in DOMAIN sources : Usable(q) /\ ImportTargets(q) \subseteq DOMAIN sources

OnStack(q) == \E i \in 1..Len(stack) : stack[i].path = q
Finished(q) == \E i \in 1..Len(order) : order[i] = q
\* The imports of a frame that the loop of toposort has passed.
Passed(frame) ==
    {Target(frame.path, k) : k \in {l \in DOMAIN Imports(frame.path) : l < frame.next}}

InvSearch ==
    pc = "sort" =>
      /\ \A q \in seen : OnStack(q) \/ Finished(q)
      /\ \A i \in 1..Len(stack) : Passed(stack[i]) \subseteq seen
      /\ \A i \in 1..Len(order) : ImportTargets(order[i]) \subseteq seen
      /\ \A i \in 1..Len(order) : \A q \in ImportTargets(order[i]) :
           (\E j \in 1..i : order[j] = q) \/ order[i] \in Reachable({q})
      /\ \A i, j \in 1..Len(stack) :
           i <= j => stack[i].path \in Reachable({stack[j].path})
      /\ seen \subseteq Reachable(Roots)
      /\ \A q \in Roots : q < pos => q \in seen

OInv == IInv /\ InvClosed /\ InvSearch /\ TopologicalOrder

LEMMA InitOrder == Init => OInv
<1> SUFFICES ASSUME Init PROVE OInv
  OBVIOUS
<1>1. pc = "idle"
  BY DEF Init
<1>2. InvClosed /\ InvSearch /\ TopologicalOrder
  BY <1>1 DEF InvClosed, InvSearch, TopologicalOrder, OrderKnown
<1> QED
  BY <1>2, InitIInv DEF OInv

\* The parts that speak of other phases than the one entered.
LEMMA OrderAway ==
    ASSUME pc' \notin {"sort"} \cup OrderKnown
    PROVE  InvClosed' /\ InvSearch' /\ TopologicalOrder'
BY DEF InvClosed, InvSearch, TopologicalOrder

\* The phases that walk m_sourceOrder change neither it nor the sources.
LEMMA OrderKept ==
    ASSUME OInv, UNCHANGED <<sources, sourceOrder, remap>>,
           pc \in OrderKnown, pc' \in OrderKnown
    PROVE  InvClosed' /\ InvSearch' /\ TopologicalOrder'
<1>1. pc' # "sort"
  BY DEF OrderKnown
<1>2. InvClosed'
  BY SameGraph DEF OInv, InvClosed
<1>3. TopologicalOrder'
  BY SameGraph DEF OInv, TopologicalOrder
<1> QED
  BY <1>1, <1>2, <1>3 DEF InvSearch

-----------------------------------------------------------------------------
(* The steps of the search.                                                *)

\* The sources do not change, so only the arguments of the invariant do.
LEMMA SearchNext ==
    ASSUME UNCHANGED <<sources, remap>>,
           \A q \in seen' :
             (\E i \in 1..Len(stack') : stack'[i].path = q)
          \/ (\E i \in 1..Len(order') : order'[i] = q),
           \A i \in 1..Len(stack') : Passed(stack'[i]) \subseteq seen',
           \A i \in 1..Len(order') : ImportTargets(order'[i]) \subseteq seen',
           \A i \in 1..Len(order') : \A q \in ImportTargets(order'[i]) :
             (\E j \in 1..i : order'[j] = q) \/ order'[i] \in Reachable({q}),
           \A i, j \in 1..Len(stack') :
             i <= j => stack'[i].path \in Reachable({stack'[j].path}),
           seen' \subseteq Reachable(Roots),
           \A q \in Roots : q < pos' => q \in seen'
    PROVE  InvSearch'
<1>1. /\ \A S : Reachable(S)' = Reachable(S) /\ Roots' = Roots
      /\ \A C : ImportClosed(C)' = ImportClosed(C)
  BY SameGraph
<1>2. (\A q \in seen : OnStack(q) \/ Finished(q))'
  BY DEF OnStack, Finished
<1>3. (\A i \in 1..Len(stack) : Passed(stack[i]) \subseteq seen)'
  BY DEF Passed, Target, Imports, UnitOf
<1>4. (\A i \in 1..Len(order) : ImportTargets(order[i]) \subseteq seen)'
  BY DEF ImportTargets, Target, Imports, UnitOf
<1>5. (\A i \in 1..Len(order) : \A q \in ImportTargets(order[i]) :
         (\E j \in 1..i : order[j] = q) \/ order[i] \in Reachable({q}))'
  <2> SUFFICES ASSUME NEW i \in 1..Len(order'), NEW q, (q \in ImportTargets(order[i]))'
               PROVE  ((\E j \in 1..i : order[j] = q) \/ order[i] \in Reachable({q}))'
    OBVIOUS
  <2>1. q \in ImportTargets(order'[i])
    BY DEF ImportTargets, Target, Imports, UnitOf
  <2>2. (\E j \in 1..i : order'[j] = q) \/ order'[i] \in Reachable({q})
    BY <2>1
  <2> QED
    BY <1>1, <2>2
<1>6. (\A i, j \in 1..Len(stack) :
         i <= j => stack[i].path \in Reachable({stack[j].path}))'
  BY <1>1 DEF Reachable
<1>7. (seen \subseteq Reachable(Roots))'
  BY <1>1 DEF Reachable
<1>8. (\A q \in Roots : q < pos => q \in seen)'
  BY <1>1
<1> QED
  BY <1>2, <1>3, <1>4, <1>5, <1>6, <1>7, <1>8 DEF InvSearch

LEMMA ClosedPath ==
    ASSUME OInv, pc = "sort", NEW p \in DOMAIN sources
    PROVE  /\ p \in Path
           /\ ImportTargets(p) \subseteq DOMAIN sources
           /\ ImportTargets(p) \subseteq Path
BY DEF OInv, InvClosed, IInv, InvSources

\* Visiting p, with rest as the frames below: p is seen afterwards.
LEMMA VisitSearch ==
    ASSUME OInv, pc = "sort", UNCHANGED <<pc, order, sources, remap>>,
           NEW p \in DOMAIN sources, p \in Reachable(Roots),
           NEW rest \in Seq(Frame),
           \A q \in seen : (\E i \in 1..Len(rest) : rest[i].path = q) \/ Finished(q),
           \A i \in 1..Len(rest) : Passed(rest[i]) \subseteq seen \cup {p},
           \A i \in 1..Len(rest) : p \in Reachable({rest[i].path}),
           \A i, j \in 1..Len(rest) : i <= j => rest[i].path \in Reachable({rest[j].path}),
           \A q \in Roots : q < pos' => q \in seen \cup {p},
           Visit(p, rest)
    PROVE  InvSearch'
<1>2. seen' = seen \cup {p}
  BY DEF Visit
<1>3. /\ \A i \in 1..Len(order) : ImportTargets(order[i]) \subseteq seen
      /\ \A i \in 1..Len(order) : \A q \in ImportTargets(order[i]) :
           (\E j \in 1..i : order[j] = q) \/ order[i] \in Reachable({q})
      /\ seen \subseteq Reachable(Roots)
  BY DEF OInv, InvSearch
<1>4. /\ \A i \in 1..Len(order') : ImportTargets(order'[i]) \subseteq seen'
      /\ \A i \in 1..Len(order') : \A q \in ImportTargets(order'[i]) :
           (\E j \in 1..i : order'[j] = q) \/ order'[i] \in Reachable({q})
      /\ seen' \subseteq Reachable(Roots)
      /\ \A q \in Roots : q < pos' => q \in seen'
  BY <1>2, <1>3
<1>5. CASE p \in seen
  <2>1. stack' = rest
    BY <1>5 DEF Visit
  <2>2. \A q \in seen' :
             (\E i \in 1..Len(stack') : stack'[i].path = q)
          \/ (\E i \in 1..Len(order') : order'[i] = q)
    BY <1>2, <1>5, <2>1 DEF Finished
  <2>3. \A i \in 1..Len(stack') : Passed(stack'[i]) \subseteq seen'
    BY <1>2, <2>1
  <2>4. \A i, j \in 1..Len(stack') :
           i <= j => stack'[i].path \in Reachable({stack'[j].path})
    BY <2>1
  <2> QED
    BY <1>4, <2>2, <2>3, <2>4, SearchNext
<1>6. CASE p \notin seen
  <2> DEFINE f == [path |-> p, next |-> 1]
  <2>1. stack' = <<f>> \o rest
    BY <1>6 DEF Visit
  <2>2. p \in Path
    BY ClosedPath
  <2>3. f \in Frame /\ f.path = p /\ f.next = 1
    BY <2>2 DEF Frame
  <2>4. Passed(f) = {}
    <3>1. DOMAIN Imports(p) \subseteq Nat \ {0}
      <4>1. sources[p].text \in Text
        BY DEF OInv, IInv, InvSources, Source
      <4>2. /\ DOMAIN Imports(p) = 1..Len(Imports(p))
            /\ Len(Imports(p)) \in Nat
        BY <4>1, ConstantsAssumption, Zenon DEF Imports, UnitOf
      <4> QED
        BY <4>2
    <3> QED
      BY <2>3, <3>1 DEF Passed
  <2> HIDE DEF f
  <2>5. /\ Len(stack') = Len(rest) + 1
        /\ \A i \in 1..Len(stack') : stack'[i] = IF i = 1 THEN f ELSE rest[i - 1]
        /\ \A i \in 1..Len(stack') : i = 1 \/ i - 1 \in 1..Len(rest)
    BY <2>1, <2>3
  <2>6. \A q \in seen' :
             (\E i \in 1..Len(stack') : stack'[i].path = q)
          \/ (\E i \in 1..Len(order') : order'[i] = q)
    <3> TAKE q \in seen'
    <3>1. CASE q = p
      <4>1. 1 \in 1..Len(stack') /\ stack'[1].path = q
        BY <2>3, <2>5, <3>1
      <4> QED
        BY <4>1
    <3>2. CASE \E i \in 1..Len(rest) : rest[i].path = q
      <4>1. PICK i \in 1..Len(rest) : rest[i].path = q
        BY <3>2
      <4>2. i + 1 \in 1..Len(stack') /\ stack'[i + 1] = rest[i]
        BY <2>5
      <4> QED
        BY <4>1, <4>2
    <3>3. CASE Finished(q)
      BY <3>3 DEF Finished
    <3> QED
      BY <1>2, <3>1, <3>2, <3>3
  <2>7. \A i \in 1..Len(stack') : Passed(stack'[i]) \subseteq seen'
    BY <1>2, <2>4, <2>5
  <2>8. \A i, j \in 1..Len(stack') :
           i <= j => stack'[i].path \in Reachable({stack'[j].path})
    <3> SUFFICES ASSUME NEW i \in 1..Len(stack'), NEW j \in 1..Len(stack'), i <= j
                 PROVE  stack'[i].path \in Reachable({stack'[j].path})
      OBVIOUS
    <3>1. CASE j = 1
      <4>1. {p} \in SUBSET Path
        BY <2>2
      <4>2. p \in Reachable({p})
        BY <4>1, ReachableRefl
      <4>3. i = 1
        BY <3>1
      <4> QED
        BY <2>3, <2>5, <3>1, <4>2, <4>3
    <3>2. CASE i = 1 /\ j # 1
      BY <2>3, <2>5, <3>2
    <3>3. CASE i # 1 /\ j # 1
      <4>1. /\ i - 1 \in 1..Len(rest) /\ j - 1 \in 1..Len(rest) /\ i - 1 <= j - 1
            /\ stack'[i] = rest[i - 1] /\ stack'[j] = rest[j - 1]
        BY <2>5, <3>3
      <4> QED
        BY <4>1
    <3> QED
      BY <3>1, <3>2, <3>3
  <2> QED
    BY <1>4, <2>6, <2>7, <2>8, SearchNext
<1> QED
  BY <1>5, <1>6

LEMMA SortRootSearch == ASSUME OInv, SortRoot PROVE InvSearch'
<1>1. /\ pc = "sort" /\ pc' = "sort" /\ stack = <<>> /\ pos \in Path /\ pos' = pos + 1
      /\ UNCHANGED <<order, sources, remap>>
  BY DEF SortRoot, SortRest
<1>2. \A q \in DOMAIN sources : q \in Int
  BY Bounds DEF OInv, IInv, InvSources, Path
<1>3. \A q \in Roots : q < pos' => q < pos \/ q = pos
  BY <1>1, <1>2, Bounds DEF Roots, Path
<1>4. \A q \in Roots : q < pos => q \in seen
  BY <1>1 DEF OInv, InvSearch
<1>5. CASE pos \in DOMAIN sources /\ ~sources[pos].isLibrary
  <2>1. PICK p \in DOMAIN sources : p = pos /\ p \in Roots
    BY <1>5 DEF Roots
  <2>2. Visit(p, <<>>)
    BY <1>5, <2>1 DEF SortRoot
  <2>3. Roots \subseteq Path
    BY DEF Roots, OInv, IInv, InvSources
  <2>4. p \in Reachable(Roots)
    BY <2>1, <2>3, ReachableRefl
  <2>5. \A q \in seen : Finished(q)
    BY <1>1 DEF OInv, InvSearch, OnStack
  <2>6. \A q \in Roots : q < pos' => q \in seen \cup {p}
    BY <1>3, <1>4, <2>1
  <2>7. <<>> \in Seq(Frame) /\ Len(<<>>) = 0
    OBVIOUS
  <2>8. 1..Len(<<>>) = {}
    BY <2>7
  <2> QED
    BY <1>1, <2>2, <2>4, <2>5, <2>6, <2>7, <2>8, VisitSearch
<1>6. CASE ~(pos \in DOMAIN sources /\ ~sources[pos].isLibrary)
  <2>1. UNCHANGED <<stack, seen>>
    BY <1>6, Zenon DEF SortRoot
  <2>2. pos \notin Roots
    BY <1>6 DEF Roots
  <2>3. \A q \in Roots : q < pos' => q \in seen
    BY <1>3, <1>4, <2>2
  <2> QED
    BY <1>1, <2>1, <2>3, SearchNext DEF OInv, InvSearch, OnStack, Finished
<1> QED
  BY <1>5, <1>6

LEMMA TopFrame ==
    ASSUME OInv, pc = "sort", stack # <<>>
    PROVE  /\ Head(stack) = stack[1] /\ 1 \in 1..Len(stack)
           /\ Head(stack) \in Frame
           /\ Head(stack).path \in DOMAIN sources /\ Head(stack).path \in seen
           /\ Tail(stack) \in Seq(Frame) /\ Len(Tail(stack)) = Len(stack) - 1
           /\ \A i \in 1..Len(Tail(stack)) : Tail(stack)[i] = stack[i + 1]
           /\ DOMAIN Imports(Head(stack).path) = 1..Len(Imports(Head(stack).path))
           /\ Len(Imports(Head(stack).path)) \in Nat
<1>1. stack \in Seq(Frame)
  BY DEF OInv, IInv, InvSort
<1>2. /\ Head(stack) = stack[1] /\ 1 \in 1..Len(stack) /\ Head(stack) \in Frame
      /\ Tail(stack) \in Seq(Frame) /\ Len(Tail(stack)) = Len(stack) - 1
      /\ \A i \in 1..Len(Tail(stack)) : Tail(stack)[i] = stack[i + 1]
  BY <1>1
<1>3. Head(stack).path \in seen /\ Head(stack).path \in DOMAIN sources
  BY <1>2 DEF OInv, IInv, InvSort
<1>4. sources[Head(stack).path].text \in Text
  BY <1>3 DEF OInv, IInv, InvSources, Source
<1>5. /\ DOMAIN Imports(Head(stack).path) = 1..Len(Imports(Head(stack).path))
      /\ Len(Imports(Head(stack).path)) \in Nat
  BY <1>4, ConstantsAssumption, Zenon DEF Imports, UnitOf
<1> QED
  BY <1>2, <1>3, <1>5

LEMMA SortImportSearch == ASSUME OInv, SortImport PROVE InvSearch'
<1> DEFINE top == Head(stack)
           p == Target(top.path, top.next)
           moved == [path |-> top.path, next |-> top.next + 1]
           rest == <<moved>> \o Tail(stack)
<1>1. /\ pc = "sort" /\ pc' = "sort" /\ stack # <<>>
      /\ top.next <= Len(Imports(top.path)) /\ Visit(p, rest)
      /\ UNCHANGED <<order, sources, remap, pos>>
  BY DEF SortImport, SortRest
<1>2. /\ top = stack[1] /\ 1 \in 1..Len(stack) /\ top \in Frame
      /\ top.path \in DOMAIN sources /\ top.path \in seen
      /\ Tail(stack) \in Seq(Frame) /\ Len(Tail(stack)) = Len(stack) - 1
      /\ \A i \in 1..Len(Tail(stack)) : Tail(stack)[i] = stack[i + 1]
      /\ DOMAIN Imports(top.path) = 1..Len(Imports(top.path))
      /\ Len(Imports(top.path)) \in Nat
  BY <1>1, TopFrame
<1>3. top.next \in DOMAIN Imports(top.path) /\ top.next \in Nat
  BY <1>1, <1>2 DEF Frame
<1>4. p \in ImportTargets(top.path)
  BY <1>3 DEF ImportTargets
<1>5. p \in DOMAIN sources /\ p \in Path /\ top.path \in Path
  BY <1>1, <1>2, <1>4, ClosedPath
<1>6. moved \in Frame /\ moved.path = top.path
  BY <1>2, <1>3, <1>5 DEF Frame
<1>7. Passed(moved) \subseteq Passed(top) \cup {p}
  <2>1. \A l \in DOMAIN Imports(top.path) :
           l < top.next + 1 => l < top.next \/ l = top.next
    BY <1>2, <1>3
  <2> QED
    BY <1>6, <2>1 DEF Passed
<1>8. /\ \A q \in seen : OnStack(q) \/ Finished(q)
      /\ \A i \in 1..Len(stack) : Passed(stack[i]) \subseteq seen
      /\ \A i, j \in 1..Len(stack) : i <= j => stack[i].path \in Reachable({stack[j].path})
      /\ seen \subseteq Reachable(Roots)
      /\ \A q \in Roots : q < pos => q \in seen
  BY <1>1 DEF OInv, InvSearch
<1>9. p \in Reachable(Roots)
  BY <1>2, <1>4, <1>5, <1>8, ReachableStep
<1> HIDE DEF top, p, moved
<1>10. stack \in Seq(Frame) /\ Len(stack) \in Nat
  BY DEF OInv, IInv, InvSort
<1>11. /\ rest \in Seq(Frame) /\ Len(rest) = Len(stack)
       /\ \A i \in 1..Len(rest) : i \in 1..Len(stack) /\
            rest[i] = IF i = 1 THEN moved ELSE stack[i]
  <2>1. /\ rest \in Seq(Frame) /\ Len(rest) = 1 + Len(Tail(stack))
        /\ \A i \in 1..Len(rest) : rest[i] = IF i = 1 THEN moved ELSE Tail(stack)[i - 1]
    BY <1>2, <1>6
  <2>2. \A i \in 1..Len(rest) : i # 1 => i - 1 \in 1..Len(Tail(stack)) /\ (i - 1) + 1 = i
    BY <1>2, <1>10, <2>1
  <2>3. \A i \in 1..Len(rest) : i # 1 => Tail(stack)[i - 1] = stack[i]
    BY <1>2, <2>2
  <2> QED
    BY <1>2, <1>10, <2>1, <2>3
<1> HIDE DEF rest
<1>12. \A i \in 1..Len(rest) : rest[i].path = stack[i].path
  BY <1>2, <1>6, <1>11
<1>13. \A q \in seen : (\E i \in 1..Len(rest) : rest[i].path = q) \/ Finished(q)
  BY <1>8, <1>11, <1>12 DEF OnStack
<1>14. \A i \in 1..Len(rest) : Passed(rest[i]) \subseteq seen \cup {p}
  BY <1>2, <1>7, <1>8, <1>11
<1>15. \A i \in 1..Len(rest) : p \in Reachable({rest[i].path})
  <2> TAKE i \in 1..Len(rest)
  <2>1. 1 <= i /\ i \in 1..Len(stack) /\ top.path \in Reachable({stack[i].path})
    BY <1>2, <1>8, <1>11
  <2>2. p \in Reachable({stack[i].path})
    BY <1>2, <1>4, <1>5, <2>1, ReachableStep
  <2> QED
    BY <1>12, <2>2
<1>16. \A i, j \in 1..Len(rest) : i <= j => rest[i].path \in Reachable({rest[j].path})
  BY <1>8, <1>11, <1>12
<1>17. \A q \in Roots : q < pos' => q \in seen \cup {p}
  BY <1>1, <1>8
<1> QED
  BY <1>1, <1>5, <1>9, <1>11, <1>13, <1>14, <1>15, <1>16, <1>17, VisitSearch

LEMMA SortLeaveSearch == ASSUME OInv, SortLeave PROVE InvSearch'
<1> DEFINE p == Head(stack).path
<1>1. /\ pc = "sort" /\ pc' = "sort" /\ stack # <<>>
      /\ Head(stack).next > Len(Imports(p))
      /\ order' = Append(order, p) /\ stack' = Tail(stack)
      /\ UNCHANGED <<seen, sources, remap, pos>>
  BY DEF SortLeave, SortRest
<1>2. /\ Head(stack) = stack[1] /\ 1 \in 1..Len(stack) /\ Head(stack) \in Frame
      /\ p \in DOMAIN sources /\ p \in seen
      /\ stack' \in Seq(Frame) /\ Len(stack') = Len(stack) - 1
      /\ \A i \in 1..Len(stack') : stack'[i] = stack[i + 1]
      /\ DOMAIN Imports(p) = 1..Len(Imports(p)) /\ Len(Imports(p)) \in Nat
  BY <1>1, TopFrame
<1>3. /\ \A q \in seen : OnStack(q) \/ Finished(q)
      /\ \A i \in 1..Len(stack) : Passed(stack[i]) \subseteq seen
      /\ \A i \in 1..Len(order) : ImportTargets(order[i]) \subseteq seen
      /\ \A i \in 1..Len(order) : \A q \in ImportTargets(order[i]) :
           (\E j \in 1..i : order[j] = q) \/ order[i] \in Reachable({q})
      /\ \A i, j \in 1..Len(stack) : i <= j => stack[i].path \in Reachable({stack[j].path})
      /\ seen \subseteq Reachable(Roots)
      /\ \A q \in Roots : q < pos => q \in seen
  BY <1>1 DEF OInv, InvSearch
<1>4. ImportTargets(p) \subseteq seen
  <2>1. Head(stack).next \in Nat
    BY <1>2 DEF Frame
  <2>2. \A k \in DOMAIN Imports(p) : k < Head(stack).next
    BY <1>1, <1>2, <2>1
  <2>3. ImportTargets(p) \subseteq Passed(Head(stack))
    BY <2>2 DEF ImportTargets, Passed
  <2> QED
    BY <1>2, <1>3, <2>3
<1>5. order \in Seq(Path) /\ p \in Path /\ stack \in Seq(Frame)
  BY <1>1, <1>2, ClosedPath DEF OInv, IInv, InvSort
<1> HIDE DEF p
<1>6. /\ Len(order') = Len(order) + 1 /\ Len(order) \in Nat
      /\ \A i \in 1..Len(order) : order'[i] = order[i]
      /\ order'[Len(order) + 1] = p
  BY <1>1, <1>5
<1>7. \A i \in 1..Len(order') : i \in 1..Len(order) \/ i = Len(order) + 1
  BY <1>6
<1>9. \A i \in 1..Len(stack') : i + 1 \in 1..Len(stack)
  BY <1>2, <1>5
<1>10. \A q \in seen' :
             (\E i \in 1..Len(stack') : stack'[i].path = q)
          \/ (\E i \in 1..Len(order') : order'[i] = q)
  <2> SUFFICES ASSUME NEW q \in seen PROVE
             (\E i \in 1..Len(stack') : stack'[i].path = q)
          \/ (\E i \in 1..Len(order') : order'[i] = q)
    BY <1>1
  <2>1. CASE q = p
    <3>1. Len(order) + 1 \in 1..Len(order') /\ order'[Len(order) + 1] = q
      BY <1>6, <2>1
    <3> QED
      BY <3>1
  <2>2. CASE Finished(q)
    <3>1. PICK i \in 1..Len(order) : order[i] = q
      BY <2>2 DEF Finished
    <3>2. i \in 1..Len(order') /\ order'[i] = q
      BY <1>6, <3>1
    <3> QED
      BY <3>2
  <2>3. CASE OnStack(q) /\ q # p
    <3>1. PICK i \in 1..Len(stack) : stack[i].path = q
      BY <2>3 DEF OnStack
    <3>2. i # 1
      BY <1>2, <2>3, <3>1 DEF p
    <3>3. i - 1 \in 1..Len(stack') /\ (i - 1) + 1 = i
      BY <1>2, <1>5, <3>2
    <3>4. stack'[i - 1] = stack[i]
      BY <1>2, <3>3
    <3> QED
      BY <3>1, <3>3, <3>4
  <2> QED
    BY <1>3, <2>1, <2>2, <2>3
<1>11. \A i \in 1..Len(stack') : Passed(stack'[i]) \subseteq seen'
  BY <1>1, <1>2, <1>3, <1>9
<1>12. \A i \in 1..Len(order') : ImportTargets(order'[i]) \subseteq seen'
  BY <1>1, <1>3, <1>4, <1>6, <1>7
<1>13. ASSUME NEW i \in 1..Len(order'), NEW q \in ImportTargets(order'[i])
       PROVE  (\E j \in 1..i : order'[j] = q) \/ order'[i] \in Reachable({q})
  <2>1. CASE i \in 1..Len(order)
    <3>1. \A j \in 1..i : order'[j] = order[j]
      BY <1>6, <2>1
    <3> QED
      BY <1>3, <1>6, <1>13, <2>1, <3>1
  <2>2. CASE i = Len(order) + 1
    <3>1. q \in seen /\ order'[i] = p
      BY <1>4, <1>6, <1>13, <2>2
    <3>2. CASE Finished(q)
      <4>1. PICK j \in 1..Len(order) : order[j] = q
        BY <3>2 DEF Finished
      <4>2. j \in 1..i /\ order'[j] = q
        BY <1>6, <2>2, <4>1
      <4> QED
        BY <4>2
    <3>3. CASE OnStack(q)
      <4>1. PICK m \in 1..Len(stack) : stack[m].path = q
        BY <3>3 DEF OnStack
      <4>2. 1 <= m
        BY <4>1
      <4>3. stack[1].path \in Reachable({stack[m].path})
        BY <1>2, <1>3, <4>2
      <4> QED
        BY <1>2, <3>1, <4>1, <4>3 DEF p
    <3> QED
      BY <1>3, <3>1, <3>2, <3>3
  <2> QED
    BY <1>7, <2>1, <2>2
<1>14. \A i, j \in 1..Len(stack') :
          i <= j => stack'[i].path \in Reachable({stack'[j].path})
  <2> SUFFICES ASSUME NEW i \in 1..Len(stack'), NEW j \in 1..Len(stack'), i <= j
               PROVE  stack'[i].path \in Reachable({stack'[j].path})
    OBVIOUS
  <2>1. /\ i + 1 \in 1..Len(stack) /\ j + 1 \in 1..Len(stack) /\ i + 1 <= j + 1
        /\ stack'[i] = stack[i + 1] /\ stack'[j] = stack[j + 1]
    BY <1>2, <1>9
  <2> QED
    BY <1>3, <2>1
<1>15. /\ seen' \subseteq Reachable(Roots)
       /\ \A q \in Roots : q < pos' => q \in seen'
  BY <1>1, <1>3
<1> QED
  BY <1>1, <1>10, <1>11, <1>12, <1>13, <1>14, <1>15, SearchNext

\* When no root is left, what is finished is what is reachable.
LEMMA SortDoneOrder == ASSUME OInv, SortDone PROVE TopologicalOrder'
<1>1. /\ pc = "sort" /\ pc' = "syntax" /\ stack = <<>> /\ pos > NumPaths
      /\ sourceOrder' = order /\ UNCHANGED <<sources, remap>>
  BY DEF SortDone, SortRest
<1>2. /\ \A q : ImportTargets(q)' = ImportTargets(q)
      /\ \A S : Reachable(S)' = Reachable(S)
      /\ Roots' = Roots
  BY <1>1, SameGraph
<1>3. order \in Seq(Path) /\ DOMAIN order = 1..Len(order)
  BY DEF OInv, IInv, InvSort
<1> DEFINE done == {order[i] : i \in DOMAIN order}
<1>4. \A q \in seen : q \in done
  BY <1>1, <1>3 DEF OInv, InvSearch, OnStack, Finished
<1>5. done \subseteq seen
  BY <1>3 DEF OInv, IInv, InvSort
<1>6. Roots \subseteq done
  <2>1. \A q \in Roots : q < pos
    BY <1>1, Bounds DEF Roots, OInv, IInv, InvSources, InvControl, Path
  <2> QED
    BY <1>1, <1>4, <2>1 DEF OInv, InvSearch
<1>7. ImportClosed(done)
  BY <1>1, <1>3, <1>4 DEF ImportClosed, OInv, InvSearch
<1>8. done \in SUBSET Path
  BY <1>3
<1>9. done \subseteq Reachable(Roots)
  BY <1>1, <1>5 DEF OInv, InvSearch
<1>10. done = Reachable(Roots)
  BY <1>6, <1>7, <1>8, <1>9, ReachableLeast
<1>11. \A i, j \in DOMAIN order : order[i] = order[j] => i = j
  BY <1>3 DEF OInv, IInv, InvSort
<1>12. \A i \in DOMAIN order : \A q \in ImportTargets(order[i]) :
           (\E j \in 1..i : order[j] = q) \/ order[i] \in Reachable({q})
  BY <1>1, <1>3 DEF OInv, InvSearch
<1>13. TopologicalOrder'
    <=> /\ \A i, j \in DOMAIN order : order[i] = order[j] => i = j
        /\ done = Reachable(Roots)
        /\ \A i \in DOMAIN order : \A q \in ImportTargets(order[i]) :
             (\E j \in 1..i : order[j] = q) \/ order[i] \in Reachable({q})
  BY <1>1, <1>2 DEF TopologicalOrder, OrderKnown
<1> QED
  BY <1>10, <1>11, <1>12, <1>13

-----------------------------------------------------------------------------
LEMMA OrderStep == ASSUME OInv, [Next]_vars PROVE OInv'
<1> USE DEF OrderKnown
<1>0. IInv'
  BY IInvStep DEF OInv
<1> SUFFICES InvClosed' /\ InvSearch' /\ TopologicalOrder'
  BY <1>0 DEF OInv
<1>1. CASE FreshStart \/ Entered \/ Quiet
  BY <1>1, OrderAway DEF FreshStart, Entered, Quiet
<1>2. CASE ParseSource
  <2>1. pc' = "parse"
    BY <1>2, Zenon DEF ParseSource
  <2> QED
    BY <2>1, OrderAway
<1>3. CASE ParsingDone
  <2>1. then \in {"idle", "compile"}
    BY DEF OInv, IInv, InvControl
  <2>2. pc' \in {"idle", "compile"} \/ (pc' = "sort" /\ pos' = 1)
    BY <1>3, <2>1, Zenon DEF ParsingDone, Return
  <2>3. CASE pc' = "sort" /\ pos' = 1
    <3>1. InvClosed'
      BY <1>0, <2>3 DEF InvClosed, IInv, InvSources
    <3>2. stack' = <<>> /\ order' = <<>> /\ seen' = {}
      BY <1>3, Zenon DEF ParsingDone, sortVars, OInv, IInv, InvSort
    <3>3. \A q \in Roots' : ~(q < pos')
      <4>1. DOMAIN sources' \subseteq Path
        BY <1>0 DEF IInv, InvSources
      <4> QED
        BY <2>3, <4>1, Bounds DEF Roots, Path
    <3>4. InvSearch'
      BY <3>2, <3>3 DEF InvSearch
    <3> QED
      BY <2>3, <3>1, <3>4 DEF TopologicalOrder
  <2> QED
    BY <2>2, <2>3, OrderAway
<1>4. CASE SortStep
  <2>1. pc = "sort" /\ pc' = "sort"
    BY <1>4, Zenon DEF SortStep, SortRoot, SortImport, SortLeave
  <2>2. InvSearch'
    BY <1>4, SortRootSearch, SortImportSearch, SortLeaveSearch DEF SortStep
  <2>3. InvClosed'
    BY <1>0, <2>1 DEF InvClosed, IInv, InvSources
  <2> QED
    BY <2>1, <2>2, <2>3 DEF TopologicalOrder
<1>5. CASE SortDone
  <2>1. pc = "sort" /\ pc' = "syntax" /\ UNCHANGED <<sources, remap>>
    BY <1>5 DEF SortDone, SortRest
  <2>2. InvClosed'
    BY <2>1, SameGraph DEF OInv, InvClosed
  <2> QED
    BY <1>5, <2>1, <2>2, SortDoneOrder DEF InvSearch
<1>6. CASE PhaseStep \/ GenStep
  <2>1. /\ UNCHANGED <<sources, sourceOrder, remap>>
        /\ pc \in Late /\ pc' \in Late
    BY <1>6, PhaseFrame DEF OInv
  <2>2. pc \in OrderKnown \/ pc' \notin {"sort"} \cup OrderKnown
    <3>1. CASE GenStep
      <4>1. pc' \in {"idle", "compile"}
        BY <3>1, Zenon DEF GenStep, CompileNext, CompileDependency, CompileBody,
           CompileDone, CompileReturn
      <4> QED
        BY <4>1
    <3>2. CASE PhaseStep
      <4>1. pc \in OrderKnown \/ (pc = "compile" /\ pc' = pc)
        BY <3>2, Zenon DEF PhaseStep, NextPhase, NextSource, CheckSyntax,
           AnalyseDocStrings, RegisterDeclarations, PerformImport, ResolveNames,
           CheckLibraryNameClashes, CheckTypes, ParseDone, Stay, Phase
      <4> QED
        BY <4>1
    <3> QED
      BY <1>6, <3>1, <3>2
  <2>3. CASE pc \in OrderKnown /\ pc' \in OrderKnown
    BY <2>1, <2>3, OrderKept
  <2>4. pc' # "sort"
    BY <2>1 DEF Late, Phase
  <2> QED
    BY <2>2, <2>3, <2>4, OrderAway
<1>7. CASE UNCHANGED vars
  <2>1. UNCHANGED <<sources, sourceOrder, remap, pc, pos, stack, seen, order>>
    BY <1>7 DEF vars, objVars, ctlVars, sortVars
  <2>2. ASSUME pc = "sort" PROVE InvSearch'
    BY <2>1, <2>2, SearchNext DEF OInv, InvSearch, OnStack, Finished
  <2>4. InvSearch'
    BY <2>1, <2>2 DEF InvSearch
  <2>5. InvClosed' /\ TopologicalOrder'
    BY <2>1, SameGraph DEF OInv, InvClosed, TopologicalOrder
  <2> QED
    BY <2>4, <2>5
<1> QED
  BY <1>1, <1>2, <1>3, <1>4, <1>5, <1>6, <1>7, Kinds DEF OInv

\* The invariant of the depth-first search, with the closure of the sources
\* under imports from resolveImports to the end of the analysis.
THEOREM SearchInvariance == Spec => []OInv
BY InitOrder, OrderStep, PTL DEF Spec

\* m_sourceOrder is a topological order of exactly the sources reachable
\* from the user's own, whatever the imports look like, cycles included.
THEOREM OrderAlwaysTopological == Spec => []TopologicalOrder
<1>1. OInv => TopologicalOrder
  BY DEF OInv
<1> QED
  BY <1>1, SearchInvariance, PTL

-----------------------------------------------------------------------------
(* The verdict.                                                            *)

\* A source with a contract that checkTypeRequirements has not seen yet.
Unchecked(i) ==
    /\ Len(Contracts(sourceOrder[i])) > 0
    /\ pc = "check" => i > pos \/ (i = pos /\ sub = 1)

\* The two answers agree, or the disagreement will still be noticed.
InvVerdict ==
    /\ pc = "sort" => ~errors
    /\ pc \in OrderKnown /\ ~noErrors => errors
    /\ pc \in OrderKnown /\ errors /\ noErrors =>
         \/ \E i \in 1..Len(sourceOrder) : Unchecked(i)
         \/ Overlooked
    /\ pc = "clash" => pos = 1 /\ sub = 1

\* A unit alias declared twice is an error once its source is registered.
InvNoted ==
    /\ pc = "register" =>
         \A i \in 1..Len(sourceOrder) : i < pos /\ RepeatsAlias(sourceOrder[i]) => errors
    /\ pc \in {"import", "resolve", "clash", "check"} =>
         \A i \in 1..Len(sourceOrder) : RepeatsAlias(sourceOrder[i]) => errors

LEMMA SameOverlooked ==
    ASSUME UNCHANGED <<sources, sourceOrder>>
    PROVE  /\ Overlooked' <=> Overlooked
           /\ \A p : RepeatsAlias(p)' <=> RepeatsAlias(p)
<1>1. \A p : Imports(p)' = Imports(p) /\ Contracts(p)' = Contracts(p)
  BY DEF Imports, Contracts, UnitOf
<1>2. \A p : RepeatsAlias(p)' <=> RepeatsAlias(p)
  BY <1>1 DEF RepeatsAlias
<1>3. OrderedContracts' = OrderedContracts
  BY SameContracts
<1> QED
  BY <1>2, <1>3 DEF Overlooked

-----------------------------------------------------------------------------
LEMMA InitVerdict == Init => InvVerdict
BY DEF Init, InvVerdict, OrderKnown

\* Outside resolveImports and the analysis there is nothing to show.
LEMMA VerdictAway ==
    ASSUME pc' \notin OrderKnown \cup {"sort"} PROVE InvVerdict'
BY DEF InvVerdict, OrderKnown

\* No disagreement, nothing to show but the order of the phases.
LEMMA VerdictAgrees ==
    ASSUME pc' \in OrderKnown, errors' <=> ~noErrors', pc' = "clash" => pos' = 1 /\ sub' = 1
    PROVE  InvVerdict'
BY Zenon DEF InvVerdict, OrderKnown

\* A phase other than checking that changes neither answer.
LEMMA VerdictKept ==
    ASSUME InvVerdict, pc \in OrderKnown, pc' \in OrderKnown, pc' # "check" \/ pc = "check",
           UNCHANGED <<errors, noErrors, sources, sourceOrder>>,
           \A i \in 1..Len(sourceOrder) : Unchecked(i) => Unchecked(i)',
           pc' = "clash" => pos' = 1 /\ sub' = 1
    PROVE  InvVerdict'
<1>1. pc' # "sort" /\ pc # "sort"
  BY DEF OrderKnown
<1>2. ~noErrors' => errors'
  BY Zenon DEF InvVerdict
<1>3. ASSUME errors', noErrors'
      PROVE  (\E i \in 1..Len(sourceOrder') : Unchecked(i)') \/ Overlooked'
  <2>1. errors /\ noErrors
    BY <1>3
  <2>2. CASE Overlooked
    BY <2>2, SameOverlooked
  <2>3. CASE \E i \in 1..Len(sourceOrder) : Unchecked(i)
    BY <2>3
  <2> QED
    BY <2>1, <2>2, <2>3, Zenon DEF InvVerdict
<1> QED
  BY <1>1, <1>2, <1>3, Zenon DEF InvVerdict

\* The disagreement arises only here.
LEMMA VerdictRegister ==
    ASSUME IInv, InvVerdict, RegisterDeclarations PROVE InvVerdict'
<1>1. /\ pc = "register" /\ pc' = "register" /\ pos <= Len(sourceOrder)
      /\ UNCHANGED <<noErrors, sources, sourceOrder>>
      /\ errors' = (errors \/ RepeatsAlias(Current) \/ RepeatsContract(Current))
  BY Zenon DEF RegisterDeclarations, Stay, PhaseRest
<1>2. \A i : Unchecked(i)' <=> Len(Contracts(sourceOrder[i])) > 0
  BY <1>1 DEF Unchecked, Contracts, UnitOf
<1>3. \A i : Unchecked(i) <=> Len(Contracts(sourceOrder[i])) > 0
  BY <1>1 DEF Unchecked
<1>4. CASE ~RepeatsAlias(Current) /\ ~RepeatsContract(Current)
  <2>1. errors' = errors
    BY <1>1, <1>4, Zenon DEF IInv, InvFlags
  <2> QED
    BY <1>1, <1>2, <1>3, <2>1, VerdictKept DEF OrderKnown
<1>5. CASE RepeatsAlias(Current) \/ RepeatsContract(Current)
  <2>1. pos \in 1..Len(sourceOrder)
    BY <1>1, CurrentSource
  <2>2. \A i \in 1..Len(sourceOrder) :
           /\ Len(Contracts(sourceOrder[i])) \in 0..MaxContracts
           /\ DOMAIN Contracts(sourceOrder[i]) = 1..Len(Contracts(sourceOrder[i]))
    BY ContractList DEF IInv, InvOrder, Usable
  <2>3. ASSUME NEW i \in 1..Len(sourceOrder), DOMAIN Contracts(sourceOrder[i]) # {}
        PROVE  \E j \in 1..Len(sourceOrder') : Unchecked(j)'
    <3>1. Len(Contracts(sourceOrder[i])) > 0
      BY <2>2, <2>3, Bounds
    <3> QED
      BY <1>1, <1>2, <3>1
  <2>4. (\E i \in 1..Len(sourceOrder') : Unchecked(i)') \/ Overlooked'
    <3>1. CASE RepeatsContract(Current)
      <4>1. DOMAIN Contracts(sourceOrder[pos]) # {}
        BY <3>1 DEF RepeatsContract, Current
      <4> QED
        BY <2>1, <2>3, <4>1
    <3>2. CASE RepeatsAlias(Current) /\ OrderedContracts = {}
      <4>1. \E i \in DOMAIN sourceOrder : RepeatsAlias(sourceOrder[i])
        BY <2>1, <3>2 DEF Current, IInv, InvOrder
      <4>2. Overlooked
        BY <3>2, <4>1 DEF Overlooked
      <4> QED
        BY <1>1, <4>2, SameOverlooked
    <3>3. CASE OrderedContracts # {}
      <4>1. PICK i \in DOMAIN sourceOrder : DOMAIN Contracts(sourceOrder[i]) # {}
        BY <3>3 DEF OrderedContracts
      <4>2. i \in 1..Len(sourceOrder)
        BY <4>1 DEF IInv, InvOrder
      <4> QED
        BY <2>3, <4>1, <4>2
    <3> QED
      BY <1>5, <3>1, <3>2, <3>3
  <2>5. errors'
    BY <1>1, <1>5, Zenon
  <2> QED
    BY <1>1, <2>4, <2>5, Zenon DEF InvVerdict, OrderKnown
<1> QED
  BY <1>4, <1>5

LEMMA VerdictStep == ASSUME IInv, InvVerdict, [Next]_vars PROVE InvVerdict'
<1>0. /\ errors \in BOOLEAN /\ noErrors \in BOOLEAN
      /\ pos \in Nat /\ sub \in Nat /\ pos # 0 /\ sub # 0
      /\ then \in {"idle", "compile"}
  BY DEF IInv, InvFlags, InvControl
<1>1. CASE FreshStart \/ Entered \/ Quiet
  BY <1>1, VerdictAway DEF FreshStart, Entered, Quiet, OrderKnown
<1>2. CASE ParseSource
  <2>1. pc' = "parse"
    BY <1>2, Zenon DEF ParseSource
  <2> QED
    BY <2>1, VerdictAway DEF OrderKnown
<1>3. CASE ParsingDone
  <2>1. pc' \in {"idle", "compile"} \/ (pc' = "sort" /\ ~errors /\ errors' = errors)
    BY <1>0, <1>3, Zenon DEF ParsingDone, Return
  <2>2. CASE pc' \in {"idle", "compile"}
    BY <2>2, VerdictAway DEF OrderKnown
  <2>3. CASE pc' = "sort" /\ ~errors /\ errors' = errors
    BY <2>3 DEF InvVerdict, OrderKnown
  <2> QED
    BY <2>1, <2>2, <2>3
<1>4. CASE SortStep
  <2>1. pc = "sort" /\ UNCHANGED <<pc, errors>>
    BY <1>4, Zenon DEF SortStep, SortRoot, SortImport, SortLeave, SortRest
  <2> QED
    BY <2>1 DEF InvVerdict, OrderKnown
<1>5. CASE SortDone
  <2>1. pc = "sort" /\ pc' = "syntax" /\ noErrors' = TRUE /\ errors' = errors
    BY <1>5, Zenon DEF SortDone, SortRest
  <2>2. ~errors' /\ noErrors'
    BY <2>1, Zenon DEF InvVerdict
  <2> QED
    BY <2>1, <2>2, VerdictAgrees DEF OrderKnown
<1>6. CASE NextPhase
  <2>1. /\ pc \in Phase /\ pc' \in {"docStrings", "register", "import", "resolve", "clash"}
        /\ pos' = 1 /\ sub' = 1 /\ UNCHANGED <<errors, noErrors, sources, sourceOrder>>
    BY <1>6, Zenon DEF NextPhase, PhaseRest, Phase
  <2>2. \A i : Unchecked(i) => Unchecked(i)'
    BY <2>1 DEF Unchecked, Contracts, UnitOf
  <2> QED
    BY <2>1, <2>2, VerdictKept DEF OrderKnown, Phase
<1>7. CASE NextSource
  <2>1. /\ pc \in {"import", "resolve", "check", "compile"} /\ pos <= Len(sourceOrder)
        /\ pc' = pc /\ pos' = pos + 1 /\ sub' = 1
        /\ pc # "import" => sub > Len(Contracts(Current))
        /\ UNCHANGED <<errors, noErrors, sources, sourceOrder>>
    BY <1>7, Zenon DEF NextSource, Stay, PhaseRest
  <2>2. ASSUME NEW i \in 1..Len(sourceOrder), Unchecked(i) PROVE Unchecked(i)'
    <3>1. CASE pc = "check"
      <4>1. i > pos
        <5>1. CASE i = pos /\ sub = 1
          <6>1. sub > Len(Contracts(sourceOrder[i]))
            BY <2>1, <3>1, <5>1 DEF Current
          <6>2. Len(Contracts(sourceOrder[i])) > 0
            BY <2>2 DEF Unchecked
          <6>3. Len(Contracts(sourceOrder[i])) \in Nat
            <7>1. Contracts(Current) \in Seq(Definition)
              BY <2>1, CurrentSource, ContractList
            <7> QED
              BY <5>1, <7>1 DEF Current
          <6> QED
            BY <5>1, <6>1, <6>2, <6>3
        <5> QED
          BY <2>2, <3>1, <5>1 DEF Unchecked
      <4>2. i > pos' \/ (i = pos' /\ sub' = 1)
        BY <1>0, <2>1, <4>1
      <4> QED
        BY <2>1, <2>2, <4>2 DEF Unchecked, Contracts, UnitOf
    <3> QED
      BY <2>1, <2>2, <3>1 DEF Unchecked, Contracts, UnitOf
  <2>3. CASE pc = "compile"
    BY <2>1, <2>3, VerdictAway DEF OrderKnown
  <2> QED
    BY <2>1, <2>2, <2>3, VerdictKept DEF OrderKnown
<1>8. CASE CheckSyntax
  <2>1. /\ pc = "syntax" /\ pc' = pc /\ noErrors' = (noErrors /\ ~errors')
        /\ errors' = (errors \/ ~UnitOf(Current).syntaxOk)
        /\ UNCHANGED <<sources, sourceOrder>>
    BY <1>8, Zenon DEF CheckSyntax, Stay, PhaseRest
  <2>2. ~noErrors => errors
    BY <2>1, Zenon DEF InvVerdict, OrderKnown
  <2>3. errors' <=> ~noErrors'
    BY <2>1, <2>2, Zenon
  <2> QED
    BY <2>1, <2>3, VerdictAgrees DEF OrderKnown
<1>9. CASE AnalyseDocStrings
  <2>1. /\ pc = "docStrings" /\ pc' = pc
        /\ noErrors' = (noErrors /\ UnitOf(Current).docStringsOk)
        /\ errors' = (errors \/ ~UnitOf(Current).docStringsOk)
        /\ UNCHANGED <<sources, sourceOrder>>
    BY <1>9, Zenon DEF AnalyseDocStrings, Stay, PhaseRest
  <2>2. CASE UnitOf(Current).docStringsOk
    <3>1. UNCHANGED <<errors, noErrors>>
      BY <1>0, <2>1, <2>2, Zenon
    <3>2. \A i : Unchecked(i) => Unchecked(i)'
      BY <2>1 DEF Unchecked, Contracts, UnitOf
    <3> QED
      BY <2>1, <3>1, <3>2, VerdictKept DEF OrderKnown
  <2>3. CASE ~UnitOf(Current).docStringsOk
    <3>1. errors' <=> ~noErrors'
      BY <2>1, <2>3, Zenon
    <3> QED
      BY <2>1, <3>1, VerdictAgrees DEF OrderKnown
  <2> QED
    BY <2>2, <2>3
<1>10. CASE RegisterDeclarations
  BY <1>10, VerdictRegister
<1>11. CASE PerformImport
  <2>1. /\ pc = "import" /\ UNCHANGED <<sources, sourceOrder>>
        /\ \/ pc' \in {"idle", "compile"}
           \/ pc' = pc /\ UNCHANGED <<errors, noErrors>>
    BY <1>0, <1>11, Zenon DEF PerformImport, Return, Stay, PhaseRest
  <2>2. CASE pc' \in {"idle", "compile"}
    BY <2>2, VerdictAway DEF OrderKnown
  <2>3. CASE pc' = pc /\ UNCHANGED <<errors, noErrors>>
    <3>1. \A i : Unchecked(i) => Unchecked(i)'
      BY <2>1, <2>3 DEF Unchecked, Contracts, UnitOf
    <3> QED
      BY <2>1, <2>3, <3>1, VerdictKept DEF OrderKnown
  <2> QED
    BY <2>1, <2>2, <2>3
<1>12. CASE ResolveNames
  <2>1. /\ pc = "resolve" /\ UNCHANGED <<sources, sourceOrder>>
        /\ \/ pc' \in {"idle", "compile"}
           \/ pc' = pc /\ UNCHANGED <<errors, noErrors>>
    BY <1>0, <1>12, Zenon DEF ResolveNames, Return, Stay, PhaseRest
  <2>2. CASE pc' \in {"idle", "compile"}
    BY <2>2, VerdictAway DEF OrderKnown
  <2>3. CASE pc' = pc /\ UNCHANGED <<errors, noErrors>>
    <3>1. \A i : Unchecked(i) => Unchecked(i)'
      BY <2>1, <2>3 DEF Unchecked, Contracts, UnitOf
    <3> QED
      BY <2>1, <2>3, <3>1, VerdictKept DEF OrderKnown
  <2> QED
    BY <2>1, <2>2, <2>3
<1>13. CASE CheckLibraryNameClashes
  <2>1. /\ pc = "clash" /\ pc' = "check" /\ UNCHANGED <<pos, sub, sources, sourceOrder>>
        /\ noErrors' = (noErrors /\ ~LibraryNameClash)
        /\ errors' = (errors \/ LibraryNameClash)
    BY <1>13, Zenon DEF CheckLibraryNameClashes, PhaseRest
  <2>2. pos = 1 /\ sub = 1
    BY <2>1 DEF InvVerdict
  <2>3. CASE ~LibraryNameClash
    <3>1. UNCHANGED <<errors, noErrors>>
      BY <1>0, <2>1, <2>3, Zenon
    <3>2. \A i \in 1..Len(sourceOrder) : Unchecked(i) => Unchecked(i)'
      BY <2>1, <2>2 DEF Unchecked, Contracts, UnitOf
    <3>3. ~noErrors' => errors'
      BY <2>1, <3>1, Zenon DEF InvVerdict, OrderKnown
    <3>4. ASSUME errors', noErrors'
          PROVE  (\E i \in 1..Len(sourceOrder') : Unchecked(i)') \/ Overlooked'
      <4>1. errors /\ noErrors
        BY <3>1, <3>4
      <4>2. pc \in OrderKnown
        BY <2>1 DEF OrderKnown
      <4>3. CASE Overlooked
        BY <2>1, <4>3, SameOverlooked
      <4>4. CASE \E i \in 1..Len(sourceOrder) : Unchecked(i)
        BY <2>1, <3>2, <4>4
      <4> QED
        BY <4>1, <4>2, <4>3, <4>4, Zenon DEF InvVerdict
    <3> QED
      BY <2>1, <3>3, <3>4, Zenon DEF InvVerdict
  <2>4. CASE LibraryNameClash
    <3>1. errors' <=> ~noErrors'
      BY <2>1, <2>4, Zenon
    <3> QED
      BY <2>1, <3>1, VerdictAgrees DEF OrderKnown
  <2> QED
    BY <2>3, <2>4
<1>14. CASE CheckTypes
  <2>1. /\ pc = "check" /\ pc' = pc /\ noErrors' = (noErrors /\ ~errors')
        /\ errors => errors'
    BY <1>14, Zenon DEF CheckTypes, Stay, PhaseRest
  <2>2. ~noErrors => errors
    BY <2>1, Zenon DEF InvVerdict, OrderKnown
  <2>3. errors' <=> ~noErrors'
    BY <2>1, <2>2, Zenon
  <2> QED
    BY <2>1, <2>3, VerdictAgrees DEF OrderKnown
<1>15. CASE ParseDone
  <2>1. pc' \in {"idle", "compile"}
    BY <1>0, <1>15, Zenon DEF ParseDone, Return
  <2> QED
    BY <2>1, VerdictAway DEF OrderKnown
<1>16. CASE GenStep
  <2>1. pc' \in {"idle", "compile"}
    BY <1>16, Zenon DEF GenStep, CompileNext, CompileDependency, CompileBody, CompileDone,
       CompileReturn
  <2> QED
    BY <2>1, VerdictAway DEF OrderKnown
<1>17. CASE UNCHANGED vars
  <2>1. UNCHANGED <<pc, pos, sub, errors, noErrors, sources, sourceOrder>>
    BY <1>17 DEF vars, objVars, ctlVars
  <2> QED
    BY <2>1, SameOverlooked, Zenon DEF InvVerdict, Unchecked, Contracts, UnitOf
<1> QED
  BY <1>1, <1>2, <1>3, <1>4, <1>5, <1>6, <1>7, <1>8, <1>9, <1>10, <1>11, <1>12, <1>13,
     <1>14, <1>15, <1>16, <1>17, Kinds DEF PhaseStep

-----------------------------------------------------------------------------
\* From the import phase on all sources are registered.
Registered == {"import", "resolve", "clash", "check"}

LEMMA NotedAway ==
    ASSUME pc' \notin {"register"} \cup Registered PROVE InvNoted'
BY DEF InvNoted, Registered

\* The later phases take no error back.
LEMMA NotedKept ==
    ASSUME InvNoted, pc \in Registered, pc' \in Registered, errors => errors',
           UNCHANGED <<sources, sourceOrder>>
    PROVE  InvNoted'
BY SameOverlooked DEF InvNoted, Registered

LEMMA NotedStep == ASSUME IInv, InvNoted, [Next]_vars PROVE InvNoted'
<1> USE DEF Registered
<1>0. /\ errors \in BOOLEAN /\ pos \in Nat /\ Len(sourceOrder) \in Nat
      /\ then \in {"idle", "compile"}
  BY DEF IInv, InvFlags, InvControl, InvOrder
<1>1. CASE FreshStart \/ Entered \/ Quiet
  BY <1>1, NotedAway DEF FreshStart, Entered, Quiet
<1>2. CASE ParseSource \/ ParsingDone \/ SortStep \/ SortDone
  <2>1. pc' \in {"parse", "idle", "compile", "sort", "syntax"}
    BY <1>0, <1>2, Zenon DEF ParseSource, ParsingDone, Return, SortStep, SortRoot,
       SortImport, SortLeave, SortDone
  <2> QED
    BY <2>1, NotedAway
<1>3. CASE NextPhase
  <2>1. /\ pos > Len(sourceOrder) /\ pos' = 1
        /\ UNCHANGED <<errors, sources, sourceOrder>>
        /\ \/ pc' = "docStrings"
           \/ pc' = "register"
           \/ pc = "register" /\ pc' = "import"
           \/ pc \in Registered /\ pc' \in Registered
    BY <1>3, Zenon DEF NextPhase, PhaseRest, Phase
  <2>2. CASE pc' = "docStrings"
    BY <2>2, NotedAway
  <2>3. CASE pc' = "register"
    <3>1. \A i \in 1..Len(sourceOrder') : ~(i < pos')
      BY <2>1
    <3> QED
      BY <2>3, <3>1 DEF InvNoted
  <2>4. CASE pc = "register" /\ pc' = "import"
    <3>1. \A i \in 1..Len(sourceOrder) : i < pos
      BY <1>0, <2>1
    <3>2. \A i \in 1..Len(sourceOrder) : RepeatsAlias(sourceOrder[i]) => errors
      BY <2>4, <3>1 DEF InvNoted
    <3> QED
      BY <2>1, <2>4, <3>2, SameOverlooked DEF InvNoted
  <2>5. CASE pc \in Registered /\ pc' \in Registered
    BY <2>1, <2>5, NotedKept
  <2> QED
    BY <2>1, <2>2, <2>3, <2>4, <2>5
<1>4. CASE CheckSyntax \/ AnalyseDocStrings
  <2>1. pc' \in {"syntax", "docStrings"}
    BY <1>4, Zenon DEF CheckSyntax, AnalyseDocStrings, Stay
  <2> QED
    BY <2>1, NotedAway
<1>5. CASE RegisterDeclarations
  <2>1. /\ pc = "register" /\ pc' = "register" /\ pos' = pos + 1
        /\ UNCHANGED <<sources, sourceOrder>>
        /\ errors' = (errors \/ RepeatsAlias(Current) \/ RepeatsContract(Current))
    BY <1>5, Zenon DEF RegisterDeclarations, Stay, PhaseRest
  <2>2. ASSUME NEW i \in 1..Len(sourceOrder), i < pos + 1, RepeatsAlias(sourceOrder[i])
        PROVE  errors'
    <3>1. CASE i < pos
      <4>1. errors
        BY <2>1, <2>2, <3>1 DEF InvNoted
      <4> QED
        BY <2>1, <4>1, Zenon
    <3>2. CASE i = pos
      BY <2>1, <2>2, <3>2 DEF Current
    <3> QED
      BY <1>0, <2>2, <3>1, <3>2
  <2> QED
    BY <2>1, <2>2, SameOverlooked DEF InvNoted
<1>6. CASE NextSource \/ PerformImport \/ ResolveNames \/ CheckTypes
           \/ CheckLibraryNameClashes \/ ParseDone \/ GenStep
  <2>1. /\ UNCHANGED <<sources, sourceOrder>> /\ (errors => errors')
        /\ \/ pc' \in {"idle", "compile"}
           \/ pc \in Registered /\ pc' \in Registered
    BY <1>0, <1>6, Zenon DEF NextSource, PerformImport, ResolveNames, CheckTypes, Return,
       CheckLibraryNameClashes, ParseDone, Stay, PhaseRest, GenStep, CompileNext,
       CompileDependency, CompileBody, CompileDone, CompileReturn, GenRest
  <2> QED
    BY <2>1, NotedAway, NotedKept
<1>7. CASE UNCHANGED vars
  <2>1. UNCHANGED <<pc, pos, errors, sources, sourceOrder>>
    BY <1>7 DEF vars, objVars, ctlVars
  <2> QED
    BY <2>1, SameOverlooked DEF InvNoted
<1> QED
  BY <1>1, <1>2, <1>3, <1>4, <1>5, <1>6, <1>7, Kinds DEF PhaseStep

VInv == IInv /\ InvVerdict /\ InvNoted

THEOREM VerdictInvariance == Spec => []VInv
<1>1. Init => VInv
  BY InitIInv, InitVerdict DEF VInv, InvNoted, Init
<1>2. VInv /\ [Next]_vars => VInv'
  BY IInvStep, VerdictStep, NotedStep DEF VInv
<1> QED
  BY <1>1, <1>2, PTL DEF Spec

-----------------------------------------------------------------------------
\* What leaving parse() says about errors, for every way out of it.
LEMMA VerdictAtReturn ==
    ASSUME VInv, [Next]_vars, pc \in ParsePhase, pc' \notin ParsePhase
    PROVE  /\ ~errors' => parseSuccessful'
           /\ parseSuccessful' => (errors' <=> Overlooked)
<1> USE DEF ParsePhase, Phase, VInv
<1>0. errors \in BOOLEAN /\ noErrors \in BOOLEAN
  BY DEF IInv, InvFlags
<1>1. CASE FreshStart \/ Entered \/ Quiet
  BY <1>1 DEF FreshStart, Entered, Quiet
<1>2. CASE ParseSource
  BY <1>2, Zenon DEF ParseSource
<1>3. CASE ParsingDone
  <2>1. errors
    BY <1>3, Zenon DEF ParsingDone
  <2> QED
    BY <1>3, <2>1, Zenon DEF ParsingDone, Return
<1>4. CASE SortStep \/ SortDone
  BY <1>4, Zenon DEF SortStep, SortRoot, SortImport, SortLeave, SortDone
<1>5. CASE PerformImport
  <2>1. pc' # pc
    BY Zenon
  <2> QED
    BY <1>5, <2>1, Zenon DEF PerformImport, Return, Stay
<1>6. CASE ResolveNames
  <2>1. pc' # pc
    BY Zenon
  <2> QED
    BY <1>6, <2>1, Zenon DEF ResolveNames, Return, Stay
<1>7. CASE ParseDone
  <2>1. /\ pc = "check" /\ pos > Len(sourceOrder) /\ parseSuccessful' = noErrors
        /\ errors' = errors
    BY <1>7, Zenon DEF ParseDone, Return
  <2>2. ~noErrors => errors
    BY <2>1, Zenon DEF InvVerdict, OrderKnown
  <2>3. ASSUME errors, noErrors PROVE Overlooked
    <3>1. ASSUME NEW i \in 1..Len(sourceOrder), Unchecked(i) PROVE FALSE
      <4>1. i > pos \/ i = pos
        BY <2>1, <3>1 DEF Unchecked
      <4>2. pos \in Nat /\ Len(sourceOrder) \in Nat
        BY DEF IInv, InvControl, InvOrder
      <4> QED
        BY <2>1, <4>1, <4>2
    <3> QED
      BY <2>1, <2>3, <3>1, Zenon DEF InvVerdict, OrderKnown
  <2>4. ASSUME Overlooked PROVE errors
    <3>1. PICK i \in DOMAIN sourceOrder : RepeatsAlias(sourceOrder[i])
      BY <2>4 DEF Overlooked
    <3>2. i \in 1..Len(sourceOrder)
      BY DEF IInv, InvOrder
    <3> QED
      BY <2>1, <3>1, <3>2 DEF InvNoted
  <2> QED
    BY <2>1, <2>2, <2>3, <2>4, Zenon
<1>8. CASE NextPhase \/ NextSource \/ CheckSyntax \/ AnalyseDocStrings
           \/ RegisterDeclarations \/ CheckLibraryNameClashes \/ CheckTypes
  BY <1>8, Zenon DEF NextPhase, NextSource, CheckSyntax, AnalyseDocStrings,
     RegisterDeclarations, CheckLibraryNameClashes, CheckTypes, Stay
<1>9. CASE GenStep
  BY <1>9, Zenon DEF GenStep, CompileNext, CompileDependency, CompileBody, CompileDone
<1>10. CASE UNCHANGED vars
  BY <1>10 DEF vars, ctlVars
<1> QED
  BY <1>1, <1>2, <1>3, <1>4, <1>5, <1>6, <1>7, <1>8, <1>9, <1>10, Kinds DEF PhaseStep

\* parse() returns true when it has reported no error, and otherwise false,
\* however it ends: after a file that is missing or does not parse, a bad
\* import, a name that does not resolve, or the end of all checks.  The one
\* error it overlooks is a unit alias that is declared twice in a program
\* without a contract, and it overlooks every such error.
THEOREM ParseVerdictHolds == Spec => ParseVerdict
<1>1. VInv /\ [Next]_vars
        => [(pc \in ParsePhase /\ pc' \notin ParsePhase)
               => /\ ~errors' => parseSuccessful'
                  /\ parseSuccessful' => (errors' <=> Overlooked)]_vars
  BY VerdictAtReturn
<1> QED
  BY <1>1, VerdictInvariance, PTL DEF Spec, ParseVerdict

-----------------------------------------------------------------------------
(* The interface.                                                          *)
(*                                                                         *)
(* CompilerStack implements CompilerInterface: the initial state is one of *)
(* the interface, and each step of the compiler is a step of the interface *)
(* or changes nothing of it.  Two steps need the invariants: the end of    *)
(* parse(), which must have the right verdict, and the end of a contract's *)
(* compilation, whose object must be a code the interface knows.           *)

LEMMA RefineInit == Init => Interface!Init
<1> SUFFICES ASSUME Init PROVE Interface!Init
  OBVIOUS
<1>1. TextsOf = Interface!Nothing
  BY DEF Init, TextsOf, Interface!Nothing, EmptyMap
<1>2. ObjectsOf = Interface!Nothing
  BY DEF Init, ObjectsOf, Interface!Nothing, EmptyMap
<1>3. PhaseOf = "idle"
  BY DEF Init, PhaseOf
<1> QED
  BY <1>1, <1>2, <1>3, Zenon DEF Init, Interface!Init

-----------------------------------------------------------------------------
(* What the mapped variables do when the concrete ones change little.      *)

LEMMA SameTextsOf == ASSUME sources' = sources PROVE TextsOf' = TextsOf
BY DEF TextsOf

LEMMA SamePhase ==
    ASSUME pc' = pc \/ (pc \in ParsePhase /\ pc' \in ParsePhase)
    PROVE  PhaseOf' = PhaseOf
BY DEF PhaseOf, ParsePhase, Phase

\* Entries may come and change, as long as no code does.
LEMMA SameObjects ==
    ASSUME \A n \in DOMAIN contracts :
             n \in DOMAIN contracts' /\ contracts'[n].code = contracts[n].code,
           \A n \in DOMAIN contracts' :
             n \notin DOMAIN contracts => contracts'[n].code = NoCode
    PROVE  ObjectsOf' = ObjectsOf
<1> DEFINE D == {m \in DOMAIN contracts : contracts[m].code # NoCode}
           E == {m \in DOMAIN contracts' : contracts'[m].code # NoCode}
<1>1. D = E
  OBVIOUS
<1>2. \A n \in D : contracts'[n].code = contracts[n].code
  OBVIOUS
<1>3. ObjectsOf = [n \in D |-> contracts[n].code]
  BY DEF ObjectsOf
<1>4. ObjectsOf' = [n \in E |-> contracts'[n].code]
  BY DEF ObjectsOf
<1> QED
  BY <1>1, <1>2, <1>3, <1>4

LEMMA ContractsUnchanged == ASSUME contracts' = contracts PROVE ObjectsOf' = ObjectsOf
BY DEF ObjectsOf

\* m_contracts[name].contract = ... keeps the code of the entry.
LEMMA ListingKeepsObjects ==
    ASSUME NEW c, contracts' = WithContract(c) PROVE ObjectsOf' = ObjectsOf
<1> DEFINE n == DefinitionOf(c).name
<1>1. /\ DOMAIN contracts' = DOMAIN contracts \cup {n}
      /\ \A m \in DOMAIN contracts : m # n => contracts'[m] = contracts[m]
      /\ contracts'[n] =
           IF n \in DOMAIN contracts
           THEN [contract |-> c, code |-> contracts[n].code,
                 mapping |-> contracts[n].mapping, doc |-> contracts[n].doc]
           ELSE [contract |-> c, code |-> NoCode, mapping |-> NoCode, doc |-> NoPointer]
  BY DEF WithContract
<1> HIDE DEF n
<1>2. \A m \in DOMAIN contracts : m \in DOMAIN contracts' /\ contracts'[m].code = contracts[m].code
  BY <1>1
<1>3. \A m \in DOMAIN contracts' : m \notin DOMAIN contracts => contracts'[m].code = NoCode
  BY <1>1
<1> QED
  BY <1>2, <1>3, SameObjects

-----------------------------------------------------------------------------
(* One lemma per kind of abstract step.                                    *)

\* An inner step of parse().
LEMMA AnalyseRefined ==
    ASSUME pc \in ParsePhase, pc' \in ParsePhase,
           \A p \in DOMAIN sources :
             p \in DOMAIN sources' /\ sources'[p].text = sources[p].text,
           errors => errors',
           UNCHANGED <<then, optimise, parseSuccessful>>, ObjectsOf' = ObjectsOf
    PROVE  Interface!Analyse
<1>1. PhaseOf = "parse" /\ PhaseOf' = PhaseOf
  BY DEF PhaseOf, ParsePhase, Phase
<1>2. \A p \in DOMAIN TextsOf : p \in DOMAIN TextsOf' /\ TextsOf'[p] = TextsOf[p]
  BY DEF TextsOf
<1> QED
  BY <1>1, <1>2, Zenon DEF Interface!Analyse

\* A text with a repeated alias among sources without contracts is doubtful.
LEMMA OverlookedDoubtful ==
    ASSUME IInv, Overlooked PROVE \E p \in DOMAIN TextsOf : TextsOf[p] \in Doubtful
<1>1. PICK i \in DOMAIN sourceOrder : RepeatsAlias(sourceOrder[i])
  BY DEF Overlooked
<1> DEFINE p == sourceOrder[i]
<1>2. i \in 1..Len(sourceOrder) /\ p \in DOMAIN sources /\ sources[p].text \in Text
  BY <1>1 DEF IInv, InvOrder, InvSources, Source, Usable
<1>3. Contracts(p) = <<>>
  <2>1. \A k \in DOMAIN Contracts(p) : PointerTo(p, k) \in OrderedContracts
    BY <1>1 DEF OrderedContracts
  <2>2. Contracts(p) \in Seq(Definition)
    BY <1>2, ContractList
  <2>3. DOMAIN Contracts(p) = {}
    BY <2>1 DEF Overlooked
  <2> HIDE DEF p
  <2> QED
    BY <2>2, <2>3
<1>4. sources[p].text \in Doubtful
  BY <1>1, <1>2, <1>3 DEF Doubtful, RepeatsAlias, Imports, Contracts, UnitOf
<1>5. p \in DOMAIN TextsOf /\ TextsOf[p] = sources[p].text
  BY <1>2 DEF TextsOf
<1> QED
  BY <1>4, <1>5

\* parse() returns.
LEMMA EndParseRefined ==
    ASSUME VInv, [Next]_vars, pc \in ParsePhase,
           NEW ok, Return(ok), pc' \notin ParsePhase, errors => errors',
           UNCHANGED <<sources, contracts, optimise>>
    PROVE  Interface!EndParse
<1>1. /\ parseSuccessful' = ok /\ pc' = (IF ok THEN then ELSE "idle") /\ then' = "idle"
  BY Zenon DEF Return
<1>2. parseSuccessful' \in BOOLEAN /\ errors' \in BOOLEAN
  BY FlagsStep DEF VInv, InvFlags
<1>3. /\ ~errors' => parseSuccessful'
      /\ parseSuccessful' => ~errors' \/ \E p \in DOMAIN TextsOf : TextsOf[p] \in Doubtful
  BY VerdictAtReturn, OverlookedDoubtful DEF VInv
<1>4. then \in {"idle", "compile"}
  BY DEF VInv, IInv, InvControl
<1>5. pc' \in {"idle", "compile"}
  BY <1>1, <1>4, Zenon
<1>6. PhaseOf = "parse" /\ PhaseOf' = pc'
  BY <1>5 DEF PhaseOf, ParsePhase, Phase
<1>7. PhaseOf' = IF parseSuccessful' THEN then ELSE "idle"
  BY <1>1, <1>6, Zenon
<1>8. TextsOf' = TextsOf /\ ObjectsOf' = ObjectsOf
  BY SameTextsOf, ContractsUnchanged
<1> QED
  BY <1>1, <1>2, <1>3, <1>6, <1>7, <1>8, Zenon DEF Interface!EndParse

\* The sources are replaced or extended by the user.
LEMMA ChangeRefined ==
    ASSUME pc = "idle", pc' = pc, DOMAIN sources' \subseteq Path,
           sources' \in [DOMAIN sources' -> Source],
           parseSuccessful' = FALSE, errors' = FALSE, contracts' = EmptyMap,
           UNCHANGED <<then, optimise>>
    PROVE  Interface!ChangeSources
<1>1. PhaseOf = "idle" /\ PhaseOf' = PhaseOf
  BY DEF PhaseOf
<1>2. TextsOf' \in [DOMAIN sources' -> Text]
  BY DEF TextsOf, Source
<1>3. \E D \in SUBSET Path : TextsOf' \in [D -> Text]
  BY <1>2
<1>4. ObjectsOf' = Interface!Nothing
  BY DEF ObjectsOf, EmptyMap, Interface!Nothing
<1> QED
  BY <1>1, <1>3, <1>4, Zenon DEF Interface!ChangeSources

\* parse() is entered, by the user or from compile().
LEMMA BeginParseRefined ==
    ASSUME pc = "idle", NEW after \in {"idle", "compile"}, StartParse(after),
           after = "idle" => optimise' = optimise
    PROVE  Interface!BeginParse
<1>1. /\ pc' = "parse" /\ then' = after /\ errors' = FALSE /\ parseSuccessful' = FALSE
      /\ UNCHANGED <<sources, contracts>>
  BY Zenon DEF StartParse
<1>2. PhaseOf = "idle" /\ PhaseOf' = "parse"
  BY <1>1 DEF PhaseOf
<1>3. TextsOf' = TextsOf /\ ObjectsOf' = ObjectsOf
  BY <1>1, SameTextsOf, ContractsUnchanged
<1> QED
  BY <1>1, <1>2, <1>3, Zenon DEF Interface!BeginParse

\* Nothing a user of the interface can see has changed.
LEMMA StutterRefined ==
    ASSUME PhaseOf' = PhaseOf, UNCHANGED <<then, optimise, parseSuccessful, errors>>,
           sources' = sources, ObjectsOf' = ObjectsOf
    PROVE  UNCHANGED Interface!vars
<1>1. TextsOf' = TextsOf
  BY SameTextsOf
<1> QED
  BY <1>1 DEF Interface!vars

LEMMA LinkRefined == ASSUME IInv, Link PROVE Interface!Link
<1>1. /\ pc = "idle" /\ pc' = pc
      /\ contracts' = [n \in DOMAIN contracts |->
                       IF contracts[n].code = NoCode THEN contracts[n]
                       ELSE WithCode(contracts[n], Linked(contracts[n].code))]
      /\ UNCHANGED <<sources, then, optimise, parseSuccessful, errors>>
  BY Zenon DEF Link, ContractsOnly, genVars
<1>2. PhaseOf = "idle" /\ PhaseOf' = PhaseOf
  BY <1>1 DEF PhaseOf
<1>3. TextsOf' = TextsOf
  BY <1>1, SameTextsOf
<1> DEFINE D == {m \in DOMAIN contracts : contracts[m].code # NoCode}
           E == {m \in DOMAIN contracts' : contracts'[m].code # NoCode}
<1>4. \A c : Linked(c) # NoCode
  BY DEF Linked, NoCode
<1>5. \A n \in DOMAIN contracts :
         contracts'[n].code = IF contracts[n].code = NoCode THEN NoCode
                              ELSE Linked(contracts[n].code)
  BY <1>1 DEF WithCode
<1>6. E = D
  BY <1>1, <1>4, <1>5
<1>7. ObjectsOf = [n \in D |-> contracts[n].code] /\ ObjectsOf' = [n \in E |-> contracts'[n].code]
  BY DEF ObjectsOf
<1>8. ObjectsOf' = [n \in DOMAIN ObjectsOf |-> Linked(ObjectsOf[n])]
  <2>1. \A n \in D : contracts'[n].code = Linked(ObjectsOf[n])
    BY <1>5, <1>7
  <2>2. DOMAIN ObjectsOf = D
    BY <1>7
  <2> QED
    BY <1>6, <1>7, <2>1, <2>2
<1> QED
  BY <1>1, <1>2, <1>3, <1>8, Zenon DEF Interface!Link

LEMMA EmitRefined ==
    ASSUME IInv, CompileBody
    PROVE  Interface!Emit \/ Interface!EndCompile
<1> DEFINE c == Head(calls).contract
           n == DefinitionOf(c).name
           code == [of |-> c, optimised |-> optimise, linked |-> FALSE]
<1>1. /\ pc = "compile" /\ calls # <<>>
      /\ UNCHANGED <<sources, then, parseSuccessful, errors>>
  BY Zenon DEF CompileBody, GenRest
<1>2. parseSuccessful
  BY <1>1 DEF IInv, InvControl
<1>3. TextsOf' = TextsOf /\ PhaseOf = "compile"
  BY <1>1, SameTextsOf DEF PhaseOf
<1>4. CASE Created(c) \subseteq compiled
  <2>1. /\ contracts' = [contracts EXCEPT ![n] = WithCode(contracts[n], code)]
        /\ UNCHANGED <<optimise, pc>>
    BY <1>4, Zenon DEF CompileBody
  <2>2. c \in OrderedContracts /\ n \in DOMAIN contracts
    BY <1>1, BodyListed
  <2>3. c \in Pointer /\ c # NoPointer
    BY <2>2, OrderedPointer
  <2>4. n \in Name
    BY <2>2 DEF IInv, InvContracts
  <2>5. code \in Code /\ code.optimised = optimise /\ code.linked = FALSE /\ code # NoCode
    BY <2>3 DEF Code, NoCode, IInv, InvFlags
  <2>6. PhaseOf' = PhaseOf
    BY <2>1, SamePhase
  <2> HIDE DEF c, n, code
  <2> DEFINE D == {m \in DOMAIN contracts : contracts[m].code # NoCode}
             E == {m \in DOMAIN contracts' : contracts'[m].code # NoCode}
  <2>7. /\ DOMAIN contracts' = DOMAIN contracts
        /\ contracts'[n].code = code
        /\ \A m \in DOMAIN contracts : m # n => contracts'[m] = contracts[m]
    BY <2>1, <2>2 DEF WithCode, IInv, InvContracts
  <2>8. E = D \cup {n}
    BY <2>2, <2>5, <2>7
  <2>9. ObjectsOf = [m \in D |-> contracts[m].code] /\ ObjectsOf' = [m \in E |-> contracts'[m].code]
    BY DEF ObjectsOf
  <2>10. DOMAIN ObjectsOf = D
    BY <2>9
  <2>11. \A m \in E : contracts'[m].code = IF m = n THEN code ELSE ObjectsOf[m]
    BY <2>7, <2>8, <2>9
  <2>12. ObjectsOf' = [m \in DOMAIN ObjectsOf \cup {n} |-> IF m = n THEN code ELSE ObjectsOf[m]]
    BY <2>8, <2>9, <2>10, <2>11
  <2>13. ~code.linked
    BY <2>5, Zenon
  <2> QED
    BY <1>1, <1>2, <1>3, <2>1, <2>4, <2>5, <2>6, <2>12, <2>13, Zenon DEF Interface!Emit
<1>5. CASE ~(Created(c) \subseteq compiled)
  <2>1. pc' = "idle" /\ optimise' = FALSE /\ contracts' = contracts
    BY <1>5, Zenon DEF CompileBody, CompileReturn
  <2>2. PhaseOf' = "idle" /\ ObjectsOf' = ObjectsOf
    BY <2>1, ContractsUnchanged DEF PhaseOf
  <2> QED
    BY <1>1, <1>3, <2>1, <2>2, Zenon DEF Interface!EndCompile
<1> QED
  BY <1>4, <1>5

-----------------------------------------------------------------------------
LEMMA RefineCall ==
    ASSUME IInv, [Next]_vars, Call
    PROVE  Interface!Next \/ UNCHANGED Interface!vars
<1>0. contracts \in [DOMAIN contracts -> Contract]
  BY DEF IInv, InvContracts
<1>1. ASSUME NEW p \in Path, NEW t \in Text, NEW lib \in LibraryFlags, AddSource(p, t, lib)
      PROVE  Interface!ChangeSources
  <2>1. AddSourceTo(sources, p, t, lib) /\ lib \in BOOLEAN
    BY <1>1, LibraryFlag DEF AddSource
  <2>2. DOMAIN sources' \subseteq Path /\ sources' \in [DOMAIN sources' -> Source]
    BY <2>1, FreshFrame DEF IInv, InvSources
  <2>3. /\ pc = "idle" /\ pc' = pc /\ parseSuccessful' = FALSE /\ errors' = FALSE
        /\ contracts' = EmptyMap /\ UNCHANGED <<then, optimise>>
    BY <1>1, Zenon DEF AddSource, AddSourceTo, Reset, IdleRest, genVars
  <2> QED
    BY <2>2, <2>3, ChangeRefined
<1>2. ASSUME NEW t \in Text, SetSource(t) PROVE Interface!ChangeSources
  <2>1. AddSourceTo(EmptyMap, EmptyPath, t, FALSE)
    BY <1>2 DEF SetSource
  <2>2. DOMAIN EmptyMap \subseteq Path /\ EmptyMap \in [DOMAIN EmptyMap -> Source]
    BY DEF EmptyMap
  <2>3. DOMAIN sources' \subseteq Path /\ sources' \in [DOMAIN sources' -> Source]
    BY <2>1, <2>2, FreshFrame, EmptyPathIsPath
  <2>4. /\ pc = "idle" /\ pc' = pc /\ parseSuccessful' = FALSE /\ errors' = FALSE
        /\ contracts' = EmptyMap /\ UNCHANGED <<then, optimise>>
    BY <1>2, Zenon DEF SetSource, AddSourceTo, Reset, IdleRest, genVars
  <2> QED
    BY <2>3, <2>4, ChangeRefined
<1>3. ASSUME NEW keep \in BOOLEAN, ResetSources(keep) PROVE Interface!ChangeSources
  <2>1. sources' = sources \/ sources' = EmptyMap
    BY <1>3 DEF ResetSources, Reset
  <2>2. DOMAIN sources' \subseteq Path /\ sources' \in [DOMAIN sources' -> Source]
    BY <2>1 DEF EmptyMap, IInv, InvSources
  <2>3. /\ pc = "idle" /\ pc' = pc /\ parseSuccessful' = FALSE /\ errors' = FALSE
        /\ contracts' = EmptyMap /\ UNCHANGED <<then, optimise>>
    BY <1>3, Zenon DEF ResetSources, Reset, IdleRest, genVars
  <2> QED
    BY <2>2, <2>3, ChangeRefined
<1>4. ASSUME NEW r \in Remapping, SetRemappings(r) PROVE UNCHANGED Interface!vars
  <2>1. UNCHANGED <<sources, contracts, pc, then, optimise, parseSuccessful, errors>>
    BY <1>4, Zenon DEF SetRemappings, genVars
  <2> QED
    BY <2>1, StutterRefined, SamePhase, ContractsUnchanged
<1>5. CASE Parse
  <2>1. pc = "idle" /\ StartParse("idle") /\ optimise' = optimise
    BY <1>5, Zenon DEF Parse
  <2> QED
    BY <2>1, BeginParseRefined DEF Interface!Next
<1>6. ASSUME NEW opt \in BOOLEAN, Compile(opt)
      PROVE  Interface!BeginParse \/ Interface!BeginCompile
  <2>1. CASE parseSuccessful
    <3>1. /\ pc = "idle" /\ pc' = "compile"
          /\ UNCHANGED <<sources, contracts, then, parseSuccessful, errors>>
      BY <1>6, <2>1, Zenon DEF Compile, GenRest
    <3>2. PhaseOf = "idle" /\ PhaseOf' = "compile" /\ TextsOf' = TextsOf /\ ObjectsOf' = ObjectsOf
      BY <3>1, SameTextsOf, ContractsUnchanged DEF PhaseOf
    <3> QED
      BY <2>1, <3>1, <3>2, Zenon DEF Interface!BeginCompile
  <2>2. CASE ~parseSuccessful
    <3>1. pc = "idle" /\ StartParse("compile")
      BY <1>6, <2>2, Zenon DEF Compile
    <3> QED
      BY <3>1, BeginParseRefined
  <2> QED
    BY <2>1, <2>2
<1>7. CASE Link
  BY <1>7, LinkRefined DEF Interface!Next
<1>8. ASSUME NEW n \in Queried, SourceMapping(n) \/ Metadata(n) PROVE UNCHANGED Interface!vars
  <2>1. /\ n \in DOMAIN contracts
        /\ UNCHANGED <<sources, pc, then, optimise, parseSuccessful, errors>>
    BY <1>8, Zenon DEF SourceMapping, Metadata, ContractsOnly, genVars
  <2>2. PICK e : e.code = contracts[n].code /\ contracts' = [contracts EXCEPT ![n] = e]
    BY <1>8 DEF SourceMapping, Metadata
  <2>3. /\ DOMAIN contracts' = DOMAIN contracts
        /\ \A m \in DOMAIN contracts : contracts'[m].code = contracts[m].code
    BY <1>0, <2>1, <2>2
  <2> QED
    BY <2>1, <2>3, StutterRefined, SamePhase, SameObjects
<1>9. ASSUME NEW translates \in BOOLEAN, PrepareFormalAnalysis(translates)
      PROVE  Interface!FormalAnalysis \/ UNCHANGED Interface!vars
  <2>1. /\ pc = "idle" /\ errors' = (errors \/ ~translates)
        /\ UNCHANGED <<sources, contracts, pc, then, optimise, parseSuccessful>>
    BY <1>9, Zenon DEF PrepareFormalAnalysis, genVars
  <2>2. PhaseOf = "idle" /\ PhaseOf' = PhaseOf /\ TextsOf' = TextsOf /\ ObjectsOf' = ObjectsOf
    BY <2>1, SameTextsOf, ContractsUnchanged DEF PhaseOf
  <2>3. errors' = errors \/ errors' = TRUE
    BY <2>1, Zenon DEF IInv, InvFlags
  <2>4. CASE errors' = errors
    BY <2>1, <2>2, <2>4, StutterRefined
  <2>5. CASE errors' = TRUE
    BY <2>1, <2>2, <2>5, Zenon DEF Interface!FormalAnalysis
  <2> QED
    BY <2>3, <2>4, <2>5
<1> QED
  BY <1>1, <1>2, <1>3, <1>4, <1>5, <1>6, <1>7, <1>8, <1>9 DEF Call, Interface!Next

\* The worklist: sources are added, none is changed.
LEMMA RefineParseSource == ASSUME IInv, ParseSource PROVE Interface!Analyse
<1> DEFINE p == work[pos]
           missing == IF UnitOf(p).parse = "fatal" THEN {}
                      ELSE ImportTargets(p) \ DOMAIN sources
<1>1. PICK file \in [missing -> Text \cup {NotFound}] :
         LET found == {q \in missing : file[q] # NotFound} IN
           /\ sources' = [q \in DOMAIN sources \cup found |->
                IF q = p THEN Parsed(p)
                ELSE IF q \in found
                THEN [text |-> file[q], ast |-> NullAst, isLibrary |-> FALSE]
                ELSE sources[q]]
           /\ errors' = (errors \/ UnitOf(p).parse # "ok" \/ found # missing)
  BY Zenon DEF ParseSource
<1>2. /\ pc = "parse" /\ pc' = "parse"
      /\ UNCHANGED <<then, optimise, parseSuccessful, contracts>>
  BY Zenon DEF ParseSource, genVars
<1>3. missing \cap DOMAIN sources = {}
  OBVIOUS
<1>4. \A q \in DOMAIN sources : q \in DOMAIN sources' /\ sources'[q].text = sources[q].text
  BY <1>1, <1>3 DEF Parsed
<1>5. errors => errors'
  BY <1>1, Zenon
<1> QED
  BY <1>2, <1>4, <1>5, AnalyseRefined, ContractsUnchanged DEF ParsePhase

LEMMA RefineStep ==
    ASSUME VInv, [Next]_vars
    PROVE  Interface!Next \/ UNCHANGED Interface!vars
<1> USE DEF VInv
<1>0. then \in {"idle", "compile"}
  BY DEF IInv, InvControl
<1>a. ASSUME pc \in ParsePhase, pc' \in ParsePhase,
             UNCHANGED <<sources, then, optimise, parseSuccessful>>,
             errors => errors', ObjectsOf' = ObjectsOf
      PROVE  Interface!Next
  BY <1>a, AnalyseRefined DEF Interface!Next
<1>b. ASSUME pc \in ParsePhase, NEW ok, Return(ok), pc' \notin ParsePhase, errors => errors',
             UNCHANGED <<sources, contracts, optimise>>
      PROVE  Interface!Next
  BY <1>b, EndParseRefined DEF Interface!Next
<1>c. ASSUME NEW ok, Return(ok) PROVE pc' \notin ParsePhase
  <2>1. pc' \in {"idle", "compile"}
    BY <1>0, <1>c, Zenon DEF Return
  <2> QED
    BY <2>1 DEF ParsePhase, Phase
<1>1. CASE Call
  BY <1>1, RefineCall
<1>2. CASE ParseSource
  BY <1>2, RefineParseSource DEF Interface!Next
<1>3. CASE ParsingDone
  <2>1. /\ pc = "parse" /\ UNCHANGED <<sources, contracts, optimise, errors>>
        /\ \/ Return(FALSE)
           \/ pc' = "sort" /\ UNCHANGED <<then, parseSuccessful>>
    BY <1>3, Zenon DEF ParsingDone, genVars
  <2>2. pc \in ParsePhase /\ "sort" \in ParsePhase
    BY <2>1 DEF ParsePhase
  <2>3. CASE Return(FALSE)
    BY <1>b, <1>c, <2>1, <2>2, <2>3
  <2>4. CASE pc' = "sort" /\ UNCHANGED <<then, parseSuccessful>>
    BY <1>a, <2>1, <2>2, <2>4, ContractsUnchanged
  <2> QED
    BY <2>1, <2>3, <2>4
<1>4. CASE SortRoot \/ SortImport \/ SortLeave \/ SortDone
  <2>1. /\ pc = "sort" /\ pc' \in {"sort", "syntax"}
        /\ UNCHANGED <<sources, then, optimise, parseSuccessful, errors, contracts>>
    BY <1>4, Zenon DEF SortRoot, SortImport, SortLeave, SortDone, SortRest, genVars
  <2> QED
    BY <1>a, <2>1, ContractsUnchanged DEF ParsePhase, Phase
<1>5. CASE NextPhase
  <2>1. /\ pc \in Phase /\ pc' \in Phase \cup {"clash"}
        /\ UNCHANGED <<sources, then, optimise, parseSuccessful, errors, contracts>>
    BY <1>5, Zenon DEF NextPhase, PhaseRest, genVars, Phase
  <2> QED
    BY <1>a, <2>1, ContractsUnchanged DEF ParsePhase
<1>6. CASE NextSource
  <2>1. pc' = pc /\ UNCHANGED <<sources, then, optimise, parseSuccessful, errors, contracts>>
    BY <1>6, Zenon DEF NextSource, Stay, PhaseRest, genVars
  <2> QED
    BY <2>1, StutterRefined, SamePhase, ContractsUnchanged
<1>7. CASE CheckSyntax \/ AnalyseDocStrings \/ RegisterDeclarations
  <2>1. /\ pc \in {"syntax", "docStrings", "register"} /\ pc' = pc
        /\ UNCHANGED <<sources, then, optimise, parseSuccessful, contracts>>
        /\ (errors => errors')
    BY <1>7, Zenon DEF CheckSyntax, AnalyseDocStrings, RegisterDeclarations, Stay,
       PhaseRest, genVars
  <2> QED
    BY <1>a, <2>1, ContractsUnchanged DEF ParsePhase, Phase
<1>8. CASE PerformImport
  <2>1. /\ pc = "import" /\ UNCHANGED <<sources, contracts, optimise>>
        /\ \/ Return(FALSE) /\ errors' = TRUE
           \/ UNCHANGED <<pc, then, parseSuccessful, errors>>
    BY <1>8, Zenon DEF PerformImport, Stay, PhaseRest, genVars
  <2>2. pc \in ParsePhase
    BY <2>1 DEF ParsePhase, Phase
  <2>3. CASE Return(FALSE) /\ errors' = TRUE
    BY <1>b, <1>c, <2>1, <2>2, <2>3
  <2>4. CASE UNCHANGED <<pc, then, parseSuccessful, errors>>
    BY <1>a, <2>1, <2>2, <2>4, ContractsUnchanged
  <2> QED
    BY <2>1, <2>3, <2>4
<1>9. CASE ResolveNames
  <2>1. /\ pc = "resolve" /\ UNCHANGED <<sources, optimise>>
        /\ \/ Return(FALSE) /\ errors' = TRUE /\ contracts' = contracts
           \/ contracts' = WithContract(Here) /\ UNCHANGED <<pc, then, parseSuccessful, errors>>
    BY <1>9, Zenon DEF ResolveNames, Stay, PhaseRest, genVars
  <2>2. pc \in ParsePhase
    BY <2>1 DEF ParsePhase, Phase
  <2>3. CASE Return(FALSE) /\ errors' = TRUE /\ contracts' = contracts
    BY <1>b, <1>c, <2>1, <2>2, <2>3
  <2>4. CASE contracts' = WithContract(Here) /\ UNCHANGED <<pc, then, parseSuccessful, errors>>
    BY <1>a, <2>1, <2>2, <2>4, ListingKeepsObjects
  <2> QED
    BY <2>1, <2>3, <2>4
<1>10. CASE CheckLibraryNameClashes
  <2>1. /\ pc = "clash" /\ pc' = "check" /\ (errors => errors')
        /\ UNCHANGED <<sources, then, optimise, parseSuccessful, contracts>>
    BY <1>10, Zenon DEF CheckLibraryNameClashes, PhaseRest, genVars
  <2> QED
    BY <1>a, <2>1, ContractsUnchanged DEF ParsePhase
<1>11. CASE CheckTypes
  <2>1. /\ pc = "check" /\ pc' = pc /\ contracts' = WithContract(Here)
        /\ UNCHANGED <<sources, then, optimise, parseSuccessful>>
        /\ (errors => errors')
    BY <1>11, Zenon DEF CheckTypes, Stay, PhaseRest, genVars
  <2> QED
    BY <1>a, <2>1, ListingKeepsObjects DEF ParsePhase
<1>12. CASE ParseDone
  <2>1. pc = "check" /\ Return(noErrors) /\ UNCHANGED <<sources, contracts, optimise, errors>>
    BY <1>12, Zenon DEF ParseDone, PhaseRest, genVars
  <2> QED
    BY <1>b, <1>c, <2>1 DEF ParsePhase
<1>13. CASE CompileNext \/ CompileDependency
  <2>1. pc' = pc /\ UNCHANGED <<sources, then, optimise, parseSuccessful, errors, contracts>>
    BY <1>13, Zenon DEF CompileNext, CompileDependency, GenRest
  <2> QED
    BY <2>1, StutterRefined, SamePhase, ContractsUnchanged
<1>14. CASE CompileBody
  BY <1>14, EmitRefined DEF Interface!Next
<1>15. CASE CompileDone
  <2>1. /\ pc = "compile" /\ pc' = "idle" /\ optimise' = FALSE
        /\ UNCHANGED <<sources, then, parseSuccessful, errors, contracts>>
    BY <1>15, Zenon DEF CompileDone, CompileReturn, GenRest
  <2>2. /\ PhaseOf = "compile" /\ PhaseOf' = "idle"
        /\ TextsOf' = TextsOf /\ ObjectsOf' = ObjectsOf
    BY <2>1, SameTextsOf, ContractsUnchanged DEF PhaseOf
  <2> QED
    BY <2>1, <2>2, Zenon DEF Interface!EndCompile, Interface!Next
<1>16. CASE UNCHANGED vars
  <2>1. UNCHANGED <<pc, sources, then, optimise, parseSuccessful, errors, contracts>>
    BY <1>16, Zenon DEF vars, objVars, ctlVars, genVars
  <2> QED
    BY <2>1, StutterRefined, SamePhase, ContractsUnchanged
<1> QED
  BY <1>1, <1>2, <1>3, <1>4, <1>5, <1>6, <1>7, <1>8, <1>9, <1>10, <1>11, <1>12, <1>13,
     <1>14, <1>15, <1>16 DEF Next, Step

\* CompilerStack implements its interface: texts change only between calls
\* or by being read, a parse that reported no error succeeds, one that reported
\* an error fails unless a text with a repeated alias may be all that is wrong,
\* and code appears only while compile() runs on a parse that succeeded.
THEOREM CompilerImplementsInterface == Spec => ImplementsInterface
<1>1. VInv /\ [Next]_vars => [Interface!Next]_(Interface!vars)
  BY RefineStep
<1> QED
  BY <1>1, RefineInit, VerdictInvariance, PTL
  DEF Spec, ImplementsInterface, Interface!Spec
=============================================================================
