------------------------ MODULE CompilerStack_proofs ------------------------
(***************************************************************************)
(* Proofs about CompilerStack, for any number of paths, texts and calls.   *)
(*                                                                         *)
(* The inductive invariant IInv has one part per group of variables.  The  *)
(* parts depend on each other: the pointers kept in scopes, dependencies   *)
(* and the compilation stack are only well typed because every source in   *)
(* m_sourceOrder has a syntax tree, and that holds because resolveImports  *)
(* starts only when no source failed to parse.                             *)
(***************************************************************************)
EXTENDS CompilerStack, SequenceTheorems, FiniteSetTheorems, TLAPS

Frame == [path : Path, next : Nat \ {0}]

\* Flags, and what the last call returned.
InvFlags ==
    /\ parseSuccessful \in BOOLEAN /\ errors \in BOOLEAN
    /\ noErrors \in BOOLEAN /\ optimise \in BOOLEAN
    /\ result \in {"none", "true", "false", "InternalCompilerError"}

\* Program counter and counters.
InvControl ==
    /\ remap \in Remapping
    /\ pc \in {"idle", "compile"} \cup ParsePhase
    /\ gen \in 0..MaxParses /\ then \in {"idle", "compile"}
    /\ pos \in Nat \ {0} /\ sub \in Nat \ {0}
    /\ pc = "parse" => gen # 0
    /\ parseSuccessful => pc \in {"idle", "compile"}
    /\ pc = "compile" => parseSuccessful

\* A source the rest of the compiler can use.
Usable(p) ==
    /\ p \in DOMAIN sources
    /\ sources[p].ast # NullAst
    /\ UnitOf(p).parse # "fatal"

\* m_sources and the worklist of parse().
InvSources ==
    /\ DOMAIN sources \subseteq Path
    /\ sources \in [DOMAIN sources -> Source]
    /\ work \in Seq(Path)
    /\ pc = "parse" =>
         /\ \A i \in 1..Len(work) : work[i] \in DOMAIN sources
         /\ \A q \in DOMAIN sources : \E i \in 1..Len(work) : work[i] = q
         /\ ~errors => \A i \in 1..Len(work) : i < pos =>
              Usable(work[i]) /\ ImportTargets(work[i]) \subseteq DOMAIN sources
    /\ pc = "sort" =>
         \A q \in DOMAIN sources : Usable(q) /\ ImportTargets(q) \subseteq DOMAIN sources

\* The depth-first search: what is on the stack or finished has been seen,
\* and nothing is there twice.
InvSort ==
    /\ stack \in Seq(Frame) /\ order \in Seq(Path)
    /\ seen \subseteq DOMAIN sources
    /\ pc # "sort" => stack = <<>> /\ order = <<>> /\ seen = {}
    /\ \A i \in 1..Len(stack) : stack[i].path \in seen
    /\ \A i \in 1..Len(order) : order[i] \in seen
    /\ \A i, j \in 1..Len(stack) : stack[i].path = stack[j].path => i = j
    /\ \A i, j \in 1..Len(order) : order[i] = order[j] => i = j
    /\ \A i \in 1..Len(stack), j \in 1..Len(order) : stack[i].path # order[j]

\* m_sourceOrder lists usable sources, each once.
InvOrder ==
    /\ sourceOrder \in Seq(Path)
    /\ \A i \in 1..Len(sourceOrder) : Usable(sourceOrder[i])
    /\ \A i, j \in 1..Len(sourceOrder) : sourceOrder[i] = sourceOrder[j] => i = j

\* Scopes and annotations only mention contracts of sources in m_sourceOrder.
Visible == OrderedContracts \cup AliasPointer \cup {NoPointer}
InvAst ==
    /\ scope \in [Path -> [Name -> Visible]]
    /\ bases \subseteq OrderedContracts \X OrderedContracts
    /\ deps \subseteq OrderedContracts \X OrderedContracts
    /\ abstract \subseteq OrderedContracts
    /\ pc \in {"parse", "sort"} =>
         scope = [p \in Path |-> EmptyScope] /\ abstract = {}
    /\ pc \in {"parse", "sort", "syntax", "docStrings", "register", "import"} =>
         bases = {} /\ deps = {}

\* The contract at position (i, k) is still to be visited.
Ahead(i, k) == i > pos \/ (i = pos /\ k >= sub)

\* Resolution linearizes contracts in order; checking keeps the dependency
\* graph acyclic as long as it reports no error.
InvDeps ==
    /\ pc = "resolve" =>
         /\ \A e \in bases \cup deps : Linearized(e[2])
         /\ \A i \in 1..Len(sourceOrder), k \in 1..MaxContracts :
              Ahead(i, k) => ~Linearized(PointerTo(sourceOrder[i], k))
    /\ parseSuccessful => Acyclic(deps)
    /\ pc \in {"resolve", "clash", "check"} /\ noErrors => Acyclic(deps)

\* The names a contract uses are bound and it is listed in m_contracts.
Resolved(c) ==
    /\ DefinitionOf(c).name \in DOMAIN contracts
    /\ NoPointer \notin Denoted(c, DefinitionOf(c).creates)

InvContracts ==
    /\ DOMAIN contracts \subseteq Name
    /\ contracts \in [DOMAIN contracts -> Contract]
    /\ pc = "resolve" =>
         \A i \in 1..Len(sourceOrder) : \A k \in DOMAIN Contracts(sourceOrder[i]) :
           ~Ahead(i, k) => Resolved(PointerTo(sourceOrder[i], k))
    /\ (pc \in {"clash", "check"} \/ parseSuccessful) =>
         \A c \in OrderedContracts : Resolved(c)

CallFrame == [contract : OrderedContracts, todo : SUBSET OrderedContracts]

\* The recursion of compileContract only visits those contracts.
InvCompile ==
    /\ calls \in Seq(CallFrame)
    /\ compiled \subseteq Pointer
    /\ pc # "compile" => calls = <<>> /\ compiled = {}

IInv == /\ InvFlags /\ InvControl /\ InvSources /\ InvSort /\ InvOrder
        /\ InvAst /\ InvDeps /\ InvContracts /\ InvCompile

-----------------------------------------------------------------------------
(* What the assumption on the constants says, in pieces.                   *)

LEMMA Bounds ==
    /\ NumPaths \in Nat /\ NumPaths # 0
    /\ MaxContracts \in Nat /\ MaxContracts # 0
    /\ MaxParses \in Nat /\ MaxParses # 0
BY ConstantsAssumption

-----------------------------------------------------------------------------
(* The initial state.                                                      *)

LEMMA InitIInv == Init => IInv
<1> SUFFICES ASSUME Init PROVE IInv
  OBVIOUS
<1> USE Bounds
<1>0. OrderedContracts = {}
  BY DEF Init, OrderedContracts
<1>6. InvFlags
  BY Zenon DEF Init, InvFlags
<1>1. InvControl
  BY DEF Init, InvControl, ParsePhase, Phase
<1>2. InvSources /\ InvSort /\ InvOrder
  BY DEF Init, InvSources, InvSort, InvOrder, EmptyMap
<1>3. InvAst
  BY DEF Init, InvAst, EmptyScope, Visible
<1>4. InvDeps
  BY DEF Init, InvDeps, Acyclic, Ahead, Linearized
<1>5. InvContracts /\ InvCompile
  BY <1>0 DEF Init, InvContracts, InvCompile, EmptyMap
<1> QED
  BY <1>1, <1>2, <1>3, <1>4, <1>5, <1>6 DEF IInv

-----------------------------------------------------------------------------
(* One lemma per part of the invariant: the part survives every step.      *)

LEMMA FlagsStep == ASSUME IInv, [Next]_vars PROVE InvFlags'
<1> USE DEF IInv, InvFlags
<1>1. CASE Call
  <2>1. ASSUME NEW p \in Path, NEW t \in Text, NEW lib \in LibraryFlags,
               AddSource(p, t, lib) PROVE InvFlags'
    BY <2>1, Zenon DEF AddSource, AddSourceTo, Reset, IdleRest, genVars
  <2>2. ASSUME NEW t \in Text, SetSource(t) PROVE InvFlags'
    BY <2>2, Zenon DEF SetSource, AddSourceTo, Reset, IdleRest, genVars
  <2>3. ASSUME NEW keep \in BOOLEAN, ResetSources(keep) PROVE InvFlags'
    BY <2>3, Zenon DEF ResetSources, Reset, IdleRest, genVars
  <2>4. ASSUME NEW r \in Remapping, SetRemappings(r) PROVE InvFlags'
    BY <2>4, Zenon DEF SetRemappings, genVars
  <2>5. CASE Parse
    BY <2>5, Zenon DEF Parse, StartParse
  <2>6. ASSUME NEW opt \in BOOLEAN, Compile(opt) PROVE InvFlags'
    BY <2>6, Zenon DEF Compile, StartParse, GenRest
  <2>7. CASE Link
    BY <2>7, Zenon DEF Link, ContractsOnly, genVars
  <2>8. ASSUME NEW n \in Queried, SourceMapping(n) \/ Metadata(n) PROVE InvFlags'
    BY <2>8, Zenon DEF SourceMapping, Metadata, ContractsOnly, genVars
  <2>9. ASSUME NEW translates \in BOOLEAN, PrepareFormalAnalysis(translates)
        PROVE InvFlags'
    BY <2>9, Zenon DEF PrepareFormalAnalysis, genVars
  <2> QED
    BY <1>1, <2>1, <2>2, <2>3, <2>4, <2>5, <2>6, <2>7, <2>8, <2>9 DEF Call
<1>2. CASE ParseSource \/ ParsingDone
  BY <1>2, Zenon DEF ParseSource, ParsingDone, Return, genVars
<1>3. CASE SortRoot \/ SortImport \/ SortLeave \/ SortDone
  BY <1>3, Zenon DEF SortRoot, SortImport, SortLeave, SortDone, SortRest, genVars
<1>4. CASE NextPhase \/ NextSource
  BY <1>4, Zenon DEF NextPhase, NextSource, Stay, PhaseRest, genVars
<1>5. CASE CheckSyntax \/ AnalyseDocStrings \/ RegisterDeclarations
  BY <1>5, Zenon DEF CheckSyntax, AnalyseDocStrings, RegisterDeclarations, Stay, PhaseRest,
              genVars
<1>6. CASE PerformImport \/ ResolveNames
  BY <1>6, Zenon DEF PerformImport, ResolveNames, Return, Stay, PhaseRest, genVars
<1>7. CASE CheckLibraryNameClashes \/ CheckTypes \/ ParseDone
  BY <1>7, Zenon DEF CheckLibraryNameClashes, CheckTypes, ParseDone, Return, Stay,
              PhaseRest, genVars
<1>8. CASE CompileNext \/ CompileDependency \/ CompileBody \/ CompileDone
  BY <1>8, Zenon DEF CompileNext, CompileDependency, CompileBody, CompileDone,
              CompileReturn, GenRest
<1>9. CASE UNCHANGED vars
  BY <1>9, Zenon DEF vars, objVars, ctlVars, genVars
<1> QED
  BY <1>1, <1>2, <1>3, <1>4, <1>5, <1>6, <1>7, <1>8, <1>9 DEF Next, Step

LEMMA ControlStep == ASSUME IInv, [Next]_vars PROVE InvControl'
<1> USE Bounds DEF IInv, InvControl, ParsePhase, Phase
<1>1. CASE Call
  <2>1. ASSUME NEW p \in Path, NEW t \in Text, NEW lib \in LibraryFlags,
               AddSource(p, t, lib) PROVE InvControl'
    BY <2>1 DEF AddSource, AddSourceTo, Reset, IdleRest, genVars
  <2>2. ASSUME NEW t \in Text, SetSource(t) PROVE InvControl'
    BY <2>2 DEF SetSource, AddSourceTo, Reset, IdleRest, genVars
  <2>3. ASSUME NEW keep \in BOOLEAN, ResetSources(keep) PROVE InvControl'
    BY <2>3 DEF ResetSources, Reset, IdleRest, genVars
  <2>4. ASSUME NEW r \in Remapping, SetRemappings(r) PROVE InvControl'
    BY <2>4 DEF SetRemappings, genVars
  <2>5. CASE Parse
    BY <2>5 DEF Parse, StartParse
  <2>6. ASSUME NEW opt \in BOOLEAN, Compile(opt) PROVE InvControl'
    BY <2>6 DEF Compile, StartParse, GenRest
  <2>7. CASE Link
    BY <2>7 DEF Link, ContractsOnly, genVars
  <2>8. ASSUME NEW n \in Queried, SourceMapping(n) \/ Metadata(n) PROVE InvControl'
    BY <2>8 DEF SourceMapping, Metadata, ContractsOnly, genVars
  <2>9. ASSUME NEW translates \in BOOLEAN, PrepareFormalAnalysis(translates)
        PROVE InvControl'
    BY <2>9 DEF PrepareFormalAnalysis, genVars
  <2> QED
    BY <1>1, <2>1, <2>2, <2>3, <2>4, <2>5, <2>6, <2>7, <2>8, <2>9 DEF Call
<1>2. CASE ParseSource \/ ParsingDone
  BY <1>2 DEF ParseSource, ParsingDone, Return, genVars
<1>3. CASE SortRoot \/ SortImport \/ SortLeave \/ SortDone
  BY <1>3 DEF SortRoot, SortImport, SortLeave, SortDone, SortRest, genVars
<1>4. CASE NextPhase \/ NextSource
  BY <1>4 DEF NextPhase, NextSource, Stay, PhaseRest, genVars
<1>5. CASE CheckSyntax \/ AnalyseDocStrings \/ RegisterDeclarations
  BY <1>5 DEF CheckSyntax, AnalyseDocStrings, RegisterDeclarations, Stay, PhaseRest,
              genVars
<1>6. CASE PerformImport \/ ResolveNames
  BY <1>6 DEF PerformImport, ResolveNames, Return, Stay, PhaseRest, genVars
<1>7. CASE CheckLibraryNameClashes \/ CheckTypes
  <2>1. /\ UNCHANGED <<remap, gen, then, parseSuccessful, pos>>
        /\ sub' = sub \/ sub' = sub + 1
        /\ pc \in {"clash", "check"} /\ pc' = "check"
    BY <1>7, Zenon DEF CheckLibraryNameClashes, CheckTypes, Stay, PhaseRest
  <2> QED
    BY <2>1
<1>10. CASE ParseDone
  <2>1. PICK ok \in BOOLEAN : ok = noErrors /\ Return(ok)
    BY <1>10, Zenon DEF ParseDone, InvFlags
  <2> QED
    BY <1>10, <2>1 DEF ParseDone, Return, PhaseRest
<1>8. CASE CompileNext \/ CompileDependency
  <2>1. /\ UNCHANGED <<remap, gen, then, parseSuccessful, pos, pc>>
        /\ sub' = sub \/ sub' = sub + 1
        /\ pc = "compile"
    BY <1>8, Zenon DEF CompileNext, CompileDependency, GenRest
  <2> QED
    BY <2>1
<1>11. CASE CompileBody \/ CompileDone
  <2>1. /\ UNCHANGED <<remap, gen, then, parseSuccessful>>
        /\ (pos' = pos /\ sub' = sub) \/ (pos' = 1 /\ sub' = 1)
        /\ pc = "compile" /\ (pc' = pc \/ pc' = "idle")
    BY <1>11, Zenon DEF CompileBody, CompileDone, CompileReturn, GenRest
  <2> QED
    BY <2>1
<1>9. CASE UNCHANGED vars
  BY <1>9 DEF vars, objVars, ctlVars, genVars
<1> QED
  BY <1>1, <1>2, <1>3, <1>4, <1>5, <1>6, <1>7, <1>8, <1>9, <1>10, <1>11 DEF Next, Step
-----------------------------------------------------------------------------
(* The steps in groups.  All but four kinds of steps leave the sources and *)
(* their order alone.                                                      *)

\* What is left of the object after addSource, setSource and reset.
FreshStart ==
    /\ pc = "idle" /\ pc' = "idle" /\ sourceOrder' = <<>> /\ contracts' = EmptyMap
    /\ parseSuccessful' = FALSE
    /\ DropAnnotations
    /\ DOMAIN sources' \subseteq Path
    /\ sources' \in [DOMAIN sources' -> Source]
    /\ UNCHANGED <<remap, stack, seen, order, calls, compiled, work>>

\* parse() has been entered.
Entered ==
    /\ pc = "idle" /\ pc' = "parse"
    /\ pos' = 1 /\ parseSuccessful' = FALSE /\ gen' \in 1..MaxParses
    /\ work' \in Ascending(DOMAIN sources)
    /\ DropAnnotations
    /\ UNCHANGED <<sources, sourceOrder, contracts, remap, stack, seen, order, calls,
                   compiled>>

\* The calls that neither change a source nor start to work.
Quiet ==
    /\ pc = "idle" /\ pc' \in {"idle", "compile"}
    /\ UNCHANGED <<sources, sourceOrder, parseSuccessful, scope, bases, deps, abstract,
                   stack, seen, order, calls, compiled, work, noErrors>>
    /\ DOMAIN contracts' = DOMAIN contracts
    /\ contracts' \in [DOMAIN contracts -> Contract]

SortStep == SortRoot \/ SortImport \/ SortLeave
PhaseStep ==
    \/ NextPhase \/ NextSource
    \/ CheckSyntax \/ AnalyseDocStrings \/ RegisterDeclarations \/ PerformImport
    \/ ResolveNames \/ CheckLibraryNameClashes \/ CheckTypes \/ ParseDone
GenStep == CompileNext \/ CompileDependency \/ CompileBody \/ CompileDone

LEMMA FreshFrame ==
    ASSUME IInv,
           NEW kept, DOMAIN kept \subseteq Path, kept \in [DOMAIN kept -> Source],
           NEW p \in Path, NEW t \in Text, NEW lib \in BOOLEAN,
           AddSourceTo(kept, p, t, lib)
    PROVE  /\ DOMAIN sources' \subseteq Path
           /\ sources' \in [DOMAIN sources' -> Source]
<1> DEFINE D == DOMAIN kept \cup {p}
           new == [text |-> t, isLibrary |-> lib,
                   ast |-> IF p \in DOMAIN kept THEN kept[p].ast ELSE NullAst]
<1>1. sources' = [q \in D |-> IF q # p THEN kept[q] ELSE new]
  BY DEF AddSourceTo, Reset
<1>2. new \in Source
  BY Bounds DEF Source, NullAst
<1>3. DOMAIN sources' = D
  BY <1>1
<1>4. \A q \in D : sources'[q] \in Source
  BY <1>1, <1>2
<1> QED
  BY <1>1, <1>3, <1>4

LEMMA EmptyPathIsPath == EmptyPath \in Path
BY Bounds DEF EmptyPath, Path

LEMMA LibraryFlag == \A lib \in LibraryFlags : lib \in BOOLEAN
BY ConstantsAssumption

LEMMA Kinds ==
    ASSUME IInv, [Next]_vars
    PROVE  \/ FreshStart \/ Entered \/ Quiet
           \/ ParseSource \/ ParsingDone \/ SortStep \/ SortDone
           \/ PhaseStep \/ GenStep
           \/ UNCHANGED vars
<1>1. CASE Call
  <2>0. contracts \in [DOMAIN contracts -> Contract]
    BY DEF IInv, InvContracts
  <2>1. ASSUME NEW p \in Path, NEW t \in Text, NEW lib \in LibraryFlags,
               AddSource(p, t, lib) PROVE FreshStart
    <3>1. lib \in BOOLEAN
      BY LibraryFlag
    <3>2. AddSourceTo(sources, p, t, lib)
      BY <2>1 DEF AddSource
    <3>3. /\ DOMAIN sources' \subseteq Path
          /\ sources' \in [DOMAIN sources' -> Source]
      BY <3>1, <3>2, FreshFrame DEF IInv, InvSources
    <3> QED
      BY <2>1, <3>2, <3>3 DEF AddSource, AddSourceTo, Reset, FreshStart, IdleRest,
         sortVars, genVars
  <2>2. ASSUME NEW t \in Text, SetSource(t) PROVE FreshStart
    <3>1. /\ DOMAIN EmptyMap \subseteq Path
          /\ EmptyMap \in [DOMAIN EmptyMap -> Source]
      BY DEF EmptyMap
    <3>2. AddSourceTo(EmptyMap, EmptyPath, t, FALSE)
      BY <2>2 DEF SetSource
    <3>3. /\ DOMAIN sources' \subseteq Path
          /\ sources' \in [DOMAIN sources' -> Source]
      BY <3>1, <3>2, FreshFrame, EmptyPathIsPath
    <3> QED
      BY <2>2, <3>2, <3>3 DEF SetSource, AddSourceTo, Reset, FreshStart, IdleRest,
         sortVars, genVars
  <2>3. ASSUME NEW keep \in BOOLEAN, ResetSources(keep) PROVE FreshStart
    <3>1. sources' = sources \/ sources' = EmptyMap
      BY <2>3 DEF ResetSources, Reset
    <3>2. /\ DOMAIN sources' \subseteq Path
          /\ sources' \in [DOMAIN sources' -> Source]
      BY <3>1 DEF EmptyMap, IInv, InvSources
    <3> QED
      BY <2>3, <3>2 DEF ResetSources, Reset, FreshStart, IdleRest, sortVars, genVars
  <2>4. ASSUME NEW r \in Remapping, SetRemappings(r) PROVE Quiet
    BY <2>0, <2>4 DEF SetRemappings, Quiet, astVars, sortVars, genVars
  <2>5. ASSUME NEW after, pc = "idle", StartParse(after) PROVE Entered
    BY <2>5, Bounds DEF StartParse, Entered, IInv, InvControl, sortVars
  <2>6. CASE Parse
    BY <2>5, <2>6 DEF Parse
  <2>7. ASSUME NEW opt \in BOOLEAN, Compile(opt) PROVE Quiet \/ Entered
    <3>1. CASE parseSuccessful
      BY <2>0, <2>7, <3>1 DEF Compile, GenRest, Quiet, astVars, sortVars
    <3> QED
      BY <2>5, <2>7, <3>1 DEF Compile
  <2>8. CASE Link
    <3>1. \A n \in DOMAIN contracts :
             WithCode(contracts[n], Linked(contracts[n].code)) \in Contract
      BY <2>0 DEF Contract, Code, WithCode, Linked
    <3>2. /\ DOMAIN contracts' = DOMAIN contracts
          /\ contracts' \in [DOMAIN contracts -> Contract]
      BY <2>0, <2>8, <3>1 DEF Link
    <3> QED
      BY <2>8, <3>2 DEF Link, ContractsOnly, Quiet, astVars, sortVars, genVars
  <2>9. ASSUME NEW n \in Queried, SourceMapping(n) \/ Metadata(n) PROVE Quiet
    <3>1. PICK e \in Contract : contracts' = [contracts EXCEPT ![n] = e]
      BY <2>0, <2>9 DEF SourceMapping, Metadata, Contract
    <3>2. /\ DOMAIN contracts' = DOMAIN contracts
          /\ contracts' \in [DOMAIN contracts -> Contract]
      BY <2>0, <3>1
    <3> QED
      BY <2>9, <3>2 DEF SourceMapping, Metadata, ContractsOnly, Quiet, astVars, sortVars,
         genVars
  <2>10. ASSUME NEW translates \in BOOLEAN, PrepareFormalAnalysis(translates)
         PROVE Quiet
    BY <2>0, <2>10 DEF PrepareFormalAnalysis, Quiet, astVars, sortVars, genVars
  <2> QED
    BY <1>1, <2>1, <2>2, <2>3, <2>4, <2>6, <2>7, <2>8, <2>9, <2>10 DEF Call
<1> QED
  BY <1>1 DEF Next, Step, SortStep, PhaseStep, GenStep

Late == {"idle", "compile", "clash", "check"} \cup Phase

LEMMA PhaseFrame ==
    ASSUME IInv, PhaseStep \/ GenStep
    PROVE  /\ UNCHANGED <<sources, sourceOrder, remap, gen, work, stack, seen, order>>
           /\ pc \in Late /\ pc' \in Late
<1> USE DEF Late, Phase, PhaseRest, GenRest, Stay, sortVars
<1>1. then \in {"idle", "compile"}
  BY DEF IInv, InvControl
<1>2. ASSUME NEW ok, Return(ok) PROVE pc' \in Late
  BY <1>1, <1>2 DEF Return
<1>3. CASE NextPhase \/ NextSource \/ CheckSyntax \/ AnalyseDocStrings
           \/ RegisterDeclarations \/ CheckLibraryNameClashes \/ CheckTypes
  BY <1>3, Zenon DEF NextPhase, NextSource, CheckSyntax, AnalyseDocStrings,
     RegisterDeclarations, CheckLibraryNameClashes, CheckTypes
<1>4. CASE PerformImport
  BY <1>2, <1>4, Zenon DEF PerformImport
<1>5. CASE ResolveNames
  BY <1>2, <1>5, Zenon DEF ResolveNames
<1>6. CASE ParseDone
  BY <1>2, <1>6, Zenon DEF ParseDone
<1>7. CASE GenStep
  BY <1>7, Zenon DEF GenStep, CompileNext, CompileDependency, CompileBody, CompileDone,
     CompileReturn
<1> QED
  BY <1>3, <1>4, <1>5, <1>6, <1>7 DEF PhaseStep

-----------------------------------------------------------------------------
(* m_sources and the worklist.                                             *)

LEMMA PathFinite == ASSUME NEW S, S \subseteq Path PROVE IsFiniteSet(S)
<1>1. IsFiniteSet(1..NumPaths)
  BY Bounds, FS_Interval
<1> QED
  BY <1>1, FS_Subset DEF Path

\* The ascending enumeration of a set of paths misses none of them.
LEMMA AscendingOnto ==
    ASSUME NEW S, S \subseteq Path, NEW s \in Ascending(S)
    PROVE  /\ s \in Seq(Path)
           /\ \A i \in 1..Len(s) : s[i] \in S
           /\ \A q \in S : \E i \in 1..Len(s) : s[i] = q
<1> DEFINE n == Cardinality(S)
<1>1. IsFiniteSet(S) /\ n \in Nat
  BY PathFinite, FS_CardinalityType
<1> HIDE DEF n
<1>2. /\ s \in [1..n -> S]
      /\ \A i, j \in 1..n : i < j => s[i] < s[j]
  BY DEF Ascending, n
<1>3. s \in Seq(Path) /\ Len(s) = n
  BY <1>1, <1>2
<1>4. ASSUME NEW q \in S, \A i \in 1..n : s[i] # q PROVE FALSE
  <2>1. s \in [1..n -> S \ {q}]
    BY <1>2, <1>4
  <2>2. IsFiniteSet(S \ {q}) /\ Cardinality(S \ {q}) = n - 1
    BY <1>1, FS_RemoveElement DEF n
  <2>3. IsFiniteSet(1..n) /\ Cardinality(1..n) = n
    BY <1>1, FS_Interval
  <2>4. PICK x, y \in 1..n : x # y /\ s[x] = s[y]
    <3> DEFINE A == 1..n
               B == S \ {q}
    <3>1. /\ IsFiniteSet(A) /\ IsFiniteSet(B) /\ Cardinality(B) < Cardinality(A)
          /\ s \in [A -> B]
      BY <1>1, <2>1, <2>2, <2>3
    <3> HIDE DEF A, B
    <3>2. \E x, y \in A : x # y /\ s[x] = s[y]
      BY <3>1, FS_PigeonHole
    <3> QED
      BY <3>2 DEF A
  <2>5. s[x] \in S /\ s[y] \in S
    BY <1>2, <2>4
  <2>6. \A r \in Path : r \in Int
    BY Bounds DEF Path
  <2> QED
    BY <1>1, <1>2, <2>4, <2>5, <2>6
<1> QED
  BY <1>2, <1>3, <1>4

LEMMA Targets ==
    ASSUME InvControl, NEW p \in Path, sources[p].text \in Text
    PROVE  ImportTargets(p) \subseteq Path
<1> DEFINE t == sources[p].text
<1>1. \A k \in DOMAIN Unit[t].imports :
         Resolve[remap][Unit[t].imports[k].spec][p] \in Path
  BY ConstantsAssumption, Zenon DEF InvControl
<1> QED
  BY <1>1 DEF ImportTargets, Imports, UnitOf, Target

LEMMA SameText ==
    ASSUME NEW q, sources'[q].text = sources[q].text, remap' = remap
    PROVE  UnitOf(q)' = UnitOf(q) /\ ImportTargets(q)' = ImportTargets(q)
BY DEF UnitOf, ImportTargets, Imports, Target

LEMMA ParseSourceSources == ASSUME IInv, ParseSource PROVE InvSources'
<1> DEFINE p == work[pos]
           missing == IF UnitOf(p).parse = "fatal" THEN {}
                      ELSE ImportTargets(p) \ DOMAIN sources
<1>1. PICK file \in [missing -> Text \cup {NotFound}] :
         LET found == {q \in missing : file[q] # NotFound} IN
         \E fresh \in Ascending(found) :
           /\ sources' = [q \in DOMAIN sources \cup found |->
                IF q = p THEN Parsed(p)
                ELSE IF q \in found
                THEN [text |-> file[q], ast |-> NullAst, isLibrary |-> FALSE]
                ELSE sources[q]]
           /\ work' = work \o fresh
           /\ errors' = (errors \/ UnitOf(p).parse # "ok" \/ found # missing)
  BY Zenon DEF ParseSource
<1> DEFINE found == {q \in missing : file[q] # NotFound}
<1>2. PICK fresh \in Ascending(found) :
           /\ sources' = [q \in DOMAIN sources \cup found |->
                IF q = p THEN Parsed(p)
                ELSE IF q \in found
                THEN [text |-> file[q], ast |-> NullAst, isLibrary |-> FALSE]
                ELSE sources[q]]
           /\ work' = work \o fresh
           /\ errors' = (errors \/ UnitOf(p).parse # "ok" \/ found # missing)
  BY <1>1, Zenon
<1>3. /\ pc = "parse" /\ pc' = "parse" /\ pos' = pos + 1 /\ pos \in DOMAIN work
      /\ UNCHANGED <<remap, gen>>
  BY DEF ParseSource
<1>4. /\ gen \in 1..MaxParses /\ pos \in Nat
      /\ DOMAIN sources \subseteq Path /\ sources \in [DOMAIN sources -> Source]
      /\ work \in Seq(Path)
      /\ \A i \in 1..Len(work) : work[i] \in DOMAIN sources
      /\ \A q \in DOMAIN sources : \E i \in 1..Len(work) : work[i] = q
  BY <1>3, Bounds DEF IInv, InvControl, InvSources
<1>5. p \in DOMAIN sources /\ p \in Path
  <2>1. pos \in 1..Len(work)
    BY <1>3, <1>4, LenProperties
  <2> QED
    BY <1>4, <2>1
<1>6. missing \subseteq Path /\ missing \cap DOMAIN sources = {}
  <2>1. sources[p].text \in Text
    BY <1>4, <1>5 DEF Source
  <2> QED
    BY <2>1, <1>5, Targets DEF IInv
<1>7. Parsed(p) \in Source /\ Parsed(p).text = sources[p].text
  BY <1>4, <1>5, Bounds DEF Parsed, Source, NullAst
<1>8. \A q \in found : [text |-> file[q], ast |-> NullAst, isLibrary |-> FALSE] \in Source
  BY Bounds DEF Source, NullAst
<1>9. /\ fresh \in Seq(Path)
      /\ \A i \in 1..Len(fresh) : fresh[i] \in found
      /\ \A q \in found : \E i \in 1..Len(fresh) : fresh[i] = q
  BY <1>6, AscendingOnto
<1> HIDE DEF p, missing, found
<1>10. DOMAIN sources' = DOMAIN sources \cup found
  BY <1>2
<1>11. found \subseteq Path /\ found \subseteq missing
  BY <1>6 DEF found
<1>12. \A q \in DOMAIN sources' : sources'[q] \in Source
  BY <1>2, <1>4, <1>7, <1>8, <1>10
<1>13. /\ DOMAIN sources' \subseteq Path
       /\ sources' \in [DOMAIN sources' -> Source]
       /\ work' \in Seq(Path)
  <2>1. sources' \in [DOMAIN sources' -> Source]
    BY <1>2, <1>12
  <2>2. work' \in Seq(Path)
    BY <1>2, <1>4, <1>9, ConcatProperties
  <2> QED
    BY <1>4, <1>10, <1>11, <2>1, <2>2
<1>14. /\ Len(work') = Len(work) + Len(fresh)
       /\ \A i \in 1..Len(work) : work'[i] = work[i]
       /\ \A i \in 1..Len(fresh) : work'[Len(work) + i] = fresh[i]
       /\ \A i \in 1..Len(work') : i \in 1..Len(work) \/ i - Len(work) \in 1..Len(fresh)
  BY <1>2, <1>4, <1>9, ConcatProperties
<1>15. \A i \in 1..Len(work') : work'[i] \in DOMAIN sources'
  <2> TAKE i \in 1..Len(work')
  <2>1. CASE i \in 1..Len(work)
    BY <1>4, <1>10, <1>14, <2>1
  <2>2. CASE i - Len(work) \in 1..Len(fresh)
    <3>1. work'[Len(work) + (i - Len(work))] = fresh[i - Len(work)]
      BY <1>14, <2>2
    <3>2. Len(work) + (i - Len(work)) = i
      BY <1>4, <1>13
    <3> QED
      BY <1>9, <1>10, <2>2, <3>1, <3>2
  <2> QED
    BY <1>14, <2>1, <2>2
<1>16. \A q \in DOMAIN sources' : \E i \in 1..Len(work') : work'[i] = q
  <2> TAKE q \in DOMAIN sources'
  <2>1. CASE q \in DOMAIN sources
    <3>1. PICK i \in 1..Len(work) : work[i] = q
      BY <1>4, <2>1
    <3>2. i \in 1..Len(work')
      BY <1>4, <1>9, <1>14
    <3> QED
      BY <1>14, <3>1, <3>2
  <2>2. CASE q \in found
    <3>1. PICK i \in 1..Len(fresh) : fresh[i] = q
      BY <1>9, <2>2
    <3>2. Len(work) + i \in 1..Len(work')
      BY <1>4, <1>9, <1>14
    <3> QED
      BY <1>14, <3>1, <3>2
  <2> QED
    BY <1>10, <2>1, <2>2
<1>17. ASSUME ~errors', NEW i \in 1..Len(work'), i < pos'
       PROVE  (Usable(work[i]) /\ ImportTargets(work[i]) \subseteq DOMAIN sources)'
  <2> PICK q : q = work[i]
    OBVIOUS
  <2>1. ~errors /\ UnitOf(p).parse = "ok" /\ found = missing
    BY <1>2, <1>17
  <2>2. i \in 1..Len(work) /\ work'[i] = q /\ (i < pos \/ i = pos)
    <3>1. pos \in 1..Len(work)
      BY <1>3, <1>4, LenProperties
    <3> QED
      BY <1>3, <1>4, <1>14, <1>17, <3>1
  <2>3. q \in DOMAIN sources /\ q \in DOMAIN sources'
    BY <1>4, <1>10, <2>2
  <2>4. sources'[q].text = sources[q].text
    BY <1>2, <1>5, <1>6, <1>7, <1>11, <2>3
  <2>5. UnitOf(q)' = UnitOf(q) /\ ImportTargets(q)' = ImportTargets(q)
    BY <1>3, <2>4, SameText
  <2>6. CASE i = pos
    <3>1. q = p
      BY <2>6 DEF p
    <3>2. sources'[q].ast = gen
      BY <1>2, <1>5, <2>1, <3>1 DEF Parsed
    <3>3. ImportTargets(q) \subseteq DOMAIN sources \cup missing
      BY <2>1, <3>1 DEF missing
    <3> QED
      BY <1>4, <1>10, <2>1, <2>2, <2>3, <2>5, <3>1, <3>2, <3>3 DEF Usable, NullAst
  <2>7. CASE i < pos
    <3>1. Usable(q) /\ ImportTargets(q) \subseteq DOMAIN sources
      BY <1>3, <2>1, <2>2, <2>7 DEF IInv, InvSources
    <3>2. sources'[q].ast # NullAst
      <4>1. CASE q = p
        BY <1>2, <1>4, <1>5, <2>1, <4>1 DEF Parsed, NullAst
      <4>2. CASE q # p
        <5>1. sources'[q] = sources[q]
          BY <1>2, <1>6, <1>11, <2>3, <4>2
        <5> QED
          BY <3>1, <5>1 DEF Usable
      <4> QED
        BY <4>1, <4>2
    <3> QED
      BY <1>10, <2>2, <2>3, <2>5, <3>1, <3>2 DEF Usable
  <2> QED
    BY <2>2, <2>6, <2>7
<1> QED
  BY <1>3, <1>13, <1>15, <1>16, <1>17 DEF InvSources

LEMMA SourcesStep == ASSUME IInv, [Next]_vars PROVE InvSources'
<1>1. CASE FreshStart
  BY <1>1 DEF FreshStart, IInv, InvSources
<1>2. CASE Entered
  <2>1. DOMAIN sources \subseteq Path /\ sources \in [DOMAIN sources -> Source]
    BY DEF IInv, InvSources
  <2>2. /\ work' \in Seq(Path)
        /\ \A i \in 1..Len(work') : work'[i] \in DOMAIN sources
        /\ \A q \in DOMAIN sources : \E i \in 1..Len(work') : work'[i] = q
    BY <1>2, <2>1, AscendingOnto DEF Entered
  <2>3. ~(\E i \in 1..Len(work') : i < pos')
    BY <1>2 DEF Entered
  <2> QED
    BY <1>2, <2>1, <2>2, <2>3 DEF Entered, InvSources
<1>3. CASE Quiet
  BY <1>3 DEF Quiet, IInv, InvSources
<1>4. CASE ParseSource
  BY <1>4, ParseSourceSources
<1>5. CASE ParsingDone
  <2>1. /\ pc = "parse" /\ pos > Len(work) /\ work' = <<>>
        /\ UNCHANGED <<sources, remap>>
    BY <1>5 DEF ParsingDone
  <2>2. pc' \in {"idle", "compile"} \/ (~errors /\ pc' = "sort")
    BY <1>5, Zenon DEF ParsingDone, Return
  <2>3. ASSUME ~errors, NEW q \in DOMAIN sources
        PROVE  Usable(q) /\ ImportTargets(q) \subseteq DOMAIN sources
    <3>1. PICK i \in 1..Len(work) : work[i] = q
      BY <2>1 DEF IInv, InvSources
    <3>2. i < pos
      BY <2>1 DEF IInv, InvSources, InvControl
    <3> QED
      BY <2>1, <2>3, <3>1, <3>2 DEF IInv, InvSources
  <2>4. \A q : Usable(q)' = Usable(q) /\ ImportTargets(q)' = ImportTargets(q)
    BY <2>1 DEF Usable, UnitOf, ImportTargets, Imports, Target
  <2> QED
    BY <2>1, <2>2, <2>3, <2>4 DEF IInv, InvSources
<1>6. CASE SortStep
  <2>1. UNCHANGED <<sources, work, remap, pc>> /\ pc = "sort"
    BY <1>6 DEF SortStep, SortRoot, SortImport, SortLeave, SortRest
  <2> QED
    BY <2>1 DEF IInv, InvSources, Usable, UnitOf, ImportTargets, Imports, Target
<1>7. CASE SortDone
  <2>1. UNCHANGED <<sources, work, remap>> /\ pc' = "syntax"
    BY <1>7 DEF SortDone, SortRest
  <2> QED
    BY <2>1 DEF IInv, InvSources
<1>8. CASE PhaseStep \/ GenStep
  BY <1>8, PhaseFrame DEF IInv, InvSources, Late, Phase
<1>9. CASE UNCHANGED vars
  <2>1. UNCHANGED <<sources, work, remap, pc, pos, errors>>
    BY <1>9 DEF vars, objVars, ctlVars
  <2>2. \A q : Usable(q)' = Usable(q) /\ ImportTargets(q)' = ImportTargets(q)
    BY <2>1 DEF Usable, UnitOf, ImportTargets, Imports, Target
  <2> QED
    BY <2>1, <2>2 DEF IInv, InvSources
<1> QED
  BY <1>1, <1>2, <1>3, <1>4, <1>5, <1>6, <1>7, <1>8, <1>9, Kinds

-----------------------------------------------------------------------------
(* The depth-first search of resolveImports.                               *)

LEMMA SortEmpty ==
    ASSUME stack' = <<>>, order' = <<>>, seen' = {} PROVE InvSort'
BY DEF InvSort

\* A frame is pushed only for a source that has not been seen.
LEMMA VisitSort ==
    ASSUME IInv, pc = "sort", UNCHANGED <<pc, order, sources>>,
           NEW p \in DOMAIN sources,
           NEW rest \in Seq(Frame),
           \A i \in 1..Len(rest) : rest[i].path \in seen,
           \A i, j \in 1..Len(rest) : rest[i].path = rest[j].path => i = j,
           \A i \in 1..Len(rest), j \in 1..Len(order) : rest[i].path # order[j],
           Visit(p, rest)
    PROVE  InvSort'
<1>1. /\ order \in Seq(Path) /\ seen \subseteq DOMAIN sources
      /\ \A i \in 1..Len(order) : order[i] \in seen
      /\ \A i, j \in 1..Len(order) : order[i] = order[j] => i = j
  BY DEF IInv, InvSort
<1>2. CASE p \in seen
  BY <1>1, <1>2 DEF Visit, InvSort
<1>3. CASE p \notin seen
  <2> DEFINE f == [path |-> p, next |-> 1]
  <2>1. stack' = <<f>> \o rest /\ seen' = seen \cup {p}
    BY <1>3 DEF Visit
  <2>2. p \in Path
    BY DEF IInv, InvSources
  <2>3. f \in Frame /\ f.path = p
    BY <2>2 DEF Frame
  <2> HIDE DEF f
  <2>4. /\ stack' \in Seq(Frame) /\ Len(stack') = Len(rest) + 1
        /\ \A i \in 1..Len(stack') :
             stack'[i] = IF i = 1 THEN f ELSE rest[i - 1]
    BY <2>1, <2>3
  <2>5. \A i \in 1..Len(stack') : i = 1 \/ i - 1 \in 1..Len(rest)
    BY <2>4
  <2>6. \A i, j \in 1..Len(stack') : stack'[i].path = stack'[j].path => i = j
    <3> SUFFICES ASSUME NEW i \in 1..Len(stack'), NEW j \in 1..Len(stack'),
                        stack'[i].path = stack'[j].path
                 PROVE  i = j
      OBVIOUS
    <3>1. CASE i = 1 /\ j # 1
      BY <1>3, <2>3, <2>4, <2>5, <3>1
    <3>2. CASE i # 1 /\ j = 1
      BY <1>3, <2>3, <2>4, <2>5, <3>2
    <3>3. CASE i # 1 /\ j # 1
      <4>1. rest[i - 1].path = rest[j - 1].path
        BY <2>4, <3>3
      <4>2. i - 1 = j - 1
        BY <2>5, <3>3, <4>1
      <4> QED
        BY <2>4, <4>2
    <3> QED
      BY <3>1, <3>2, <3>3
  <2>7. \A i \in 1..Len(stack'), j \in 1..Len(order') : stack'[i].path # order'[j]
    <3> TAKE i \in 1..Len(stack'), j \in 1..Len(order')
    <3>1. order'[j] = order[j] /\ j \in 1..Len(order) /\ order[j] \in seen
      BY <1>1
    <3>2. CASE i = 1
      BY <1>3, <2>3, <2>4, <3>1, <3>2
    <3>3. CASE i # 1
      <4>1. i - 1 \in 1..Len(rest) /\ stack'[i] = rest[i - 1]
        BY <2>4, <2>5, <3>3
      <4>2. rest[i - 1].path # order[j]
        BY <3>1, <4>1
      <4> QED
        BY <3>1, <4>1, <4>2
    <3> QED
      BY <3>2, <3>3
  <2>8. \A i \in 1..Len(stack') : stack'[i].path \in seen'
    BY <2>1, <2>3, <2>4, <2>5
  <2> QED
    BY <1>1, <2>1, <2>4, <2>6, <2>7, <2>8 DEF InvSort
<1> QED
  BY <1>2, <1>3

LEMMA SortPart == ASSUME IInv, [Next]_vars PROVE InvSort'
<1>0. pc # "sort" => stack = <<>> /\ order = <<>> /\ seen = {}
  BY DEF IInv, InvSort
<1>1. CASE FreshStart
  BY <1>0, <1>1, SortEmpty DEF FreshStart
<1>2. CASE Entered
  BY <1>0, <1>2, SortEmpty DEF Entered
<1>3. CASE Quiet
  BY <1>0, <1>3, SortEmpty DEF Quiet
<1>4. CASE ParseSource \/ ParsingDone
  BY <1>0, <1>4, SortEmpty DEF ParseSource, ParsingDone, sortVars
<1>5. CASE SortRoot
  <2>1. /\ pc = "sort" /\ stack = <<>> /\ UNCHANGED <<pc, order, sources>>
    BY <1>5 DEF SortRoot, SortRest
  <2>2. CASE pos \in DOMAIN sources /\ Visit(pos, <<>>)
    <3> DEFINE rest == <<>>
    <3>1. /\ rest \in Seq(Frame)
          /\ \A i \in 1..Len(rest) : rest[i].path \in seen
          /\ \A i, j \in 1..Len(rest) : rest[i].path = rest[j].path => i = j
          /\ \A i \in 1..Len(rest), j \in 1..Len(order) : rest[i].path # order[j]
      OBVIOUS
    <3>2. Visit(pos, rest)
      BY <2>2
    <3> HIDE DEF rest
    <3> QED
      BY <2>1, <2>2, <3>1, <3>2, VisitSort
  <2>3. CASE UNCHANGED <<stack, seen>>
    BY <2>1, <2>3 DEF IInv, InvSort
  <2> QED
    BY <1>5, <2>2, <2>3 DEF SortRoot
<1>6. CASE SortImport
  <2> DEFINE top == Head(stack)
             f == [path |-> top.path, next |-> top.next + 1]
             rest == <<f>> \o Tail(stack)
  <2>1. /\ pc = "sort" /\ stack # <<>> /\ UNCHANGED <<pc, order, sources>>
        /\ top.next <= Len(Imports(top.path))
        /\ Visit(Target(top.path, top.next), rest)
    BY <1>6, Zenon DEF SortImport, SortRest
  <2>2. /\ stack \in Seq(Frame) /\ Len(stack) \in Nat /\ Len(stack) # 0
        /\ top \in Frame /\ top = stack[1]
        /\ Tail(stack) \in Seq(Frame) /\ Len(Tail(stack)) = Len(stack) - 1
        /\ \A i \in 1..Len(Tail(stack)) : Tail(stack)[i] = stack[i + 1]
    BY <2>1 DEF IInv, InvSort
  <2>3. f \in Frame /\ f.path = stack[1].path
    BY <2>2 DEF Frame
  <2> HIDE DEF top, f
  <2>4. /\ rest \in Seq(Frame) /\ Len(rest) = Len(stack)
        /\ \A i \in 1..Len(rest) : rest[i].path = stack[i].path
    BY <2>2, <2>3
  <2>5. Target(top.path, top.next) \in DOMAIN sources
    <3>1. top.path \in DOMAIN sources
      BY <2>2 DEF IInv, InvSort
    <3>2. ImportTargets(top.path) \subseteq DOMAIN sources
      BY <2>1, <3>1 DEF IInv, InvSources
    <3>3. sources[top.path].text \in Text
      BY <3>1 DEF IInv, InvSources, Source
    <3>4. top.next \in DOMAIN Imports(top.path)
      <4>1. DOMAIN Imports(top.path) = 1..Len(Imports(top.path))
            /\ Len(Imports(top.path)) \in Nat
        BY <3>3, ConstantsAssumption, Zenon DEF Imports, UnitOf
      <4>2. top.next \in Nat \ {0}
        BY <2>2 DEF Frame
      <4> QED
        BY <2>1, <4>1, <4>2
    <3> QED
      BY <3>2, <3>4 DEF ImportTargets
  <2>6. /\ \A i \in 1..Len(rest) : rest[i].path \in seen
        /\ \A i, j \in 1..Len(rest) : rest[i].path = rest[j].path => i = j
        /\ \A i \in 1..Len(rest), j \in 1..Len(order) : rest[i].path # order[j]
    BY <2>4 DEF IInv, InvSort
  <2> HIDE DEF rest
  <2> QED
    BY <2>1, <2>4, <2>5, <2>6, VisitSort
<1>7. CASE SortLeave
  <2> DEFINE top == Head(stack)
  <2>1. /\ pc = "sort" /\ stack # <<>> /\ UNCHANGED <<pc, seen, sources>>
        /\ order' = Append(order, top.path) /\ stack' = Tail(stack)
    BY <1>7 DEF SortLeave, SortRest
  <2>2. /\ stack \in Seq(Frame) /\ Len(stack) \in Nat /\ Len(stack) # 0
        /\ top \in Frame /\ top = stack[1]
        /\ stack' \in Seq(Frame) /\ Len(stack') = Len(stack) - 1
        /\ \A i \in 1..Len(stack') : stack'[i] = stack[i + 1]
    BY <2>1 DEF IInv, InvSort
  <2> HIDE DEF top
  <2>3. /\ order \in Seq(Path) /\ order' \in Seq(Path)
        /\ Len(order') = Len(order) + 1
        /\ \A i \in 1..Len(order) : order'[i] = order[i]
        /\ order'[Len(order) + 1] = stack[1].path
        /\ \A i \in 1..Len(order') : i \in 1..Len(order) \/ i = Len(order) + 1
    BY <2>1, <2>2 DEF IInv, InvSort, Frame
  <2>4. \A i \in 1..Len(stack') : i + 1 \in 1..Len(stack) /\ i + 1 # 1
    BY <2>2
  <2>5. 1 \in 1..Len(stack)
    BY <2>2
  <2>6. \A i \in 1..Len(stack'), j \in 1..Len(order') : stack'[i].path # order'[j]
    BY <2>2, <2>3, <2>4, <2>5 DEF IInv, InvSort
  <2>7. \A i, j \in 1..Len(order') : order'[i] = order'[j] => i = j
    BY <2>3, <2>5 DEF IInv, InvSort
  <2>8. \A i, j \in 1..Len(stack') : stack'[i].path = stack'[j].path => i = j
    <3>1. \A i, j \in 1..Len(stack) : stack[i].path = stack[j].path => i = j
      BY DEF IInv, InvSort
    <3>2. SUFFICES ASSUME NEW i \in 1..Len(stack'), NEW j \in 1..Len(stack'),
                          stack'[i].path = stack'[j].path
                   PROVE  i = j
      OBVIOUS
    <3>3. stack[i + 1].path = stack[j + 1].path
      BY <2>2, <3>2
    <3>4. i + 1 \in 1..Len(stack) /\ j + 1 \in 1..Len(stack)
      BY <2>4
    <3>5. i + 1 = j + 1
      BY <3>1, <3>3, <3>4
    <3> QED
      BY <3>5
  <2>9. \A i \in 1..Len(order') : order'[i] \in seen'
    BY <2>1, <2>3, <2>5 DEF IInv, InvSort
  <2>10. \A i \in 1..Len(stack') : stack'[i].path \in seen'
    BY <2>1, <2>2, <2>4 DEF IInv, InvSort
  <2> QED
    BY <2>1, <2>2, <2>3, <2>6, <2>7, <2>8, <2>9, <2>10 DEF IInv, InvSort
<1>8. CASE SortDone
  BY <1>8, SortEmpty DEF SortDone
<1>9. CASE PhaseStep \/ GenStep
  BY <1>0, <1>9, PhaseFrame, SortEmpty DEF Late, Phase
<1>10. CASE UNCHANGED vars
  BY <1>10 DEF vars, objVars, sortVars, ctlVars, IInv, InvSort
<1> QED
  BY <1>1, <1>2, <1>3, <1>4, <1>5, <1>6, <1>7, <1>8, <1>9, <1>10, Kinds DEF SortStep

-----------------------------------------------------------------------------
(* m_sourceOrder.                                                          *)

LEMMA OrderPart == ASSUME IInv, [Next]_vars PROVE InvOrder'
<1>1. ASSUME UNCHANGED <<sources, sourceOrder>> PROVE InvOrder'
  BY <1>1 DEF IInv, InvOrder, Usable, UnitOf
<1>2. CASE FreshStart
  BY <1>2 DEF FreshStart, InvOrder
<1>3. CASE Entered \/ Quiet
  BY <1>1, <1>3 DEF Entered, Quiet
<1>4. CASE ParseSource
  <2> DEFINE p == work[pos]
  <2>1. /\ pc = "parse" /\ sourceOrder' = sourceOrder
        /\ DOMAIN sources \subseteq DOMAIN sources'
        /\ \A q \in DOMAIN sources :
             sources'[q] = IF q = p THEN Parsed(p) ELSE sources[q]
    <3> DEFINE missing == IF UnitOf(p).parse = "fatal" THEN {}
                          ELSE ImportTargets(p) \ DOMAIN sources
    <3>1. PICK file :
            LET found == {q \in missing : file[q] # NotFound} IN
            sources' = [q \in DOMAIN sources \cup found |->
                 IF q = p THEN Parsed(p)
                 ELSE IF q \in found
                 THEN [text |-> file[q], ast |-> NullAst, isLibrary |-> FALSE]
                 ELSE sources[q]]
      BY <1>4, Zenon DEF ParseSource
    <3>2. missing \cap DOMAIN sources = {}
      OBVIOUS
    <3> HIDE DEF missing
    <3> QED
      BY <1>4, <3>1, <3>2 DEF ParseSource
  <2>2. \A q \in DOMAIN sources : Usable(q) => Usable(q)'
    <3> TAKE q \in DOMAIN sources
    <3> HAVE Usable(q)
    <3>1. sources'[q].text = sources[q].text
      BY <2>1 DEF Parsed
    <3>2. sources'[q].ast # NullAst
      BY <2>1 DEF Parsed, Usable, IInv, InvControl, NullAst
    <3> QED
      BY <2>1, <3>1, <3>2 DEF Usable, UnitOf
  <2> QED
    BY <2>1, <2>2 DEF IInv, InvOrder, Usable
<1>5. CASE ParsingDone
  BY <1>1, <1>5 DEF ParsingDone
<1>6. CASE SortStep
  BY <1>1, <1>6 DEF SortStep, SortRoot, SortImport, SortLeave, SortRest
<1>7. CASE SortDone
  <2>1. sourceOrder' = order /\ sources' = sources /\ pc = "sort"
    BY <1>7 DEF SortDone, SortRest
  <2>2. \A i \in 1..Len(order) : Usable(order[i])
    BY <2>1 DEF IInv, InvSort, InvSources
  <2>3. \A q : Usable(q)' = Usable(q)
    BY <2>1 DEF Usable, UnitOf
  <2> QED
    BY <2>1, <2>2, <2>3 DEF IInv, InvSort, InvOrder
<1>8. CASE PhaseStep \/ GenStep
  BY <1>1, <1>8, PhaseFrame
<1>9. CASE UNCHANGED vars
  BY <1>1, <1>9 DEF vars, objVars
<1> QED
  BY <1>2, <1>3, <1>4, <1>5, <1>6, <1>7, <1>8, <1>9, Kinds

-----------------------------------------------------------------------------
(* Pointers to the contracts of the sources in m_sourceOrder.              *)

LEMMA ContractList ==
    ASSUME IInv, NEW p \in DOMAIN sources
    PROVE  /\ Contracts(p) \in Seq(Definition)
           /\ Len(Contracts(p)) \in 0..MaxContracts
           /\ DOMAIN Contracts(p) = 1..Len(Contracts(p))
<1>1. sources[p].text \in Text
  BY DEF IInv, InvSources, Source
<1>2. PICK n \in 0..MaxContracts : Contracts(p) \in [1..n -> Definition]
  BY <1>1, ConstantsAssumption, Zenon DEF Contracts, UnitOf
<1>3. n \in Nat
  BY Bounds
<1> QED
  BY <1>2, <1>3

LEMMA OrderedPointer ==
    ASSUME IInv, NEW c \in OrderedContracts
    PROVE  /\ \E i \in 1..Len(sourceOrder) : \E k \in DOMAIN Contracts(sourceOrder[i]) :
                c = PointerTo(sourceOrder[i], k)
           /\ c \in Pointer /\ c # NoPointer
           /\ c.path \in DOMAIN sources /\ c.path \in Path
           /\ DefinitionOf(c) \in Definition
<1>1. DOMAIN sourceOrder = 1..Len(sourceOrder)
  BY DEF IInv, InvOrder
<1>2. PICK i \in 1..Len(sourceOrder) : \E k \in DOMAIN Contracts(sourceOrder[i]) :
         c = PointerTo(sourceOrder[i], k)
  BY <1>1 DEF OrderedContracts
<1>3. PICK k \in DOMAIN Contracts(sourceOrder[i]) : c = PointerTo(sourceOrder[i], k)
  BY <1>2
<1> DEFINE p == sourceOrder[i]
<1>4. p \in DOMAIN sources /\ sources[p].ast # NullAst /\ p \in Path
  BY DEF IInv, InvOrder, Usable, InvSources
<1>5. sources[p].ast \in 1..MaxParses
  BY <1>4, Bounds DEF IInv, InvSources, Source, NullAst
<1>6. k \in 1..MaxContracts /\ Contracts(p)[k] \in Definition
  BY <1>3, <1>4, ContractList, Bounds
<1> HIDE DEF p
<1>7. c = [path |-> p, gen |-> sources[p].ast, idx |-> k]
  BY <1>3 DEF PointerTo, p
<1>8. p # 0
  BY <1>4, Bounds DEF Path
<1>9. c \in Pointer /\ c # NoPointer
  BY <1>4, <1>5, <1>6, <1>7, <1>8 DEF Pointer, NoPointer
<1>10. DefinitionOf(c) \in Definition /\ c.path = p
  BY <1>6, <1>7 DEF DefinitionOf
<1> QED
  BY <1>2, <1>4, <1>9, <1>10

LEMMA SameContracts ==
    ASSUME UNCHANGED <<sources, sourceOrder>>
    PROVE  /\ OrderedContracts' = OrderedContracts
           /\ \A p : Contracts(p)' = Contracts(p)
           /\ \A p, k : PointerTo(p, k)' = PointerTo(p, k)
           /\ \A c : DefinitionOf(c)' = DefinitionOf(c)
BY DEF OrderedContracts, PointerTo, DefinitionOf, Contracts, UnitOf

LEMMA CurrentSource ==
    ASSUME IInv, pos <= Len(sourceOrder)
    PROVE  /\ pos \in 1..Len(sourceOrder)
           /\ Current \in DOMAIN sources /\ Current \in Path
<1>1. pos \in 1..Len(sourceOrder)
  BY DEF IInv, InvControl, InvOrder
<1> QED
  BY <1>1 DEF IInv, InvOrder, InvSources, Usable, Current

LEMMA OrderedAt ==
    ASSUME IInv, NEW i \in 1..Len(sourceOrder), NEW k \in DOMAIN Contracts(sourceOrder[i])
    PROVE  PointerTo(sourceOrder[i], k) \in OrderedContracts
<1>1. DOMAIN sourceOrder = 1..Len(sourceOrder)
  BY DEF IInv, InvOrder
<1> QED
  BY <1>1 DEF OrderedContracts

LEMMA HereOrdered ==
    ASSUME IInv, pos <= Len(sourceOrder), sub <= Len(Contracts(Current))
    PROVE  /\ sub \in DOMAIN Contracts(Current)
           /\ Here \in OrderedContracts
<1>1. sub \in DOMAIN Contracts(Current)
  BY CurrentSource, ContractList, Bounds DEF IInv, InvControl
<1> QED
  BY <1>1, CurrentSource, OrderedAt DEF Here, Current

LEMMA AliasIsNoContract == ASSUME NEW d \in AliasPointer PROVE d \notin Pointer
<1>1. "import" \in DOMAIN d
  BY DEF AliasPointer
<1>2. ASSUME d \in Pointer PROVE "import" \notin DOMAIN d
  BY <1>2 DEF Pointer
<1> QED
  BY <1>1, <1>2

LEMMA DenotedOrdered ==
    ASSUME IInv, NEW c \in OrderedContracts, NEW names \in SUBSET Name
    PROVE  Denoted(c, names) \subseteq OrderedContracts \cup {NoPointer}
<1> SUFFICES ASSUME NEW n \in names
             PROVE  ContractNamed(c.path, n) \in OrderedContracts \cup {NoPointer}
  BY DEF Denoted
<1>1. c.path \in Path
  BY OrderedPointer
<1>2. scope[c.path][n] \in Visible
  BY <1>1 DEF IInv, InvAst
<1>3. scope[c.path][n] \in Pointer => scope[c.path][n] \in OrderedContracts \cup {NoPointer}
  BY <1>2, AliasIsNoContract DEF Visible
<1> QED
  BY <1>3 DEF ContractNamed

-----------------------------------------------------------------------------
(* Scopes and annotations.                                                 *)

LEMMA AstEmpty == ASSUME DropAnnotations PROVE InvAst'
BY DEF DropAnnotations, EmptyScope, InvAst, Visible

LEMMA AstSame ==
    ASSUME IInv, UNCHANGED <<sources, sourceOrder, scope, bases, deps, abstract>>,
           pc' \notin {"parse", "sort"},
           pc' \in {"syntax", "docStrings", "register", "import"} =>
             pc \in {"parse", "sort", "syntax", "docStrings", "register", "import"}
    PROVE  InvAst'
BY SameContracts DEF IInv, InvAst, Visible

LEMMA RegisterAst == ASSUME IInv, RegisterDeclarations PROVE InvAst'
<1>1. /\ UNCHANGED <<sources, sourceOrder, bases, deps, abstract, pc>>
      /\ pc = "register" /\ pos <= Len(sourceOrder)
      /\ scope' = [scope EXCEPT ![Current] = [n \in Name |-> FirstDeclared(Current, n)]]
  BY DEF RegisterDeclarations, Stay, PhaseRest
<1>2. \A k \in DOMAIN Imports(Current) : AliasTo(Current, k) \in AliasPointer
  <2>1. /\ Current \in DOMAIN sources /\ Current \in Path
        /\ sources[Current].text \in Text /\ sources[Current].ast \in 0..MaxParses
        /\ sources[Current].ast # NullAst
    BY <1>1, CurrentSource DEF IInv, InvSources, Source, InvOrder, Usable, Current
  <2>2. DOMAIN Imports(Current) = 1..Len(Imports(Current)) /\ Len(Imports(Current)) \in Nat
    BY <2>1, ConstantsAssumption, Zenon DEF Imports, UnitOf
  <2>3. sources[Current].ast \in 1..MaxParses
    BY <2>1, Bounds DEF NullAst
  <2> QED
    BY <2>1, <2>2, <2>3 DEF AliasTo, AliasPointer
<1>3. \A n \in Name : FirstDeclared(Current, n) \in Visible
  <2> TAKE n \in Name
  <2> DEFINE imports == First(AliasesNamed(Current, n))
             own == First(Declared(Current, n))
             i0 == CHOOSE k \in imports : TRUE
             k0 == CHOOSE k \in own : TRUE
  <2>1. FirstDeclared(Current, n) = IF imports # {} THEN AliasTo(Current, i0)
                                    ELSE IF own # {} THEN PointerTo(Current, k0)
                                    ELSE NoPointer
    BY DEF FirstDeclared
  <2>2. /\ imports # {} => i0 \in imports
        /\ own # {} => k0 \in own
    OBVIOUS
  <2>3. /\ imports \subseteq DOMAIN Imports(Current)
        /\ own \subseteq DOMAIN Contracts(Current)
    BY DEF First, AliasesNamed, Declared
  <2> HIDE DEF imports, own, i0, k0
  <2>4. \A k \in DOMAIN Contracts(Current) : PointerTo(Current, k) \in OrderedContracts
    BY <1>1, CurrentSource, OrderedAt DEF Current
  <2> QED
    BY <1>2, <2>1, <2>2, <2>3, <2>4 DEF Visible
<1>4. scope' \in [Path -> [Name -> Visible]]
  BY <1>1, <1>3, CurrentSource DEF IInv, InvAst
<1> QED
  BY <1>1, <1>4, SameContracts DEF IInv, InvAst, Visible

LEMMA ImportAst == ASSUME IInv, PerformImport PROVE InvAst'
<1> DEFINE import == Imports(Current)[sub]
           from == Target(Current, sub)
           in == Incoming(import, from)
           own == scope[Current]
           bad == \/ \E n \in DOMAIN import.aliases : in[n] = NoPointer
                  \/ \E n \in Name : /\ in[n] # NoPointer /\ own[n] # NoPointer
                                     /\ in[n] # own[n]
<1>1. /\ UNCHANGED <<sources, sourceOrder, bases, deps, abstract>>
      /\ pc = "import" /\ pos <= Len(sourceOrder) /\ sub <= Len(Imports(Current))
      /\ scope' = [scope EXCEPT ![Current] =
                      [n \in Name |-> IF own[n] # NoPointer THEN own[n] ELSE in[n]]]
  BY Zenon DEF PerformImport, PhaseRest
<1>2. pc' \in {"import", "idle", "compile"}
  BY <1>1, Zenon DEF PerformImport, Stay, Return, IInv, InvControl
<1>3. /\ Current \in Path /\ Current \in DOMAIN sources
      /\ sources[Current].text \in Text
  BY <1>1, CurrentSource DEF IInv, InvSources, Source
<1>4. DOMAIN Imports(Current) = 1..Len(Imports(Current)) /\ Len(Imports(Current)) \in Nat
  BY <1>3, ConstantsAssumption, Zenon DEF Imports, UnitOf
<1>5. sub \in DOMAIN Imports(Current)
  BY <1>1, <1>4 DEF IInv, InvControl
<1>6. from \in Path
  BY <1>3, <1>5, Targets DEF IInv, ImportTargets
<1>7. \A n \in DOMAIN import.aliases : import.aliases[n] \in Name
  <2>1. PICK N \in SUBSET Name : import.aliases \in [N -> Name]
    BY <1>3, <1>5, ConstantsAssumption, Zenon DEF Imports, UnitOf
  <2> QED
    BY <2>1
<1>8. scope \in [Path -> [Name -> Visible]] /\ NoPointer \in Visible
  BY DEF IInv, InvAst, Visible
<1> HIDE DEF import, from, own
<1>9. \A n \in Name : in[n] \in Visible
  BY <1>6, <1>7, <1>8 DEF Incoming
<1> HIDE DEF in
<1>10. scope' \in [Path -> [Name -> Visible]]
  BY <1>1, <1>3, <1>8, <1>9 DEF own
<1> QED
  BY <1>1, <1>2, <1>10, SameContracts DEF IInv, InvAst, Visible

\* The contracts in the linearizations of the direct bases of Here.
Inherited == UNION {BasesOf(b) : b \in Denoted(Here, DefinitionOf(Here).bases)}

LEMMA ResolveCases ==
    ASSUME IInv, ResolveNames
    PROVE  /\ pc = "resolve" /\ pos <= Len(sourceOrder) /\ sub <= Len(Contracts(Current))
           /\ UNCHANGED <<sources, sourceOrder, scope, abstract>>
           /\ \/ /\ bases' = bases \cup ({Here} \X (Inherited \cup {Here}))
                 /\ deps' = deps \cup ({Here} \X Inherited)
              \/ UNCHANGED <<bases, deps>>
           /\ \/ /\ pc' = "resolve" /\ sub' = sub + 1
                 /\ UNCHANGED <<pos, parseSuccessful, noErrors>>
                 /\ contracts' = WithContract(Here)
                 /\ bases' = bases \cup ({Here} \X (Inherited \cup {Here}))
                 /\ NoPointer \notin Denoted(Here, DefinitionOf(Here).creates)
              \/ /\ pc' = "idle" /\ parseSuccessful' = FALSE /\ contracts' = contracts
BY Zenon DEF ResolveNames, Inherited, Stay, Return, PhaseRest

LEMMA CheckCases ==
    ASSUME IInv, CheckTypes
    PROVE  LET created == Denoted(Here, DefinitionOf(Here).creates) IN
           /\ pc = "check" /\ pos <= Len(sourceOrder) /\ sub <= Len(Contracts(Current))
           /\ UNCHANGED <<sources, sourceOrder, scope, bases, pc, parseSuccessful>>
           /\ contracts' = WithContract(Here)
           /\ abstract' = abstract \/ abstract' = abstract \cup {Here}
           /\ deps' = deps \cup ({Here} \X created)
           /\ noErrors' => noErrors /\ (created = {} \/ ~Cyclic(deps', Here))
BY Zenon DEF CheckTypes, Stay, PhaseRest

LEMMA AstPart == ASSUME IInv, [Next]_vars PROVE InvAst'
<1> DEFINE OC == OrderedContracts
<1>0. /\ scope \in [Path -> [Name -> Visible]]
      /\ bases \subseteq OC \X OC /\ deps \subseteq OC \X OC /\ abstract \subseteq OC
  BY DEF IInv, InvAst
<1>1. CASE FreshStart \/ Entered
  BY <1>1, AstEmpty DEF FreshStart, Entered
<1>2. CASE Quiet
  BY <1>2, AstSame DEF Quiet
<1>3. CASE ParseSource \/ ParsingDone \/ SortStep \/ SortDone
  <2>1. UNCHANGED <<scope, bases, deps, abstract>> /\ pc \in {"parse", "sort"}
    BY <1>3 DEF ParseSource, ParsingDone, SortStep, SortRoot, SortImport, SortLeave,
       SortDone, SortRest, astVars
  <2>2. DropAnnotations
    BY <2>1 DEF DropAnnotations, IInv, InvAst
  <2> QED
    BY <2>2, AstEmpty
<1>4. CASE NextPhase \/ NextSource \/ CheckSyntax \/ AnalyseDocStrings
           \/ CheckLibraryNameClashes \/ ParseDone \/ GenStep
  <2>1. UNCHANGED <<sources, sourceOrder>> /\ pc \in Late /\ pc' \in Late
    BY <1>4, PhaseFrame DEF PhaseStep
  <2>2. UNCHANGED <<scope, bases, deps, abstract>>
    BY <1>4, Zenon DEF NextPhase, NextSource, CheckSyntax, AnalyseDocStrings,
       CheckLibraryNameClashes, ParseDone, GenStep, CompileNext, CompileDependency,
       CompileBody, CompileDone, GenRest, astVars
  <2>3. pc' \in {"syntax", "docStrings", "register", "import"} =>
             pc \in {"parse", "sort", "syntax", "docStrings", "register", "import"}
    <3>1. then \in {"idle", "compile"}
      BY DEF IInv, InvControl
    <3>2. CASE NextPhase
      BY <3>2 DEF NextPhase, Phase
    <3>3. CASE NextSource \/ CheckSyntax \/ AnalyseDocStrings
      BY <3>3, Zenon DEF NextSource, CheckSyntax, AnalyseDocStrings, Stay
    <3>4. CASE CheckLibraryNameClashes \/ ParseDone \/ GenStep
      <4>1. pc' \in {"check", "idle", "compile"}
        BY <3>1, <3>4, Zenon DEF CheckLibraryNameClashes, ParseDone, Return, GenStep,
           CompileNext, CompileDependency, CompileBody, CompileDone, CompileReturn
      <4> QED
        BY <4>1
    <3> QED
      BY <1>4, <3>2, <3>3, <3>4
  <2> QED
    BY <2>1, <2>2, <2>3, AstSame DEF Late, Phase
<1>5. CASE RegisterDeclarations
  BY <1>5, RegisterAst
<1>6. CASE PerformImport
  BY <1>6, ImportAst
<1>7. CASE ResolveNames
  <2>1. Here \in OC
    BY <1>7, ResolveCases, HereOrdered
  <2>2. Inherited \subseteq OC
    BY <1>0 DEF Inherited, BasesOf
  <2>3. UNCHANGED <<sources, sourceOrder, scope, abstract>> /\ pc' \in {"resolve", "idle"}
    BY <1>7, ResolveCases
  <2> HIDE DEF OC
  <2>4. bases' \subseteq OC \X OC /\ deps' \subseteq OC \X OC
    BY <1>0, <1>7, <2>1, <2>2, ResolveCases
  <2> QED
    BY <1>0, <2>3, <2>4, SameContracts DEF InvAst, Visible, OC
<1>8. CASE CheckTypes
  <2> DEFINE created == Denoted(Here, DefinitionOf(Here).creates)
  <2>1. Here \in OC /\ pc = "check"
    BY <1>8, CheckCases, HereOrdered
  <2>2. created \subseteq OC
    <3>1. DefinitionOf(Here).creates \in SUBSET Name
      BY <2>1, OrderedPointer DEF Definition
    <3>2. NoPointer \notin created
      BY <2>1 DEF IInv, InvContracts, Resolved
    <3> QED
      BY <2>1, <3>1, <3>2, DenotedOrdered
  <2> HIDE DEF OC, created
  <2>3. deps' \subseteq OC \X OC /\ abstract' \subseteq OC
    <3>1. /\ deps' = deps \cup ({Here} \X created)
          /\ abstract' = abstract \/ abstract' = abstract \cup {Here}
      BY <1>8, CheckCases DEF created
    <3> QED
      BY <1>0, <2>1, <2>2, <3>1
  <2>4. UNCHANGED <<sources, sourceOrder, scope, bases, pc>>
    BY <1>8, CheckCases
  <2> QED
    BY <1>0, <2>1, <2>3, <2>4, SameContracts DEF InvAst, Visible, OC
<1>9. CASE UNCHANGED vars
  BY <1>9, SameContracts DEF vars, objVars, astVars, ctlVars, IInv, InvAst, Visible
<1> QED
  BY <1>1, <1>2, <1>3, <1>4, <1>5, <1>6, <1>7, <1>8, <1>9, Kinds DEF PhaseStep

-----------------------------------------------------------------------------
(* The dependency graph.                                                   *)

LEMMA AcyclicEmpty == Acyclic({})
BY DEF Acyclic

\* New edges from a node nothing points to close no cycle.
LEMMA AcyclicSource ==
    ASSUME NEW graph, Acyclic(graph), NEW c, NEW targets,
           \A e \in graph : e[2] # c, c \notin targets,
           NEW domain, graph \subseteq domain \X domain
    PROVE  Acyclic(graph \cup ({c} \X targets))
<1> DEFINE larger == graph \cup ({c} \X targets)
<1>0. \A x, y : <<x, y>> \in larger =>
           <<x, y>> \in graph \/ (x = c /\ y \in targets)
  OBVIOUS
<1>1. \A x, y : <<x, y>> \in larger => y # c
  BY <1>0
<1> SUFFICES Acyclic(larger)
  OBVIOUS
<1> HIDE DEF larger
<1> SUFFICES ASSUME NEW T, T # {}, \A x \in T : \E y \in T : <<x, y>> \in larger
             PROVE  FALSE
  BY DEF Acyclic
<1>2. \A x \in T \ {c} : \E y \in T \ {c} : <<x, y>> \in graph
  BY <1>0, <1>1
<1>3. T \ {c} # {}
  <2>1. PICK x \in T : TRUE
    OBVIOUS
  <2>2. PICK y \in T : <<x, y>> \in larger
    OBVIOUS
  <2> QED
    BY <1>1, <2>2
<1>4. T \ {c} \in SUBSET {e[1] : e \in graph}
  <2>1. \A x, y : <<x, y>> \in graph => x \in {e[1] : e \in graph}
    OBVIOUS
  <2> QED
    BY <1>2, <2>1
<1> QED
  BY <1>2, <1>3, <1>4 DEF Acyclic

\* New edges from a node that no infinite path starts at close no cycle.
LEMMA AcyclicChecked ==
    ASSUME NEW graph, Acyclic(graph), NEW c, NEW targets,
           ~Cyclic(graph \cup ({c} \X targets), c)
    PROVE  Acyclic(graph \cup ({c} \X targets))
<1> DEFINE larger == graph \cup ({c} \X targets)
<1>0. \A x, y : <<x, y>> \in larger => x = c \/ <<x, y>> \in graph
  OBVIOUS
<1>1. ~Cyclic(larger, c)
  OBVIOUS
<1> SUFFICES Acyclic(larger)
  OBVIOUS
<1> HIDE DEF larger
<1> SUFFICES ASSUME NEW T, T # {}, \A x \in T : \E y \in T : <<x, y>> \in larger
             PROVE  FALSE
  BY DEF Acyclic
<1>2. CASE c \in T
  <2> DEFINE U == {c} \cup (T \cap {e[2] : e \in larger})
  <2>1. \A x \in U : \E y \in U : <<x, y>> \in larger
    <3> TAKE x \in U
    <3>1. PICK y \in T : <<x, y>> \in larger
      BY <1>2
    <3>2. y \in {e[2] : e \in larger}
      BY <3>1
    <3> QED
      BY <3>1, <3>2
  <2>2. U \in SUBSET ({c} \cup {e[2] : e \in larger}) /\ c \in U
    OBVIOUS
  <2> QED
    BY <1>1, <2>1, <2>2, Zenon DEF Cyclic
<1>3. CASE c \notin T
  <2>1. \A x \in T : \E y \in T : <<x, y>> \in graph
    BY <1>0, <1>3
  <2>2. \A x, y : <<x, y>> \in graph => x \in {e[1] : e \in graph}
    OBVIOUS
  <2>3. T \in SUBSET {e[1] : e \in graph}
    BY <2>1, <2>2
  <2> QED
    BY <2>1, <2>3 DEF Acyclic
<1> QED
  BY <1>2, <1>3

LEMMA ResolveDeps == ASSUME IInv, ResolveNames PROVE InvDeps'
<1>1. CASE pc' = "idle"
  BY <1>1, ResolveCases DEF InvDeps
<1>2. CASE pc' # "idle"
  <2> DEFINE OC == OrderedContracts
  <2>1. /\ pc = "resolve" /\ pc' = "resolve" /\ pos' = pos /\ sub' = sub + 1
        /\ UNCHANGED <<sources, sourceOrder, parseSuccessful, noErrors>>
        /\ pos <= Len(sourceOrder) /\ sub <= Len(Contracts(Current))
        /\ bases' = bases \cup ({Here} \X (Inherited \cup {Here}))
        /\ deps' = deps \/ deps' = deps \cup ({Here} \X Inherited)
    BY <1>2, ResolveCases
  <2>2. /\ \A e \in bases \cup deps : Linearized(e[2])
        /\ \A i \in 1..Len(sourceOrder), k \in 1..MaxContracts :
              Ahead(i, k) => ~Linearized(PointerTo(sourceOrder[i], k))
    BY <2>1 DEF IInv, InvDeps
  <2>3. pos \in 1..Len(sourceOrder) /\ sub \in 1..MaxContracts /\ Here \in OC
    BY <2>1, CurrentSource, HereOrdered, ContractList, Bounds
  <2>4. ~Linearized(Here)
    BY <2>2, <2>3 DEF Ahead, Here, Current
  <2>5. \A x \in Inherited : Linearized(x)
    BY <2>2 DEF Inherited, BasesOf
  <2>6. \A x : Linearized(x) => Linearized(x)'
    BY <2>1 DEF Linearized
  <2>8. <<Here, Here>> \in bases'
    BY <2>1
  <2>9. \A e \in bases' \cup deps' : <<e[2], e[2]>> \in bases'
    <3> TAKE e \in bases' \cup deps'
    <3>1. CASE e \in bases \cup deps
      BY <2>2, <2>6, <3>1 DEF Linearized
    <3>2. CASE e \in {Here} \X (Inherited \cup {Here})
      BY <2>5, <2>6, <2>8, <3>2 DEF Linearized
    <3> QED
      BY <2>1, <3>1, <3>2
  <2>10. \A i \in 1..Len(sourceOrder), k \in 1..MaxContracts :
            Ahead(i, k)' => ~Linearized(PointerTo(sourceOrder[i], k))'
    <3> SUFFICES ASSUME NEW i \in 1..Len(sourceOrder), NEW k \in 1..MaxContracts,
                        Ahead(i, k)'
                 PROVE  ~Linearized(PointerTo(sourceOrder[i], k))'
      OBVIOUS
    <3> PICK q : q = PointerTo(sourceOrder[i], k)
      OBVIOUS
    <3>1. Ahead(i, k) /\ (i # pos \/ k # sub)
      BY <2>1, <2>3, Bounds DEF Ahead
    <3>2. <<q, q>> \notin bases
      BY <2>2, <3>1 DEF Linearized
    <3>3. q # Here
      <4>1. sourceOrder[i] = sourceOrder[pos] => i = pos
        BY <2>3 DEF IInv, InvOrder
      <4> QED
        BY <3>1, <4>1 DEF PointerTo, Here, Current
    <3>4. <<q, q>> \notin bases'
      BY <2>1, <3>2, <3>3
    <3>5. PointerTo(sourceOrder[i], k)' = q
      BY <2>1 DEF PointerTo
    <3> QED
      BY <3>4, <3>5 DEF Linearized
  <2>11. ASSUME noErrors' PROVE Acyclic(deps)'
    <3>1. Acyclic(deps)
      BY <2>1, <2>11 DEF IInv, InvDeps
    <3>2. \A e \in deps : e[2] # Here
      BY <2>2, <2>4
    <3>3. Here \notin Inherited
      BY <2>4, <2>5
    <3>4. deps \subseteq OC \X OC
      BY DEF IInv, InvAst
    <3>5. Acyclic(deps \cup ({Here} \X Inherited))
      BY <3>1, <3>2, <3>3, <3>4, AcyclicSource
    <3> QED
      BY <2>1, <3>1, <3>5
  <2>12. ~parseSuccessful'
    BY <2>1 DEF IInv, InvControl
  <2>13. Len(sourceOrder)' = Len(sourceOrder)
    BY <2>1
  <2> QED
    BY <2>9, <2>10, <2>11, <2>12, <2>13 DEF InvDeps, Linearized
<1> QED
  BY <1>1, <1>2

LEMMA DepsPart == ASSUME IInv, [Next]_vars PROVE InvDeps'
<1>1. CASE FreshStart
  BY <1>1 DEF FreshStart, InvDeps
<1>2. CASE Entered
  BY <1>2 DEF Entered, InvDeps
<1>3. CASE Quiet
  BY <1>3 DEF Quiet, IInv, InvDeps
<1>4. CASE ParseSource \/ ParsingDone \/ SortStep \/ SortDone
  <2>1. pc \in {"parse", "sort"}
    BY <1>4 DEF ParseSource, ParsingDone, SortStep, SortRoot, SortImport, SortLeave,
       SortDone
  <2>2. ~parseSuccessful
    BY <2>1 DEF IInv, InvControl
  <2>3. pc' \notin {"resolve", "clash", "check"}
    BY <1>4, <2>1 DEF ParseSource, ParsingDone, Return, SortStep, SortRoot, SortImport,
       SortLeave, SortDone, IInv, InvControl
  <2>4. ~parseSuccessful'
    BY <1>4, <2>2, Zenon DEF ParseSource, ParsingDone, Return, SortStep, SortRoot,
       SortImport, SortLeave, SortDone, SortRest
  <2> QED
    BY <2>3, <2>4 DEF InvDeps
<1>5. CASE NextPhase
  <2>1. /\ pc \in Phase /\ pos' = 1 /\ sub' = 1
        /\ UNCHANGED <<bases, deps, noErrors, parseSuccessful>>
        /\ pc' = "resolve" => pc = "import"
        /\ pc' = "clash" => pc = "resolve"
        /\ pc' # "check"
    BY <1>5 DEF NextPhase, Phase, astVars
  <2>2. ~parseSuccessful'
    BY <2>1 DEF IInv, InvControl, Phase
  <2>3. CASE pc' = "resolve"
    <3>1. bases' = {} /\ deps' = {}
      BY <2>1, <2>3 DEF IInv, InvAst
    <3> QED
      BY <2>2, <3>1, AcyclicEmpty DEF InvDeps, Linearized
  <2>4. CASE pc' # "resolve"
    BY <2>1, <2>2, <2>4 DEF IInv, InvDeps
  <2> QED
    BY <2>3, <2>4
<1>6. CASE NextSource
  <2>1. /\ UNCHANGED <<sources, sourceOrder, bases, deps, noErrors, parseSuccessful, pc>>
        /\ pos' = pos + 1 /\ sub' = 1
    BY <1>6, Zenon DEF NextSource, Stay, PhaseRest, astVars
  <2>2. \A i \in 1..Len(sourceOrder), k \in 1..MaxContracts : Ahead(i, k)' => Ahead(i, k)
    BY <2>1, Bounds DEF Ahead, IInv, InvControl, InvOrder
  <2>3. \A p, k : Linearized(PointerTo(p, k))' = Linearized(PointerTo(p, k))
    BY <2>1 DEF Linearized, PointerTo
  <2>4. pc = "resolve" =>
         /\ \A e \in bases' \cup deps' : Linearized(e[2])'
         /\ \A i \in 1..Len(sourceOrder'), k \in 1..MaxContracts :
              Ahead(i, k)' => ~Linearized(PointerTo(sourceOrder[i], k))'
    BY <2>1, <2>2 DEF IInv, InvDeps, Linearized, PointerTo
  <2> QED
    BY <2>1, <2>4 DEF IInv, InvDeps
<1>7. CASE CheckSyntax \/ AnalyseDocStrings \/ RegisterDeclarations
  <2>1. pc' \in {"syntax", "docStrings", "register"} /\ pc' = pc
        /\ parseSuccessful' = parseSuccessful
    BY <1>7, Zenon DEF CheckSyntax, AnalyseDocStrings, RegisterDeclarations, Stay
  <2>2. ~parseSuccessful'
    BY <2>1 DEF IInv, InvControl
  <2> QED
    BY <2>1, <2>2 DEF InvDeps
<1>8. CASE PerformImport
  <2>1. \/ pc' = "import" /\ parseSuccessful' = parseSuccessful
        \/ pc' = "idle" /\ parseSuccessful' = FALSE
    BY <1>8, Zenon DEF PerformImport, Stay, Return
  <2>2. ~parseSuccessful'
    BY <1>8, <2>1 DEF PerformImport, IInv, InvControl
  <2> QED
    BY <2>1, <2>2 DEF InvDeps
<1>9. CASE ResolveNames
  BY <1>9, ResolveDeps
<1>10. CASE CheckLibraryNameClashes
  <2>1. /\ pc = "clash" /\ pc' = "check" /\ UNCHANGED <<deps, parseSuccessful>>
        /\ noErrors' => noErrors
    BY <1>10, Zenon DEF CheckLibraryNameClashes, astVars
  <2> QED
    BY <2>1 DEF IInv, InvDeps
<1>11. CASE CheckTypes
  <2> DEFINE created == Denoted(Here, DefinitionOf(Here).creates)
  <2>1. /\ pc = "check" /\ pc' = "check" /\ parseSuccessful' = parseSuccessful
        /\ deps' = deps \cup ({Here} \X created)
        /\ noErrors' => noErrors /\ (created = {} \/ ~Cyclic(deps', Here))
    BY <1>11, CheckCases
  <2> HIDE DEF created
  <2>2. ~parseSuccessful'
    BY <2>1 DEF IInv, InvControl
  <2>3. ASSUME noErrors' PROVE Acyclic(deps')
    <3>1. Acyclic(deps)
      BY <2>1, <2>3 DEF IInv, InvDeps
    <3>2. CASE created = {}
      <4>1. deps' = deps
        BY <2>1, <3>2
      <4> QED
        BY <3>1, <4>1
    <3>3. CASE ~Cyclic(deps', Here)
      <4>1. ~Cyclic(deps \cup ({Here} \X created), Here)
        BY <2>1, <3>3
      <4> QED
        BY <2>1, <3>1, <4>1, AcyclicChecked
    <3> QED
      BY <2>1, <2>3, <3>2, <3>3
  <2> QED
    BY <2>1, <2>2, <2>3 DEF InvDeps
<1>12. CASE ParseDone
  <2>1. /\ pc = "check" /\ deps' = deps /\ pc' \in {"idle", "compile"}
        /\ parseSuccessful' = noErrors
    BY <1>12, Zenon DEF ParseDone, Return, astVars, IInv, InvControl
  <2> QED
    BY <2>1 DEF IInv, InvDeps
<1>13. CASE GenStep
  <2>1. /\ UNCHANGED <<deps, parseSuccessful>> /\ pc' \in {"idle", "compile"}
    BY <1>13, Zenon DEF GenStep, CompileNext, CompileDependency, CompileBody, CompileDone,
       CompileReturn, GenRest, astVars
  <2> QED
    BY <2>1 DEF IInv, InvDeps
<1>14. CASE UNCHANGED vars
  <2>1. UNCHANGED <<sources, sourceOrder, bases, deps, pc, noErrors, parseSuccessful, pos,
                    sub>>
    BY <1>14 DEF vars, objVars, astVars, ctlVars
  <2> QED
    BY <2>1 DEF IInv, InvDeps, Linearized, Ahead, PointerTo
<1> QED
  BY <1>1, <1>2, <1>3, <1>4, <1>5, <1>6, <1>7, <1>8, <1>9, <1>10, <1>11, <1>12, <1>13,
     <1>14, Kinds DEF PhaseStep

-----------------------------------------------------------------------------
(* m_contracts.                                                            *)

LEMMA WithContractType ==
    ASSUME IInv, NEW c \in OrderedContracts
    PROVE  LET n == DefinitionOf(c).name IN
           /\ n \in Name
           /\ DOMAIN WithContract(c) = DOMAIN contracts \cup {n}
           /\ WithContract(c) \in [DOMAIN WithContract(c) -> Contract]
<1> DEFINE n == DefinitionOf(c).name
           old == [contract |-> c, code |-> contracts[n].code,
                   mapping |-> contracts[n].mapping, doc |-> contracts[n].doc]
           new == [contract |-> c, code |-> NoCode, mapping |-> NoCode, doc |-> NoPointer]
<1>1. n \in Name /\ c \in Pointer
  BY OrderedPointer DEF Definition
<1>2. contracts \in [DOMAIN contracts -> Contract]
  BY DEF IInv, InvContracts
<1>3. n \in DOMAIN contracts => old \in Contract
  BY <1>1, <1>2 DEF Contract
<1>4. new \in Contract
  BY <1>1 DEF Contract, Code, NoCode
<1>5. WithContract(c) = [m \in DOMAIN contracts \cup {n} |->
                            IF m # n THEN contracts[m]
                            ELSE IF n \in DOMAIN contracts THEN old ELSE new]
  BY DEF WithContract
<1> HIDE DEF n, old, new
<1>6. \A m \in DOMAIN contracts \cup {n} : WithContract(c)[m] \in Contract
  BY <1>2, <1>3, <1>4, <1>5
<1> QED
  BY <1>1, <1>5, <1>6 DEF n

\* Resolved is kept when the trees are and m_contracts only grows.
LEMMA ResolvedSame ==
    ASSUME UNCHANGED <<sources, sourceOrder, scope>>,
           DOMAIN contracts \subseteq DOMAIN contracts'
    PROVE  \A c : Resolved(c) => Resolved(c)'
BY DEF Resolved, Denoted, ContractNamed, DefinitionOf, Contracts, UnitOf

LEMMA ContractsSame ==
    ASSUME IInv, UNCHANGED <<sources, sourceOrder, scope>>,
           DOMAIN contracts \subseteq DOMAIN contracts',
           DOMAIN contracts' \subseteq Name,
           contracts' \in [DOMAIN contracts' -> Contract],
           pc' # "resolve",
           (pc' \in {"clash", "check"} \/ parseSuccessful') =>
             (pc \in {"clash", "check"} \/ parseSuccessful)
    PROVE  InvContracts'
<1>1. OrderedContracts' = OrderedContracts
  BY SameContracts
<1>2. \A c : Resolved(c) => Resolved(c)'
  BY ResolvedSame
<1> QED
  BY <1>1, <1>2 DEF IInv, InvContracts

LEMMA ResolveContracts == ASSUME IInv, ResolveNames PROVE InvContracts'
<1>0. Here \in OrderedContracts
  BY ResolveCases, HereOrdered
<1>1. UNCHANGED <<sources, sourceOrder, scope>> /\ pc = "resolve" /\ ~parseSuccessful
  BY ResolveCases DEF IInv, InvControl
<1>2. CASE pc' = "idle"
  <2>1. contracts' = contracts /\ ~parseSuccessful'
    BY <1>2, ResolveCases
  <2> QED
    BY <1>2, <2>1 DEF IInv, InvContracts
<1>3. CASE pc' # "idle"
  <2>1. /\ pc' = "resolve" /\ pos' = pos /\ sub' = sub + 1
        /\ parseSuccessful' = parseSuccessful
        /\ contracts' = WithContract(Here)
        /\ NoPointer \notin Denoted(Here, DefinitionOf(Here).creates)
        /\ pos <= Len(sourceOrder) /\ sub <= Len(Contracts(Current))
    BY <1>3, ResolveCases
  <2>2. /\ DOMAIN contracts' = DOMAIN contracts \cup {DefinitionOf(Here).name}
        /\ DOMAIN contracts' \subseteq Name
        /\ contracts' \in [DOMAIN contracts' -> Contract]
    BY <1>0, <2>1, WithContractType DEF IInv, InvContracts
  <2>3. \A c : Resolved(c) => Resolved(c)'
    BY <1>1, <2>2, ResolvedSame
  <2>4. \A i \in 1..Len(sourceOrder) : \A k \in DOMAIN Contracts(sourceOrder[i]) :
           ~Ahead(i, k)' => Resolved(PointerTo(sourceOrder[i], k))'
    <3> SUFFICES ASSUME NEW i \in 1..Len(sourceOrder),
                        NEW k \in DOMAIN Contracts(sourceOrder[i]),
                        ~Ahead(i, k)'
                 PROVE  Resolved(PointerTo(sourceOrder[i], k))'
      OBVIOUS
    <3> PICK q : q = PointerTo(sourceOrder[i], k)
      OBVIOUS
    <3>1. PointerTo(sourceOrder[i], k)' = q
      BY <1>1 DEF PointerTo
    <3>2. k \in Nat /\ pos \in Nat /\ sub \in Nat
      <4>1. sourceOrder[i] \in DOMAIN sources
        BY DEF IInv, InvOrder, Usable
      <4> QED
        BY <4>1, ContractList DEF IInv, InvControl
    <3>3. ~Ahead(i, k) \/ (i = pos /\ k = sub)
      BY <2>1, <3>2 DEF Ahead
    <3>4. CASE ~Ahead(i, k)
      BY <1>1, <2>3, <3>1, <3>4 DEF IInv, InvContracts
    <3>5. CASE i = pos /\ k = sub
      <4>1. q = Here
        BY <3>5 DEF Here, Current
      <4>2. /\ DefinitionOf(q).name \in DOMAIN contracts'
            /\ NoPointer \notin Denoted(q, DefinitionOf(q).creates)
        BY <2>1, <2>2, <4>1
      <4>3. /\ DefinitionOf(q)' = DefinitionOf(q)
            /\ \A names : Denoted(q, names)' = Denoted(q, names)
        BY <1>1 DEF DefinitionOf, Contracts, UnitOf, Denoted, ContractNamed
      <4>4. Resolved(q)'
        BY <4>2, <4>3 DEF Resolved
      <4> QED
        BY <3>1, <4>4
    <3> QED
      BY <3>3, <3>4, <3>5
  <2>5. \A p : Contracts(p)' = Contracts(p)
    BY <1>1, SameContracts
  <2> QED
    BY <1>1, <2>1, <2>2, <2>4, <2>5 DEF InvContracts
<1> QED
  BY <1>2, <1>3

LEMMA PhaseContracts == ASSUME IInv, NextPhase PROVE InvContracts'
<1>1. /\ UNCHANGED <<sources, sourceOrder, scope, contracts, parseSuccessful>>
      /\ pos > Len(sourceOrder) /\ pos' = 1 /\ sub' = 1
      /\ pc' = "resolve" => pc = "import"
      /\ pc' = "clash" => pc = "resolve"
      /\ pc' # "check" /\ pc \in Phase
  BY DEF NextPhase, Phase, PhaseRest, astVars
<1>2. ~parseSuccessful
  BY <1>1 DEF IInv, InvControl, Phase
<1>3. /\ DOMAIN contracts \subseteq Name
      /\ contracts \in [DOMAIN contracts -> Contract]
  BY DEF IInv, InvContracts
<1>4. CASE pc' = "resolve"
  <2>1. \A i \in 1..Len(sourceOrder) : \A k \in DOMAIN Contracts(sourceOrder[i]) :
           Ahead(i, k)'
    <3> TAKE i \in 1..Len(sourceOrder)
    <3> TAKE k \in DOMAIN Contracts(sourceOrder[i])
    <3>1. sourceOrder[i] \in DOMAIN sources
      BY DEF IInv, InvOrder, Usable
    <3>2. k \in 1..Len(Contracts(sourceOrder[i])) /\ Len(Contracts(sourceOrder[i])) \in Nat
      BY <3>1, ContractList, Bounds
    <3> QED
      BY <1>1, <3>2 DEF Ahead, IInv, InvOrder
  <2>2. \A p : Contracts(p)' = Contracts(p)
    BY <1>1, SameContracts
  <2> QED
    BY <1>1, <1>2, <1>3, <1>4, <2>1, <2>2 DEF InvContracts
<1>5. CASE pc' = "clash"
  <2>1. ASSUME NEW c \in OrderedContracts PROVE Resolved(c)
    <3>1. PICK i \in 1..Len(sourceOrder) : \E k \in DOMAIN Contracts(sourceOrder[i]) :
             c = PointerTo(sourceOrder[i], k)
      BY <2>1, OrderedPointer
    <3>2. PICK k \in DOMAIN Contracts(sourceOrder[i]) : c = PointerTo(sourceOrder[i], k)
      BY <3>1
    <3>3. ~Ahead(i, k)
      BY <1>1 DEF Ahead, IInv, InvOrder, InvControl
    <3> QED
      BY <1>1, <1>5, <3>2, <3>3 DEF IInv, InvContracts
  <2>2. \A c : Resolved(c) => Resolved(c)'
    BY <1>1, ResolvedSame
  <2>3. OrderedContracts' = OrderedContracts
    BY <1>1, SameContracts
  <2> QED
    BY <1>1, <1>3, <1>5, <2>1, <2>2, <2>3 DEF InvContracts
<1>6. CASE pc' \notin {"resolve", "clash"}
  BY <1>1, <1>2, <1>3, <1>6 DEF InvContracts
<1> QED
  BY <1>4, <1>5, <1>6

LEMMA NextSourceContracts == ASSUME IInv, NextSource PROVE InvContracts'
<1>1. /\ UNCHANGED <<sources, sourceOrder, scope, contracts, parseSuccessful, pc>>
      /\ pos <= Len(sourceOrder) /\ pos' = pos + 1 /\ sub' = 1
  BY Zenon DEF NextSource, Stay, PhaseRest, astVars
<1>2. /\ DOMAIN contracts \subseteq Name
      /\ contracts \in [DOMAIN contracts -> Contract]
  BY DEF IInv, InvContracts
<1>3. CASE pc = "resolve"
  <2>1. sub > Len(Contracts(Current))
    BY <1>3 DEF NextSource
  <2>2. \A i \in 1..Len(sourceOrder) : \A k \in DOMAIN Contracts(sourceOrder[i]) :
           ~Ahead(i, k)' => ~Ahead(i, k)
    <3> SUFFICES ASSUME NEW i \in 1..Len(sourceOrder),
                        NEW k \in DOMAIN Contracts(sourceOrder[i]), Ahead(i, k)
                 PROVE  Ahead(i, k)'
      OBVIOUS
    <3>1. sourceOrder[i] \in DOMAIN sources
      BY DEF IInv, InvOrder, Usable
    <3>2. k \in 1..Len(Contracts(sourceOrder[i])) /\ Len(Contracts(sourceOrder[i])) \in Nat
      BY <3>1, ContractList, Bounds
    <3>3. i = pos => k < sub
      BY <2>1, <3>2 DEF Current, IInv, InvControl
    <3> QED
      BY <1>1, <3>2, <3>3 DEF Ahead, IInv, InvControl, InvOrder
  <2>3. \A i \in 1..Len(sourceOrder) : \A k \in DOMAIN Contracts(sourceOrder[i]) :
           ~Ahead(i, k)' => Resolved(PointerTo(sourceOrder[i], k))
    BY <1>3, <2>2 DEF IInv, InvContracts
  <2>4. /\ \A p : Contracts(p)' = Contracts(p)
        /\ \A p, k : PointerTo(p, k)' = PointerTo(p, k)
    BY <1>1, SameContracts
  <2>5. \A i : \A k : Resolved(PointerTo(sourceOrder[i], k)) =>
                      Resolved(PointerTo(sourceOrder[i], k))'
    BY <1>1 DEF Resolved, Denoted, ContractNamed, DefinitionOf, Contracts, UnitOf, PointerTo
  <2>6. ~parseSuccessful'
    BY <1>1, <1>3 DEF IInv, InvControl
  <2> QED
    BY <1>1, <1>2, <1>3, <2>3, <2>4, <2>5, <2>6 DEF InvContracts
<1>4. CASE pc # "resolve"
  BY <1>1, <1>2, <1>4, ContractsSame
<1> QED
  BY <1>3, <1>4

\* The contract whose code is generated is listed in m_contracts.
LEMMA BodyListed ==
    ASSUME IInv, pc = "compile", calls # <<>>
    PROVE  /\ Head(calls).contract \in OrderedContracts
           /\ DefinitionOf(Head(calls).contract).name \in DOMAIN contracts
<1>1. Head(calls).contract \in OrderedContracts
  <2>1. calls \in Seq(CallFrame)
    BY DEF IInv, InvCompile
  <2>2. Head(calls) \in CallFrame
    BY <2>1
  <2> QED
    BY <2>2 DEF CallFrame
<1>2. parseSuccessful
  BY DEF IInv, InvControl
<1> QED
  BY <1>1, <1>2 DEF IInv, InvContracts, Resolved

LEMMA ContractsPart == ASSUME IInv, [Next]_vars PROVE InvContracts'
<1>0. /\ DOMAIN contracts \subseteq Name
      /\ contracts \in [DOMAIN contracts -> Contract]
  BY DEF IInv, InvContracts
<1>1. CASE FreshStart
  BY <1>1 DEF FreshStart, InvContracts, EmptyMap
<1>2. CASE Entered
  BY <1>0, <1>2 DEF Entered, InvContracts
<1>3. CASE Quiet
  BY <1>0, <1>3, ContractsSame DEF Quiet
<1>4. CASE ParseSource \/ ParsingDone \/ SortStep \/ SortDone
  <2>1. pc \in {"parse", "sort"} /\ contracts' = contracts
    BY <1>4 DEF ParseSource, ParsingDone, SortStep, SortRoot, SortImport, SortLeave,
       SortDone, SortRest
  <2>2. ~parseSuccessful
    BY <2>1 DEF IInv, InvControl
  <2>3. pc' \notin {"resolve", "clash", "check"}
    BY <1>4, <2>1 DEF ParseSource, ParsingDone, Return, SortStep, SortRoot, SortImport,
       SortLeave, SortDone, IInv, InvControl
  <2>4. ~parseSuccessful'
    BY <1>4, <2>2, Zenon DEF ParseSource, ParsingDone, Return, SortStep, SortRoot,
       SortImport, SortLeave, SortDone, SortRest
  <2> QED
    BY <1>0, <2>1, <2>3, <2>4 DEF InvContracts
<1>5. CASE NextPhase
  BY <1>5, PhaseContracts
<1>6. CASE NextSource
  BY <1>6, NextSourceContracts
<1>7. CASE CheckSyntax \/ AnalyseDocStrings \/ RegisterDeclarations
  <2>1. /\ pc' \in {"syntax", "docStrings", "register"} /\ pc' = pc
        /\ UNCHANGED <<parseSuccessful, contracts>>
    BY <1>7, Zenon DEF CheckSyntax, AnalyseDocStrings, RegisterDeclarations, Stay
  <2>2. ~parseSuccessful'
    BY <2>1 DEF IInv, InvControl
  <2> QED
    BY <1>0, <2>1, <2>2 DEF InvContracts
<1>8. CASE PerformImport
  <2>1. /\ contracts' = contracts
        /\ \/ pc' = "import" /\ parseSuccessful' = parseSuccessful
           \/ pc' = "idle" /\ parseSuccessful' = FALSE
    BY <1>8, Zenon DEF PerformImport, Stay, Return
  <2>2. ~parseSuccessful'
    BY <1>8, <2>1 DEF PerformImport, IInv, InvControl
  <2> QED
    BY <1>0, <2>1, <2>2 DEF InvContracts
<1>9. CASE ResolveNames
  BY <1>9, ResolveContracts
<1>10. CASE CheckLibraryNameClashes
  <2>1. /\ pc = "clash" /\ pc' = "check"
        /\ UNCHANGED <<sources, sourceOrder, scope, contracts>>
    BY <1>10, Zenon DEF CheckLibraryNameClashes, PhaseRest, astVars
  <2> QED
    BY <1>0, <2>1, ContractsSame
<1>11. CASE CheckTypes
  <2>1. /\ pc = "check" /\ pc' = "check" /\ UNCHANGED <<sources, sourceOrder, scope>>
        /\ contracts' = WithContract(Here)
        /\ Here \in OrderedContracts
    BY <1>11, CheckCases, HereOrdered
  <2>2. /\ DOMAIN contracts \subseteq DOMAIN contracts'
        /\ DOMAIN contracts' \subseteq Name
        /\ contracts' \in [DOMAIN contracts' -> Contract]
    BY <1>0, <2>1, WithContractType
  <2> QED
    BY <2>1, <2>2, ContractsSame
<1>12. CASE ParseDone
  <2>1. /\ pc = "check" /\ pc' \in {"idle", "compile"}
        /\ UNCHANGED <<sources, sourceOrder, scope, contracts>>
    BY <1>12, Zenon DEF ParseDone, Return, PhaseRest, astVars, IInv, InvControl
  <2> QED
    BY <1>0, <2>1, ContractsSame
<1>13. CASE GenStep
  <2>1. /\ pc = "compile" /\ pc' \in {"idle", "compile"}
        /\ UNCHANGED <<sources, sourceOrder, scope, parseSuccessful>>
    BY <1>13, Zenon DEF GenStep, CompileNext, CompileDependency, CompileBody, CompileDone,
       CompileReturn, GenRest, astVars
  <2>2. CASE contracts' = contracts
    BY <1>0, <2>1, <2>2, ContractsSame
  <2>3. CASE contracts' # contracts
    <3> DEFINE c == Head(calls).contract
               n == DefinitionOf(c).name
               code == [of |-> c, optimised |-> optimise, linked |-> FALSE]
    <3>1. /\ calls # <<>> /\ contracts' = [contracts EXCEPT ![n] =
                                             WithCode(contracts[n], code)]
      BY <1>13, <2>3, Zenon DEF GenStep, CompileNext, CompileDependency, CompileBody,
         CompileDone
    <3>2. c \in Pointer /\ n \in DOMAIN contracts
      BY <2>1, <3>1, BodyListed, OrderedPointer
    <3>3. optimise \in BOOLEAN
      BY DEF IInv, InvFlags
    <3>4. code \in Code
      BY <3>2, <3>3 DEF Code
    <3> HIDE DEF c, n, code
    <3>5. WithCode(contracts[n], code) \in Contract
      BY <1>0, <3>2, <3>4 DEF WithCode, Contract
    <3>6. /\ DOMAIN contracts' = DOMAIN contracts
          /\ contracts' \in [DOMAIN contracts' -> Contract]
      BY <1>0, <3>1, <3>2, <3>5
    <3> QED
      BY <1>0, <2>1, <3>6, ContractsSame
  <2> QED
    BY <2>2, <2>3
<1>14. CASE UNCHANGED vars
  <2>1. UNCHANGED <<sources, sourceOrder, scope, contracts, pc, parseSuccessful, pos, sub>>
    BY <1>14 DEF vars, objVars, astVars, ctlVars
  <2> QED
    BY <2>1 DEF IInv, InvContracts, Resolved, Ahead, PointerTo, OrderedContracts,
       Contracts, UnitOf, DefinitionOf, Denoted, ContractNamed
<1> QED
  BY <1>1, <1>2, <1>3, <1>4, <1>5, <1>6, <1>7, <1>8, <1>9, <1>10, <1>11, <1>12, <1>13,
     <1>14, Kinds DEF PhaseStep

-----------------------------------------------------------------------------
(* The recursion of compileContract.                                       *)

LEMMA EnterType ==
    ASSUME IInv, NEW c \in OrderedContracts PROVE EnterContract(c) \in Seq(CallFrame)
<1> DEFINE f == [contract |-> c, todo |-> {e[2] : e \in {x \in deps : x[1] = c}}]
<1>1. f \in CallFrame
  BY DEF CallFrame, IInv, InvAst
<1> HIDE DEF f
<1>2. <<f>> \in Seq(CallFrame) /\ <<>> \in Seq(CallFrame)
  BY <1>1
<1> QED
  BY <1>2 DEF EnterContract, f

LEMMA CompilePart == ASSUME IInv, [Next]_vars PROVE InvCompile'
<1>0. /\ calls \in Seq(CallFrame) /\ compiled \subseteq Pointer
      /\ pc # "compile" => calls = <<>> /\ compiled = {}
  BY DEF IInv, InvCompile, CallFrame
<1>1. ASSUME calls' = <<>>, compiled' = {} PROVE InvCompile'
  BY <1>1 DEF InvCompile
<1>2. CASE FreshStart \/ Entered \/ Quiet
  BY <1>0, <1>1, <1>2 DEF FreshStart, Entered, Quiet
<1>3. CASE ParseSource \/ ParsingDone \/ SortStep \/ SortDone
  <2>1. pc \in {"parse", "sort"} /\ UNCHANGED <<calls, compiled>>
    BY <1>3 DEF ParseSource, ParsingDone, SortStep, SortRoot, SortImport, SortLeave,
       SortDone, SortRest, genVars
  <2> QED
    BY <1>0, <1>1, <2>1
<1>4. CASE PhaseStep
  <2>1. /\ UNCHANGED <<calls, compiled, sources, sourceOrder>>
        /\ pc # "compile" \/ (calls = <<>> /\ pc' = pc)
    BY <1>4, Zenon DEF PhaseStep, NextPhase, NextSource, CheckSyntax, AnalyseDocStrings,
       RegisterDeclarations, PerformImport, ResolveNames, CheckLibraryNameClashes,
       CheckTypes, ParseDone, PhaseRest, Stay, Phase, genVars
  <2>2. OrderedContracts' = OrderedContracts
    BY <2>1, SameContracts
  <2> QED
    BY <1>0, <1>1, <2>1, <2>2 DEF InvCompile, CallFrame
<1>5. CASE GenStep
  <2>1. UNCHANGED <<sources, sourceOrder>> /\ pc = "compile"
    BY <1>5, Zenon DEF GenStep, CompileNext, CompileDependency, CompileBody, CompileDone,
       GenRest
  <2>2. OrderedContracts' = OrderedContracts
    BY <2>1, SameContracts
  <2>3. SUFFICES /\ calls' \in Seq(CallFrame) /\ compiled' \subseteq Pointer
                 /\ pc' # "compile" => calls' = <<>> /\ compiled' = {}
    BY <2>2 DEF InvCompile, CallFrame
  <2>4. CASE CompileNext
    <3>1. /\ calls' = EnterContract(Here) /\ compiled' = compiled /\ pc' = "compile"
          /\ Here \in OrderedContracts
      BY <2>4, HereOrdered DEF CompileNext
    <3> QED
      BY <1>0, <3>1, EnterType
  <2>5. CASE CompileDependency
    <3>1. PICK d \in Head(calls).todo :
             calls' = EnterContract(d) \o
                  <<[contract |-> Head(calls).contract,
                     todo |-> Head(calls).todo \ {d}]>> \o Tail(calls)
      BY <2>5 DEF CompileDependency
    <3>2. calls # <<>> /\ compiled' = compiled /\ pc' = "compile"
      BY <2>5 DEF CompileDependency
    <3>3. Head(calls) \in CallFrame /\ Tail(calls) \in Seq(CallFrame)
      BY <1>0, <3>2
    <3> DEFINE f == [contract |-> Head(calls).contract, todo |-> Head(calls).todo \ {d}]
    <3>4. d \in OrderedContracts /\ f \in CallFrame
      BY <3>3 DEF CallFrame
    <3> HIDE DEF f
    <3>5. EnterContract(d) \in Seq(CallFrame) /\ <<f>> \in Seq(CallFrame)
      BY <3>4, EnterType
    <3>6. calls' \in Seq(CallFrame)
      BY <3>1, <3>3, <3>5, ConcatProperties DEF f
    <3> QED
      BY <1>0, <3>2, <3>6
  <2>6. CASE CompileBody
    <3> DEFINE n == DefinitionOf(Head(calls).contract).name
    <3>1. \/ /\ compiled' = compiled \cup {contracts[n].contract} /\ calls' = Tail(calls)
             /\ pc' = pc
          \/ calls' = <<>> /\ compiled' = {}
      BY <2>6, Zenon DEF CompileBody, CompileReturn
    <3>2. calls # <<>>
      BY <2>6 DEF CompileBody
    <3>3. contracts[n].contract \in Pointer
      BY <2>1, <3>2, BodyListed DEF IInv, InvContracts, Contract
    <3>4. Tail(calls) \in Seq(CallFrame)
      BY <1>0, <3>2
    <3> HIDE DEF n
    <3>5. compiled' \subseteq Pointer
      BY <1>0, <3>1, <3>3
    <3>6. calls' \in Seq(CallFrame)
      <4>1. <<>> \in Seq(CallFrame)
        OBVIOUS
      <4> QED
        BY <3>1, <3>4, <4>1, Zenon
    <3> QED
      BY <2>1, <3>1, <3>5, <3>6
  <2>7. CASE CompileDone
    BY <2>7 DEF CompileDone, CompileReturn
  <2> QED
    BY <1>5, <2>4, <2>5, <2>6, <2>7 DEF GenStep
<1>6. CASE UNCHANGED vars
  <2>1. UNCHANGED <<calls, compiled, sources, sourceOrder, pc>>
    BY <1>6 DEF vars, objVars, genVars, ctlVars
  <2>2. OrderedContracts' = OrderedContracts
    BY <2>1, SameContracts
  <2> QED
    BY <1>0, <2>1, <2>2 DEF InvCompile, CallFrame
<1> QED
  BY <1>2, <1>3, <1>4, <1>5, <1>6, Kinds

-----------------------------------------------------------------------------
(* The theorems.                                                           *)

LEMMA IInvStep == IInv /\ [Next]_vars => IInv'
BY FlagsStep, ControlStep, SourcesStep, SortPart, OrderPart, AstPart, DepsPart,
   ContractsPart, CompilePart DEF IInv

\* IInv is an invariant of every sequence of calls of CompilerStack.
THEOREM Invariance == Spec => []IInv
BY InitIInv, IInvStep, PTL DEF Spec

LEMMA IInvTypeOK == IInv => TypeOK
<1> SUFFICES ASSUME IInv PROVE TypeOK
  OBVIOUS
<1>1. \A c \in OrderedContracts : c \in Pointer
  BY OrderedPointer
<1>2. /\ \E D \in SUBSET Path : sources \in [D -> Source]
      /\ \E N \in SUBSET Name : contracts \in [N -> Contract]
      /\ sourceOrder \in Seq(Path) /\ work \in Seq(Path) /\ order \in Seq(Path)
  BY DEF IInv, InvSources, InvContracts, InvOrder, InvSort
<1>3. /\ bases \in SUBSET (Pointer \X Pointer) /\ deps \in SUBSET (Pointer \X Pointer)
      /\ abstract \in SUBSET Pointer
  BY <1>1 DEF IInv, InvAst
<1>4. scope \in [Path -> [Name -> Pointer \cup AliasPointer \cup {NoPointer}]]
  BY <1>1 DEF IInv, InvAst, Visible
<1>5. /\ stack \in Seq([path : Path, next : Nat \ {0}])
      /\ seen \in SUBSET Path
  BY DEF IInv, InvSort, InvSources, Frame
<1>6. /\ calls \in Seq([contract : Pointer, todo : SUBSET Pointer])
      /\ compiled \in SUBSET Pointer
  <2> DEFINE R == [contract : Pointer, todo : SUBSET Pointer]
  <2>1. CallFrame \subseteq R
    BY <1>1 DEF CallFrame
  <2>2. calls \in Seq(CallFrame)
    BY DEF IInv, InvCompile, CallFrame
  <2> HIDE DEF R
  <2>3. calls \in Seq(R)
    BY <2>1, <2>2, SeqMonotonic
  <2> QED
    BY <2>3 DEF R, IInv, InvCompile
<1>7. /\ parseSuccessful \in BOOLEAN /\ errors \in BOOLEAN /\ noErrors \in BOOLEAN
      /\ optimise \in BOOLEAN
      /\ result \in {"none", "true", "false", "InternalCompilerError"}
  BY DEF IInv, InvFlags
<1>8. /\ remap \in Remapping
      /\ pc \in {"idle", "compile"} \cup ParsePhase
      /\ gen \in 0..MaxParses /\ then \in {"idle", "compile"}
      /\ pos \in Nat \ {0} /\ sub \in Nat \ {0}
  BY DEF IInv, InvControl
<1> QED
  BY <1>2, <1>3, <1>4, <1>5, <1>6, <1>7, <1>8, Zenon DEF TypeOK

\* Every variable always has its type: no pointer is used that was never set.
THEOREM TypeCorrect == Spec => []TypeOK
BY Invariance, IInvTypeOK, PTL

\* m_sourceOrder never lists a source without a syntax tree.
THEOREM OrderedSourcesAlwaysParsed == Spec => []OrderedSourcesParsed
<1>1. IInv => OrderedSourcesParsed
  <2>1. IInv => DOMAIN sourceOrder = 1..Len(sourceOrder)
    BY DEF IInv, InvOrder
  <2> QED
    BY <2>1 DEF IInv, InvOrder, Usable, OrderedSourcesParsed
<1> QED
  BY <1>1, Invariance, PTL

\* A parse that succeeds leaves an acyclic dependency graph.
THEOREM DependenciesAlwaysAcyclic == Spec => []DependenciesAcyclic
<1>1. IInv => DependenciesAcyclic
  BY DEF IInv, InvDeps, DependenciesAcyclic
<1> QED
  BY <1>1, Invariance, PTL
=============================================================================
