-------------------- MODULE CompilerStack_contracts_proofs --------------------
(***************************************************************************)
(* What m_contracts is good for: compile() finds in it the contracts it    *)
(* needs, and what it keeps from one call to the next belongs together.    *)
(***************************************************************************)
EXTENDS CompilerStack_parse_proofs

-----------------------------------------------------------------------------
(* compile() never fails the assertion of CompilerContext::                *)
(* compiledContract when contract names are unique, abstract contracts     *)
(* create nothing and nothing creates an abstract contract.                *)
(*                                                                         *)
(* The argument follows a contract from the checks to its code.  What its  *)
(* linearization and its new-expressions name is recorded in               *)
(* contractDependencies; compileContract visits all of these before it     *)
(* generates code, so that each of them is compiled, abstract or still     *)
(* being compiled in the frame above; and the set of compiled contracts is *)
(* closed under creation, which covers the inherited functions.            *)

Creations(c) == {c} \X Denoted(c, DefinitionOf(c).creates)

\* m_contracts has a contract of that name that is still in m_sourceOrder.
Named(c) ==
    LET n == DefinitionOf(c).name IN
    /\ n \in DOMAIN contracts
    /\ contracts[n].contract \in OrderedContracts
    /\ DefinitionOf(contracts[n].contract).name = n

\* What type checking has recorded about a contract.
Checked(c) == Named(c) /\ Creations(c) \subseteq deps

\* The annotations say what the syntax trees say.
InvRecorded ==
    /\ \A e \in bases : e[1] # e[2] => e \in deps
    /\ \A c \in abstract : DefinitionOf(c).abstract

\* Everything behind the loop of the type checker is checked.
InvChecked ==
    /\ pc = "clash" => pos = 1 /\ sub = 1
    /\ pc = "check" =>
         \A i \in 1..Len(sourceOrder) : \A k \in DOMAIN Contracts(sourceOrder[i]) :
           ~Ahead(i, k) => Checked(PointerTo(sourceOrder[i], k))
    /\ parseSuccessful => \A c \in OrderedContracts : Checked(c)

\* The hypothesis of ConcreteContractsCompiled.
Concrete ==
    /\ UniqueNames
    /\ \A c \in OrderedContracts :
         /\ DefinitionOf(c).abstract => DefinitionOf(c).creates = {}
         /\ Denoted(c, DefinitionOf(c).creates) \cap abstract = {}

\* A dependency d of the i-th frame of s is dealt with, or will be.
Settled(s, done, i, d) ==
    \/ d \in s[i].todo \cup done \cup abstract
    \/ i > 1 /\ d = s[i - 1].contract

FramesSettled(s, done) ==
    \A i \in 1..Len(s) : \A d \in OrderedContracts :
        <<s[i].contract, d>> \in deps => Settled(s, done, i, d)

ClosedUnderCreation(done) ==
    \A c \in done : c \in OrderedContracts /\ Denoted(c, DefinitionOf(c).creates) \subseteq done

InvFrames ==
    pc = "compile" /\ Concrete =>
        FramesSettled(calls, compiled) /\ ClosedUnderCreation(compiled)

InvResult == result = "InternalCompilerError" => pc = "idle" /\ ~Concrete

CInv == IInv /\ InvRecorded /\ InvChecked /\ InvFrames /\ InvResult
-----------------------------------------------------------------------------
(* Frames.                                                                 *)

LEMMA AnnotationFrame ==
    ASSUME IInv, PhaseStep \/ GenStep, ~ResolveNames, ~CheckTypes
    PROVE  UNCHANGED <<bases, deps, abstract>>
BY Zenon DEF PhaseStep, GenStep, NextPhase, NextSource, CheckSyntax, AnalyseDocStrings,
   RegisterDeclarations, PerformImport, CheckLibraryNameClashes, ParseDone, CompileNext,
   CompileDependency, CompileBody, CompileDone, GenRest, astVars

\* m_contracts lists the same contracts; an object may have been linked and
\* a description cached.
SameEntries ==
    /\ DOMAIN contracts' = DOMAIN contracts
    /\ \A n \in DOMAIN contracts :
         /\ contracts'[n].contract = contracts[n].contract
         /\ \/ contracts'[n].code = contracts[n].code
            \/ contracts[n].code # NoCode /\ contracts'[n].code.of = contracts[n].code.of
         /\ \/ contracts'[n].doc = contracts[n].doc
            \/ contracts'[n].doc = contracts[n].contract

\* The calls that do not reset the stack leave the entries of m_contracts.
LEMMA QuietKeepsContracts == ASSUME IInv, [Next]_vars, Quiet PROVE SameEntries
<1>0. /\ DOMAIN contracts' = DOMAIN contracts /\ pc = "idle" /\ pc' # "parse"
      /\ contracts \in [DOMAIN contracts -> Contract]
  BY DEF Quiet, IInv, InvContracts
<1>1. ASSUME contracts' = contracts \/ contracts' = EmptyMap PROVE SameEntries
  BY <1>0, <1>1 DEF EmptyMap, SameEntries
<1>2. CASE Step
  BY <1>0, <1>2 DEF Step, ParseSource, ParsingDone, SortRoot, SortImport, SortLeave,
     SortDone, NextPhase, NextSource, CheckSyntax, AnalyseDocStrings,
     RegisterDeclarations, PerformImport, ResolveNames, CheckLibraryNameClashes,
     CheckTypes, ParseDone, CompileNext, CompileDependency, CompileBody, CompileDone, Phase
<1>3. CASE UNCHANGED vars
  BY <1>1, <1>3 DEF vars, objVars
<1>4. CASE Call
  <2>1. CASE \/ \E p \in Path, t \in Text, lib \in LibraryFlags : AddSource(p, t, lib)
             \/ \E t \in Text : SetSource(t)
             \/ \E keep \in BOOLEAN : ResetSources(keep)
    BY <1>1, <2>1, Zenon DEF AddSource, SetSource, ResetSources, AddSourceTo, Reset
  <2>2. CASE \/ \E r \in Remapping : SetRemappings(r)
             \/ Parse
             \/ \E opt \in BOOLEAN : Compile(opt)
             \/ \E translates \in BOOLEAN : PrepareFormalAnalysis(translates)
    BY <1>1, <2>2, Zenon DEF SetRemappings, Parse, Compile, StartParse,
       PrepareFormalAnalysis
  <2>3. CASE Link
    BY <1>0, <2>3 DEF Link, WithCode, Linked, SameEntries
  <2>4. ASSUME NEW n \in Queried, SourceMapping(n) \/ Metadata(n) PROVE SameEntries
    <3>1. PICK e : /\ contracts' = [contracts EXCEPT ![n] = e]
                   /\ e.contract = contracts[n].contract /\ e.code = contracts[n].code
                   /\ e.doc = contracts[n].doc \/ e.doc = contracts[n].contract
      BY <2>4 DEF SourceMapping, Metadata
    <3> QED
      BY <1>0, <3>1 DEF SameEntries
  <2> QED
    BY <1>4, <2>1, <2>2, <2>3, <2>4 DEF Call
<1> QED
  BY <1>2, <1>3, <1>4 DEF Next

\* The generation of code leaves the contracts.
LEMMA GenKeepsContracts ==
    ASSUME IInv, GenStep
    PROVE  /\ DOMAIN contracts' = DOMAIN contracts
           /\ \A n \in DOMAIN contracts : contracts'[n].contract = contracts[n].contract
<1>0. contracts \in [DOMAIN contracts -> Contract]
  BY DEF IInv, InvContracts
<1>1. CASE contracts' = contracts
  BY <1>1
<1>2. CASE contracts' # contracts
  <2> DEFINE c == Head(calls).contract
             n == DefinitionOf(c).name
             code == [of |-> c, optimised |-> optimise, linked |-> FALSE]
  <2>1. contracts' = [contracts EXCEPT ![n] = WithCode(contracts[n], code)]
    BY <1>2, Zenon DEF GenStep, CompileNext, CompileDependency, CompileBody, CompileDone
  <2> HIDE DEF n, code
  <2>2. WithCode(contracts[n], code).contract = contracts[n].contract
    BY DEF WithCode
  <2> QED
    BY <1>0, <2>1, <2>2
<1> QED
  BY <1>1, <1>2

-----------------------------------------------------------------------------
(* What the annotations record.                                            *)

LEMMA RecordedSame ==
    ASSUME InvRecorded, UNCHANGED <<sources, bases, deps, abstract>>
    PROVE  InvRecorded'
BY DEF InvRecorded, DefinitionOf, Contracts, UnitOf

LEMMA RecordedPart == ASSUME IInv, InvRecorded, [Next]_vars PROVE InvRecorded'
<1>1. CASE FreshStart \/ Entered
  BY <1>1 DEF FreshStart, Entered, DropAnnotations, InvRecorded
<1>2. CASE Quiet
  BY <1>2, RecordedSame DEF Quiet
<1>3. CASE ParseSource \/ ParsingDone \/ SortStep \/ SortDone
  <2>1. UNCHANGED <<bases, abstract>> /\ pc \in {"parse", "sort"}
    BY <1>3 DEF ParseSource, ParsingDone, SortStep, SortRoot, SortImport, SortLeave,
       SortDone, SortRest, astVars
  <2>2. bases' = {} /\ abstract' = {}
    BY <2>1 DEF IInv, InvAst
  <2> QED
    BY <2>2 DEF InvRecorded
<1>4. CASE ResolveNames
  <2>1. /\ UNCHANGED <<sources, abstract>>
        /\ \/ /\ bases' = bases \cup ({Here} \X (Inherited \cup {Here}))
              /\ deps' = deps \cup ({Here} \X Inherited)
           \/ UNCHANGED <<bases, deps>>
    BY <1>4, ResolveCases
  <2>2. \A c \in abstract' : DefinitionOf(c)'.abstract
    BY <2>1 DEF InvRecorded, DefinitionOf, Contracts, UnitOf
  <2>3. \A e \in bases' : e[1] # e[2] => e \in deps'
    BY <2>1 DEF InvRecorded
  <2> QED
    BY <2>2, <2>3 DEF InvRecorded
<1>5. CASE CheckTypes
  <2>1. /\ UNCHANGED <<sources, bases>> /\ deps \subseteq deps'
    BY <1>5, CheckCases
  <2>2. abstract' = abstract \/ (abstract' = abstract \cup {Here} /\ DefinitionOf(Here).abstract)
    BY <1>5, Zenon DEF CheckTypes
  <2>3. \A c : DefinitionOf(c)' = DefinitionOf(c)
    BY <2>1 DEF DefinitionOf, Contracts, UnitOf
  <2>4. \A c \in abstract' : DefinitionOf(c).abstract
    BY <2>2 DEF InvRecorded
  <2> QED
    BY <2>1, <2>3, <2>4 DEF InvRecorded
<1>6. CASE (PhaseStep \/ GenStep) /\ ~ResolveNames /\ ~CheckTypes
  BY <1>6, AnnotationFrame, PhaseFrame, RecordedSame
<1>7. CASE UNCHANGED vars
  BY <1>7, RecordedSame DEF vars, objVars, astVars
<1> QED
  BY <1>1, <1>2, <1>3, <1>4, <1>5, <1>6, <1>7, Kinds

-----------------------------------------------------------------------------
(* What type checking has been through.                                    *)

LEMMA CheckedSame ==
    ASSUME UNCHANGED <<sources, sourceOrder, scope>>, deps \subseteq deps',
           DOMAIN contracts \subseteq DOMAIN contracts',
           \A n \in DOMAIN contracts : contracts'[n].contract = contracts[n].contract
    PROVE  \A c : Checked(c) => Checked(c)'
<1> SUFFICES ASSUME NEW c, Checked(c) PROVE Checked(c)'
  OBVIOUS
<1>1. /\ OrderedContracts' = OrderedContracts
      /\ \A d : DefinitionOf(d)' = DefinitionOf(d)
  BY SameContracts
<1>2. Creations(c)' = Creations(c)
  BY <1>1 DEF Creations, Denoted, ContractNamed
<1> DEFINE n == DefinitionOf(c).name
<1>3. /\ n \in DOMAIN contracts /\ contracts[n].contract \in OrderedContracts
      /\ DefinitionOf(contracts[n].contract).name = n
      /\ Creations(c) \subseteq deps
  BY DEF Checked, Named
<1>4. contracts'[n].contract = contracts[n].contract /\ n \in DOMAIN contracts'
  BY <1>3
<1>5. DefinitionOf(c)'.name = n
  BY <1>1
<1> HIDE DEF n
<1>6. Named(c)'
  BY <1>1, <1>3, <1>4, <1>5 DEF Named
<1> QED
  BY <1>2, <1>3, <1>6 DEF Checked

\* What is behind the loop stays checked.
LEMMA CheckedBehind ==
    ASSUME UNCHANGED <<sources, sourceOrder, scope, contracts, deps>>,
           \A i \in 1..Len(sourceOrder) : \A k \in DOMAIN Contracts(sourceOrder[i]) :
             ~Ahead(i, k)' => Checked(PointerTo(sourceOrder[i], k))
    PROVE  \A i \in 1..Len(sourceOrder') : \A k \in DOMAIN Contracts(sourceOrder[i])' :
             ~Ahead(i, k)' => Checked(PointerTo(sourceOrder[i], k))'
<1> SUFFICES ASSUME NEW i \in 1..Len(sourceOrder'),
                    NEW k \in DOMAIN Contracts(sourceOrder[i])', ~Ahead(i, k)'
             PROVE  Checked(PointerTo(sourceOrder[i], k))'
  OBVIOUS
<1>1. PICK q : q = PointerTo(sourceOrder[i], k)
  OBVIOUS
<1>2. PointerTo(sourceOrder[i], k)' = q
  BY <1>1 DEF PointerTo
<1>3. Contracts(sourceOrder[i])' = Contracts(sourceOrder[i])
  BY DEF Contracts, UnitOf
<1>4. Checked(q)
  BY <1>1, <1>3
<1>5. Checked(q)'
  BY <1>4, CheckedSame
<1> QED
  BY <1>2, <1>5

\* A step that leaves the checked contracts alone.
LEMMA InvCheckedSame ==
    ASSUME IInv, InvChecked, UNCHANGED <<sources, sourceOrder, scope>>, deps \subseteq deps',
           DOMAIN contracts \subseteq DOMAIN contracts',
           \A n \in DOMAIN contracts : contracts'[n].contract = contracts[n].contract,
           pc' \notin {"clash", "check"},
           parseSuccessful' => parseSuccessful
    PROVE  InvChecked'
<1>1. \A c : Checked(c) => Checked(c)'
  BY CheckedSame
<1>2. OrderedContracts' = OrderedContracts
  BY SameContracts
<1> QED
  BY <1>1, <1>2 DEF InvChecked

LEMMA CheckChecked == ASSUME IInv, InvChecked, CheckTypes PROVE InvChecked'
<1> DEFINE h == Here
           n == DefinitionOf(Here).name
           created == Denoted(Here, DefinitionOf(Here).creates)
<1>1. /\ pc = "check" /\ pos <= Len(sourceOrder) /\ sub <= Len(Contracts(Current))
      /\ UNCHANGED <<sources, sourceOrder, scope, pc, parseSuccessful>>
      /\ contracts' = WithContract(Here)
      /\ deps' = deps \cup ({Here} \X created)
  BY CheckCases
<1>2. pos' = pos /\ sub' = sub + 1
  BY Zenon DEF CheckTypes
<1>3. Here \in OrderedContracts /\ ~parseSuccessful
  BY <1>1, HereOrdered DEF IInv, InvControl
<1>4. /\ DOMAIN contracts' = DOMAIN contracts \cup {n}
      /\ contracts'[n].contract = Here
      /\ \A m \in DOMAIN contracts : m # n => contracts'[m] = contracts[m]
  BY <1>1 DEF WithContract
<1>5. /\ OrderedContracts' = OrderedContracts
      /\ \A d : DefinitionOf(d)' = DefinitionOf(d)
      /\ \A p : Contracts(p)' = Contracts(p)
      /\ \A p, k : PointerTo(p, k)' = PointerTo(p, k)
  BY <1>1, SameContracts
<1>6. \A c : Creations(c)' = Creations(c)
  BY <1>1, <1>5 DEF Creations, Denoted, ContractNamed
<1>7. Creations(Here) \subseteq deps'
  BY <1>1 DEF Creations
<1>h. h = Here
  OBVIOUS
<1> HIDE DEF h, n, created
<1>8. ASSUME NEW c, c = h \/ Checked(c) PROVE Checked(c)'
  <2> DEFINE m == DefinitionOf(c).name
  <2>1. m \in DOMAIN contracts'
    BY <1>h, <1>4, <1>8 DEF Checked, Named, n
  <2>2. /\ contracts'[m].contract \in OrderedContracts
        /\ DefinitionOf(contracts'[m].contract).name = m
    <3>1. CASE m = n
      BY <1>3, <1>4, <3>1 DEF n
    <3>2. CASE m # n
      <4>1. Checked(c)
        BY <1>h, <1>8, <3>2 DEF n
      <4> QED
        BY <1>4, <3>2, <4>1 DEF Checked, Named
    <3> QED
      BY <3>1, <3>2
  <2>3. Creations(c) \subseteq deps'
    BY <1>h, <1>1, <1>7, <1>8 DEF Checked
  <2>4. DefinitionOf(c)'.name = m
    BY <1>5
  <2> HIDE DEF m
  <2>5. Named(c)'
    BY <1>5, <2>1, <2>2, <2>4 DEF Named
  <2> QED
    BY <1>6, <2>3, <2>5 DEF Checked
<1>9. \A i \in 1..Len(sourceOrder) : \A k \in DOMAIN Contracts(sourceOrder[i]) :
         ~Ahead(i, k)' => Checked(PointerTo(sourceOrder[i], k))'
  <2> SUFFICES ASSUME NEW i \in 1..Len(sourceOrder),
                      NEW k \in DOMAIN Contracts(sourceOrder[i]),
                      ~Ahead(i, k)'
               PROVE  Checked(PointerTo(sourceOrder[i], k))'
    OBVIOUS
  <2>1. PICK q : q = PointerTo(sourceOrder[i], k)
    OBVIOUS
  <2>2. PointerTo(sourceOrder[i], k)' = q
    BY <1>1, <2>1 DEF PointerTo
  <2>3. k \in Nat /\ pos \in Nat /\ sub \in Nat
    <3>1. sourceOrder[i] \in DOMAIN sources
      BY DEF IInv, InvOrder, Usable
    <3> QED
      BY <3>1, ContractList DEF IInv, InvControl
  <2>4. ~Ahead(i, k) \/ (i = pos /\ k = sub)
    BY <1>2, <2>3 DEF Ahead
  <2>5. q = h \/ Checked(q)
    BY <1>1, <2>1, <2>4 DEF InvChecked, h, Here, Current
  <2>6. Checked(q)'
    BY <1>8, <2>5
  <2> QED
    BY <2>2, <2>6
<1> QED
  BY <1>1, <1>3, <1>5, <1>9 DEF InvChecked

LEMMA NextSourceChecked == ASSUME IInv, InvChecked, NextSource PROVE InvChecked'
<1>1. /\ UNCHANGED <<sources, sourceOrder, scope, contracts, parseSuccessful, pc, deps>>
      /\ pos <= Len(sourceOrder) /\ pos' = pos + 1 /\ sub' = 1
      /\ pc \in {"import", "resolve", "check", "compile"}
  BY Zenon DEF NextSource, Stay, PhaseRest, astVars
<1>2. CASE pc = "check"
  <2>1. sub > Len(Contracts(Current))
    BY <1>2 DEF NextSource
  <2>2. \A i \in 1..Len(sourceOrder) : \A k \in DOMAIN Contracts(sourceOrder[i]) :
           ~Ahead(i, k)' => ~Ahead(i, k)
    <3> SUFFICES ASSUME NEW i \in 1..Len(sourceOrder),
                        NEW k \in DOMAIN Contracts(sourceOrder[i]), Ahead(i, k)
                 PROVE  Ahead(i, k)'
      OBVIOUS
    <3>1. sourceOrder[i] \in DOMAIN sources
      BY DEF IInv, InvOrder, Usable
    <3>2. k \in 1..Len(Contracts(sourceOrder[i])) /\ Len(Contracts(sourceOrder[i])) \in Nat
      BY <3>1, ContractList, Bounds
    <3>3. i = pos => k < sub
      BY <2>1, <3>2 DEF Current, IInv, InvControl
    <3> QED
      BY <1>1, <3>2, <3>3 DEF Ahead, IInv, InvControl, InvOrder
  <2>3. \A i \in 1..Len(sourceOrder) : \A k \in DOMAIN Contracts(sourceOrder[i]) :
           ~Ahead(i, k)' => Checked(PointerTo(sourceOrder[i], k))
    BY <1>2, <2>2 DEF InvChecked
  <2>6. \A i \in 1..Len(sourceOrder') : \A k \in DOMAIN Contracts(sourceOrder[i])' :
           ~Ahead(i, k)' => Checked(PointerTo(sourceOrder[i], k))'
    BY <1>1, <2>3, CheckedBehind
  <2>7. ~parseSuccessful'
    BY <1>1, <1>2 DEF IInv, InvControl
  <2> QED
    BY <1>1, <1>2, <2>6, <2>7 DEF InvChecked
<1>3. CASE pc # "check"
  BY <1>1, <1>3, InvCheckedSame
<1> QED
  BY <1>2, <1>3

LEMMA CheckedPart == ASSUME IInv, InvChecked, [Next]_vars PROVE InvChecked'
<1>0. then \in {"idle", "compile"} /\ pos \in Nat \ {0} /\ sub \in Nat \ {0}
  BY DEF IInv, InvControl
<1>1. CASE FreshStart \/ Entered
  BY <1>1 DEF FreshStart, Entered, InvChecked
<1>2. CASE Quiet
  <2>1. /\ UNCHANGED <<sources, sourceOrder, scope, deps, parseSuccessful>>
        /\ pc' \in {"idle", "compile"}
    BY <1>2 DEF Quiet
  <2> QED
    BY <1>2, <2>1, QuietKeepsContracts, InvCheckedSame DEF SameEntries
<1>3. CASE ParseSource \/ ParsingDone \/ SortStep \/ SortDone
  <2>1. pc \in {"parse", "sort"}
    BY <1>3 DEF ParseSource, ParsingDone, SortStep, SortRoot, SortImport, SortLeave,
       SortDone
  <2>2. ~parseSuccessful
    BY <2>1 DEF IInv, InvControl
  <2>3. pc' \notin {"clash", "check"}
    BY <1>0, <1>3, <2>1 DEF ParseSource, ParsingDone, Return, SortStep, SortRoot, SortImport,
       SortLeave, SortDone
  <2>4. ~parseSuccessful'
    BY <1>3, <2>2, Zenon DEF ParseSource, ParsingDone, Return, SortStep, SortRoot,
       SortImport, SortLeave, SortDone, SortRest
  <2> QED
    BY <2>3, <2>4 DEF InvChecked
<1>4. CASE NextPhase
  <2>1. /\ pc \in Phase /\ pc' # "check" /\ pos' = 1 /\ sub' = 1
        /\ parseSuccessful' = parseSuccessful
    BY <1>4 DEF NextPhase, Phase
  <2>2. ~parseSuccessful'
    BY <2>1 DEF IInv, InvControl, Phase
  <2> QED
    BY <2>1, <2>2 DEF InvChecked
<1>5. CASE NextSource
  BY <1>5, NextSourceChecked
<1>6. CASE CheckSyntax \/ AnalyseDocStrings \/ RegisterDeclarations
           \/ PerformImport \/ ResolveNames
  <2>1. /\ pc \in {"syntax", "docStrings", "register", "import", "resolve"}
        /\ pc' = pc \/ pc' = "idle"
        /\ parseSuccessful' = parseSuccessful \/ parseSuccessful' = FALSE
    BY <1>6, Zenon DEF CheckSyntax, AnalyseDocStrings, RegisterDeclarations, PerformImport,
       ResolveNames, Stay, Return
  <2>2. ~parseSuccessful'
    BY <2>1 DEF IInv, InvControl
  <2> QED
    BY <2>1, <2>2 DEF InvChecked
<1>7. CASE CheckLibraryNameClashes
  <2>1. /\ pc = "clash" /\ pc' = "check"
        /\ UNCHANGED <<sources, sourceOrder, parseSuccessful, pos, sub>>
    BY <1>7, Zenon DEF CheckLibraryNameClashes, PhaseRest
  <2>2. ~parseSuccessful' /\ pos' = 1 /\ sub' = 1
    BY <2>1 DEF IInv, InvControl, InvChecked
  <2>3. \A i \in 1..Len(sourceOrder) : \A k \in DOMAIN Contracts(sourceOrder[i]) : Ahead(i, k)'
    <3> TAKE i \in 1..Len(sourceOrder)
    <3> TAKE k \in DOMAIN Contracts(sourceOrder[i])
    <3>1. sourceOrder[i] \in DOMAIN sources
      BY DEF IInv, InvOrder, Usable
    <3>2. k \in 1..Len(Contracts(sourceOrder[i])) /\ Len(Contracts(sourceOrder[i])) \in Nat
      BY <3>1, ContractList, Bounds
    <3> QED
      BY <2>2, <3>2 DEF Ahead, IInv, InvOrder
  <2>4. \A p : Contracts(p)' = Contracts(p)
    BY <2>1, SameContracts
  <2> QED
    BY <2>1, <2>2, <2>3, <2>4 DEF InvChecked
<1>8. CASE CheckTypes
  BY <1>8, CheckChecked
<1>9. CASE ParseDone
  <2>1. /\ pc = "check" /\ pc' \in {"idle", "compile"} /\ pos > Len(sourceOrder)
        /\ UNCHANGED <<sources, sourceOrder, scope, deps, contracts>>
    BY <1>0, <1>9, Zenon DEF ParseDone, Return, PhaseRest, astVars
  <2>2. ASSUME NEW c \in OrderedContracts PROVE Checked(c)
    <3>1. PICK i \in 1..Len(sourceOrder) : \E k \in DOMAIN Contracts(sourceOrder[i]) :
             c = PointerTo(sourceOrder[i], k)
      BY <2>2, OrderedPointer
    <3>2. PICK k \in DOMAIN Contracts(sourceOrder[i]) : c = PointerTo(sourceOrder[i], k)
      BY <3>1
    <3>3. ~Ahead(i, k)
      BY <1>0, <2>1 DEF Ahead, IInv, InvOrder
    <3> QED
      BY <2>1, <3>2, <3>3 DEF InvChecked
  <2>3. \A c : Checked(c) => Checked(c)'
    BY <2>1, CheckedSame
  <2>4. OrderedContracts' = OrderedContracts
    BY <2>1, SameContracts
  <2> QED
    BY <2>1, <2>2, <2>3, <2>4 DEF InvChecked
<1>10. CASE GenStep
  <2>1. /\ pc' \in {"idle", "compile"}
        /\ UNCHANGED <<sources, sourceOrder, scope, deps, parseSuccessful>>
    BY <1>10, Zenon DEF GenStep, CompileNext, CompileDependency, CompileBody, CompileDone,
       CompileReturn, GenRest, astVars
  <2> QED
    BY <1>10, <2>1, GenKeepsContracts, InvCheckedSame
<1>11. CASE UNCHANGED vars
  <2>1. UNCHANGED <<sources, sourceOrder, scope, contracts, deps, pc, parseSuccessful, pos,
                    sub>>
    BY <1>11 DEF vars, objVars, astVars, ctlVars
  <2>2. pc = "check" =>
         \A i \in 1..Len(sourceOrder) : \A k \in DOMAIN Contracts(sourceOrder[i]) :
           ~Ahead(i, k)' => Checked(PointerTo(sourceOrder[i], k))
    BY <2>1 DEF InvChecked, Ahead
  <2>3. pc = "check" =>
         \A i \in 1..Len(sourceOrder') : \A k \in DOMAIN Contracts(sourceOrder[i])' :
           ~Ahead(i, k)' => Checked(PointerTo(sourceOrder[i], k))'
    BY <2>1, <2>2, CheckedBehind
  <2>4. \A c : Checked(c) => Checked(c)'
    BY <2>1, CheckedSame
  <2>5. OrderedContracts' = OrderedContracts
    BY <2>1, SameContracts
  <2> QED
    BY <2>1, <2>3, <2>4, <2>5 DEF InvChecked
<1> QED
  BY <1>1, <1>2, <1>3, <1>4, <1>5, <1>6, <1>7, <1>8, <1>9, <1>10, <1>11, Kinds
     DEF PhaseStep

-----------------------------------------------------------------------------
(* The recursion of compileContract.                                       *)

LEMMA ConcreteSame ==
    ASSUME UNCHANGED <<sources, sourceOrder, scope, abstract>>
    PROVE  Concrete' <=> Concrete
<1>1. /\ OrderedContracts' = OrderedContracts
      /\ \A d : DefinitionOf(d)' = DefinitionOf(d)
  BY SameContracts
<1>2. \A c, names : Denoted(c, names)' = Denoted(c, names)
  BY DEF Denoted, ContractNamed
<1>3. UniqueNames' <=> UniqueNames
  BY <1>1 DEF UniqueNames
<1> QED
  BY <1>1, <1>2, <1>3 DEF Concrete

\* When the loop over the dependencies of a contract is through, everything
\* its code creates is compiled.
LEMMA BodyCompiles ==
    ASSUME IInv, InvRecorded, InvChecked, InvFrames, Concrete,
           pc = "compile", calls # <<>>, Head(calls).todo = {}
    PROVE  LET c == Head(calls).contract IN
           /\ c \in OrderedContracts
           /\ contracts[DefinitionOf(c).name].contract = c
           /\ Denoted(c, DefinitionOf(c).creates) \subseteq compiled
           /\ Created(c) \subseteq compiled
<1> DEFINE c == Head(calls).contract
           n == DefinitionOf(c).name
           O == OrderedContracts
<1>1. c \in O /\ parseSuccessful
  BY BodyListed DEF IInv, InvControl
<1>2. Checked(c)
  BY <1>1 DEF InvChecked
<1>3. contracts[n].contract = c
  BY <1>1, <1>2 DEF Checked, Named, Concrete, UniqueNames
<1>4. calls[1] = Head(calls) /\ 1 \in 1..Len(calls)
  BY DEF IInv, InvCompile
<1> HIDE DEF O
<1>5. \A d \in O : <<c, d>> \in deps => d \in compiled \cup abstract
  <2>1. FramesSettled(calls, compiled)
    BY DEF InvFrames
  <2> QED
    BY <1>4, <2>1 DEF FramesSettled, Settled, O
<1>6. deps \subseteq O \X O /\ bases \subseteq O \X O
  BY DEF IInv, InvAst, O
<1> HIDE DEF c
<1>7. Denoted(c, DefinitionOf(c).creates) \subseteq compiled
  <2> SUFFICES ASSUME NEW d \in Denoted(c, DefinitionOf(c).creates) PROVE d \in compiled
    OBVIOUS
  <2>1. <<c, d>> \in deps
    BY <1>2 DEF Checked, Creations
  <2>2. d \in O /\ d \notin abstract
    BY <1>1, <1>6, <2>1 DEF Concrete, O
  <2> QED
    BY <1>5, <2>1, <2>2
<1>8. \A b \in BasesOf(c) : Denoted(b, DefinitionOf(b).creates) \subseteq compiled
  <2> SUFFICES ASSUME NEW b \in BasesOf(c), b # c
               PROVE  Denoted(b, DefinitionOf(b).creates) \subseteq compiled
    BY <1>7
  <2>1. <<c, b>> \in bases
    BY <1>6 DEF BasesOf
  <2>2. b \in O /\ <<c, b>> \in deps
    BY <1>6, <2>1 DEF InvRecorded
  <2>3. CASE b \in abstract
    <3>1. DefinitionOf(b).creates = {}
      BY <2>2, <2>3 DEF InvRecorded, Concrete, O
    <3> QED
      BY <3>1 DEF Denoted
  <2>4. CASE b \in compiled
    BY <2>4 DEF InvFrames, ClosedUnderCreation
  <2> QED
    BY <1>5, <2>2, <2>3, <2>4
<1>9. Created(c) \subseteq compiled
  BY <1>8 DEF Created
<1> QED
  BY <1>1, <1>3, <1>7, <1>9 DEF c, O

LEMMA EnterSettled ==
    ASSUME IInv, NEW c \in OrderedContracts
    PROVE  FramesSettled(EnterContract(c), compiled)
<1> DEFINE todo == {e[2] : e \in {x \in deps : x[1] = c}}
           f == [contract |-> c, todo |-> todo]
<1>1. CASE EnterContract(c) = <<>>
  BY <1>1 DEF FramesSettled
<1>2. CASE EnterContract(c) = <<f>>
  <2>1. \A d : <<c, d>> \in deps => d \in todo
    OBVIOUS
  <2> HIDE DEF todo
  <2>2. Len(<<f>>) = 1 /\ <<f>>[1] = f
    OBVIOUS
  <2>3. \A d : <<<<f>>[1].contract, d>> \in deps => d \in <<f>>[1].todo
    BY <2>1, <2>2
  <2> QED
    BY <1>2, <2>2, <2>3 DEF FramesSettled, Settled
<1> QED
  BY <1>1, <1>2 DEF EnterContract

LEMMA DependencySettled ==
    ASSUME IInv, FramesSettled(calls, compiled), pc = "compile", calls # <<>>,
           NEW d \in Head(calls).todo
    PROVE  FramesSettled(EnterContract(d) \o
                  <<[contract |-> Head(calls).contract,
                     todo |-> Head(calls).todo \ {d}]>> \o Tail(calls), compiled)
<1> DEFINE h == Head(calls)
           t == Tail(calls)
           f == [contract |-> h.contract, todo |-> h.todo \ {d}]
           g == [contract |-> d, todo |-> {e[2] : e \in {x \in deps : x[1] = d}}]
<1>1. calls \in Seq(CallFrame) /\ h \in CallFrame /\ t \in Seq(CallFrame)
  BY DEF IInv, InvCompile
<1>2. d \in OrderedContracts /\ f \in CallFrame
  BY <1>1 DEF CallFrame
<1>3. g \in CallFrame
  BY <1>2 DEF CallFrame, IInv, InvAst
<1>4. /\ Len(t) = Len(calls) - 1 /\ Len(calls) \in Nat \ {0} /\ calls[1] = h
      /\ \A i \in 1..Len(t) : t[i] = calls[i + 1]
  BY <1>1
<1>5. \A e : <<d, e>> \in deps => e \in g.todo
  OBVIOUS
<1>6. /\ f.contract = h.contract /\ f.todo = h.todo \ {d} /\ g.contract = d
  OBVIOUS
<1>7. \/ EnterContract(d) = <<>> /\ d \in compiled \cup abstract
      \/ EnterContract(d) = <<g>>
  BY DEF EnterContract
<1>8. \A i \in 1..Len(calls) : \A e \in OrderedContracts :
         <<calls[i].contract, e>> \in deps =>
           \/ e \in calls[i].todo \cup compiled \cup abstract
           \/ i > 1 /\ e = calls[i - 1].contract
  BY DEF FramesSettled, Settled
<1> HIDE DEF h, t, f, g
<1> DEFINE s == <<f>> \o t
<1>9. /\ s \in Seq(CallFrame) /\ Len(s) = Len(calls) /\ s[1] = f
      /\ \A i \in 2..Len(s) : s[i] = calls[i]
  <2>1. <<f>> \in Seq(CallFrame) /\ Len(<<f>>) = 1 /\ <<f>>[1] = f
    BY <1>2
  <2>2. /\ s \in Seq(CallFrame) /\ Len(s) = 1 + Len(t)
        /\ \A i \in 1..Len(s) : s[i] = IF i <= 1 THEN <<f>>[i] ELSE t[i - 1]
    BY <1>1, <2>1, ConcatProperties
  <2> HIDE DEF s
  <2>3. \A i \in 2..Len(s) : s[i] = calls[i]
    BY <1>4, <2>2
  <2> QED
    BY <1>4, <2>1, <2>2, <2>3
<1> HIDE DEF s
<1>10. \A i \in 1..Len(s) : s[i].contract = calls[i].contract
  BY <1>4, <1>6, <1>9
<1>11. \A i \in 1..Len(s) : \A e \in OrderedContracts :
         <<s[i].contract, e>> \in deps =>
           \/ e \in s[i].todo \cup compiled \cup abstract
           \/ i > 1 /\ e = s[i - 1].contract
           \/ i = 1 /\ e = d
  <2> SUFFICES ASSUME NEW i \in 1..Len(s), NEW e \in OrderedContracts,
                      <<s[i].contract, e>> \in deps
               PROVE  \/ e \in s[i].todo \cup compiled \cup abstract
                      \/ i > 1 /\ e = s[i - 1].contract
                      \/ i = 1 /\ e = d
    OBVIOUS
  <2>1. \/ e \in calls[i].todo \cup compiled \cup abstract
        \/ i > 1 /\ e = calls[i - 1].contract
    BY <1>8, <1>9, <1>10
  <2>2. CASE i = 1
    BY <1>4, <1>6, <1>9, <2>1, <2>2
  <2>3. CASE i # 1
    <3>1. i - 1 \in 1..Len(s) /\ i > 1
      BY <1>9, <1>4, <2>3
    <3>2. s[i] = calls[i] /\ s[i - 1].contract = calls[i - 1].contract
      BY <1>4, <1>9, <1>10, <3>1
    <3> QED
      BY <2>1, <3>1, <3>2
  <2> QED
    BY <2>2, <2>3
<1>12. CASE EnterContract(d) = <<>> /\ d \in compiled \cup abstract
  <2>1. EnterContract(d) \o <<f>> \o t = s
    BY <1>2, <1>9, <1>12 DEF s
  <2>2. FramesSettled(s, compiled)
    BY <1>11, <1>12 DEF FramesSettled, Settled
  <2> QED
    BY <2>1, <2>2 DEF h, t, f
<1>13. CASE EnterContract(d) = <<g>>
  <2> DEFINE r == <<g>> \o s
  <2>1. EnterContract(d) \o <<f>> \o t = r
    <3>1. <<f>> \in Seq(CallFrame) /\ <<g>> \in Seq(CallFrame)
      BY <1>2, <1>3
    <3>2. (<<g>> \o <<f>>) \o t = <<g>> \o (<<f>> \o t)
      BY <1>1, <3>1, ConcatAssociative
    <3> QED
      BY <1>13, <3>2 DEF s
  <2>2. <<g>> \in Seq(CallFrame) /\ Len(<<g>>) = 1 /\ <<g>>[1] = g
    BY <1>3
  <2>3. /\ Len(r) = 1 + Len(s)
        /\ \A i \in 1..Len(r) : r[i] = IF i <= 1 THEN <<g>>[i] ELSE s[i - 1]
    BY <1>9, <2>2, ConcatProperties
  <2> HIDE DEF r
  <2>4. r[1] = g /\ \A i \in 2..Len(r) : r[i] = s[i - 1] /\ i - 1 \in 1..Len(s)
    BY <1>4, <1>9, <2>2, <2>3
  <2>5. ASSUME NEW i \in 1..Len(r), NEW e \in OrderedContracts, <<r[i].contract, e>> \in deps
        PROVE  Settled(r, compiled, i, e)
    <3>1. CASE i = 1
      BY <1>5, <1>6, <2>4, <2>5, <3>1 DEF Settled
    <3>2. CASE i # 1
      <4>0. i \in 2..Len(r) /\ i > 1
        BY <1>4, <1>9, <2>3, <3>2
      <4>1. r[i] = s[i - 1] /\ i - 1 \in 1..Len(s)
        BY <2>4, <4>0
      <4>2. \/ e \in s[i - 1].todo \cup compiled \cup abstract
            \/ i - 1 > 1 /\ e = s[(i - 1) - 1].contract
            \/ i - 1 = 1 /\ e = d
        BY <1>11, <2>5, <4>1
      <4>3. CASE e \in s[i - 1].todo \cup compiled \cup abstract
        BY <4>1, <4>3 DEF Settled
      <4>4. CASE i - 1 > 1 /\ e = s[(i - 1) - 1].contract
        <5>1. i - 1 \in 2..Len(r)
          BY <1>4, <1>9, <2>3, <4>0, <4>4
        <5>2. r[i - 1] = s[(i - 1) - 1]
          BY <2>4, <5>1
        <5> QED
          BY <4>0, <4>4, <5>2 DEF Settled
      <4>5. CASE i - 1 = 1 /\ e = d
        <5>1. r[i - 1] = g
          BY <2>4, <4>5
        <5> QED
          BY <1>6, <4>0, <4>5, <5>1 DEF Settled
      <4> QED
        BY <4>2, <4>3, <4>4, <4>5
    <3> QED
      BY <3>1, <3>2
  <2>6. FramesSettled(r, compiled)
    BY <2>5 DEF FramesSettled
  <2> QED
    BY <2>1, <2>6 DEF h, t, f
<1> QED
  BY <1>7, <1>12, <1>13

LEMMA BodySettled ==
    ASSUME IInv, InvRecorded, InvChecked, InvFrames, Concrete,
           pc = "compile", calls # <<>>, Head(calls).todo = {}
    PROVE  LET done == compiled \cup {contracts[DefinitionOf(Head(calls).contract).name].contract}
           IN FramesSettled(Tail(calls), done) /\ ClosedUnderCreation(done)
<1> DEFINE c == Head(calls).contract
           done == compiled \cup {c}
           t == Tail(calls)
<1>1. /\ c \in OrderedContracts
      /\ contracts[DefinitionOf(c).name].contract = c
      /\ Denoted(c, DefinitionOf(c).creates) \subseteq compiled
  BY BodyCompiles
<1>2. FramesSettled(calls, compiled) /\ ClosedUnderCreation(compiled)
  BY DEF InvFrames
<1>3. calls \in Seq(CallFrame)
  BY DEF IInv, InvCompile
<1>4. /\ Len(t) = Len(calls) - 1 /\ Len(calls) \in Nat \ {0} /\ calls[1].contract = c
      /\ \A i \in 1..Len(t) : t[i] = calls[i + 1]
  BY <1>3
<1> HIDE DEF c, t
<1>5. ClosedUnderCreation(done)
  BY <1>1, <1>2 DEF ClosedUnderCreation
<1>6. ASSUME NEW i \in 1..Len(t), NEW d \in OrderedContracts, <<t[i].contract, d>> \in deps
      PROVE  Settled(t, done, i, d)
  <2>1. i + 1 \in 1..Len(calls) /\ t[i] = calls[i + 1] /\ (i + 1) - 1 = i /\ i + 1 > 1
    BY <1>4
  <2>2. \/ d \in calls[i + 1].todo \cup compiled \cup abstract
        \/ d = calls[i].contract
    BY <1>2, <1>6, <2>1 DEF FramesSettled, Settled
  <2>3. CASE i = 1
    BY <1>4, <2>1, <2>2, <2>3 DEF Settled
  <2>4. CASE i # 1
    <3>1. i - 1 \in 1..Len(t) /\ i > 1
      BY <1>4, <2>4
    <3>2. t[i - 1] = calls[i]
      BY <1>4, <3>1
    <3> QED
      BY <2>1, <2>2, <3>1, <3>2 DEF Settled
  <2> QED
    BY <2>3, <2>4
<1>7. FramesSettled(t, done)
  BY <1>6 DEF FramesSettled
<1> QED
  BY <1>1, <1>5, <1>7 DEF c, t

LEMMA FramesPart ==
    ASSUME IInv, InvRecorded, InvChecked, InvFrames, [Next]_vars PROVE InvFrames'
<1>0. then \in {"idle", "compile"} /\ (pc # "compile" => calls = <<>> /\ compiled = {})
  BY DEF IInv, InvControl, InvCompile
<1>1. ASSUME pc # "compile", calls' = calls, compiled' = compiled PROVE InvFrames'
  <2>1. calls' = <<>> /\ compiled' = {}
    BY <1>0, <1>1
  <2> QED
    BY <2>1 DEF InvFrames, FramesSettled, ClosedUnderCreation
<1>2. CASE FreshStart \/ Entered \/ Quiet
  <2>1. pc = "idle" /\ UNCHANGED <<calls, compiled>>
    BY <1>2 DEF FreshStart, Entered, Quiet
  <2> QED
    BY <1>1, <2>1
<1>3. CASE ParseSource \/ ParsingDone \/ SortStep \/ SortDone
  <2>1. pc \in {"parse", "sort"} /\ UNCHANGED <<calls, compiled>>
    BY <1>3 DEF ParseSource, ParsingDone, SortStep, SortRoot, SortImport, SortLeave,
       SortDone, SortRest, genVars
  <2> QED
    BY <1>1, <2>1
<1>4. ASSUME UNCHANGED <<sources, sourceOrder, scope, deps, abstract, pc>>,
             pc = "compile" /\ Concrete =>
               FramesSettled(calls', compiled') /\ ClosedUnderCreation(compiled')
      PROVE  InvFrames'
  <2> SUFFICES ASSUME pc' = "compile", Concrete'
               PROVE  (FramesSettled(calls, compiled) /\ ClosedUnderCreation(compiled))'
    BY DEF InvFrames
  <2>1. Concrete
    BY <1>4, ConcreteSame
  <2>2. FramesSettled(calls', compiled') /\ ClosedUnderCreation(compiled')
    BY <1>4, <2>1
  <2>3. /\ \A c, names : Denoted(c, names)' = Denoted(c, names)
        /\ OrderedContracts' = OrderedContracts
        /\ \A d : DefinitionOf(d)' = DefinitionOf(d)
    BY <1>4, SameContracts DEF Denoted, ContractNamed
  <2> QED
    BY <1>4, <2>2, <2>3 DEF FramesSettled, Settled, ClosedUnderCreation
<1>5. CASE PhaseStep
  <2>1. /\ UNCHANGED <<calls, compiled>>
        /\ pc # "compile" \/ NextSource
    BY <1>5, Zenon DEF PhaseStep, NextPhase, NextSource, CheckSyntax, AnalyseDocStrings,
       RegisterDeclarations, PerformImport, ResolveNames, CheckLibraryNameClashes,
       CheckTypes, ParseDone, PhaseRest, Phase, genVars
  <2>2. CASE NextSource
    <3>1. UNCHANGED <<sources, sourceOrder, scope, deps, abstract, pc>>
      BY <2>2, Zenon DEF NextSource, PhaseRest, Stay, astVars
    <3> QED
      BY <1>4, <2>1, <3>1 DEF InvFrames
  <2> QED
    BY <1>1, <2>1, <2>2
<1>6. CASE GenStep
  <2>1. /\ pc = "compile" /\ UNCHANGED <<sources, sourceOrder, scope, deps, abstract>>
    BY <1>6, Zenon DEF GenStep, CompileNext, CompileDependency, CompileBody, CompileDone,
       GenRest, astVars
  <2>2. CASE pc' # "compile"
    BY <2>2 DEF InvFrames
  <2>3. ASSUME pc' = "compile", Concrete
        PROVE  FramesSettled(calls', compiled') /\ ClosedUnderCreation(compiled')
    <3>0. FramesSettled(calls, compiled) /\ ClosedUnderCreation(compiled)
      BY <2>1, <2>3 DEF InvFrames
    <3>1. CASE CompileNext
      <4>1. /\ calls' = EnterContract(Here) /\ compiled' = compiled
            /\ Here \in OrderedContracts
        BY <3>1, HereOrdered DEF CompileNext
      <4> QED
        BY <3>0, <4>1, EnterSettled
    <3>2. CASE CompileDependency
      <4>1. PICK d \in Head(calls).todo :
               calls' = EnterContract(d) \o
                  <<[contract |-> Head(calls).contract,
                     todo |-> Head(calls).todo \ {d}]>> \o Tail(calls)
        BY <3>2 DEF CompileDependency
      <4>2. calls # <<>> /\ compiled' = compiled
        BY <3>2 DEF CompileDependency
      <4> QED
        BY <2>1, <3>0, <4>1, <4>2, DependencySettled
    <3>3. CASE CompileBody
      <4> DEFINE n == DefinitionOf(Head(calls).contract).name
      <4>1. /\ calls # <<>> /\ Head(calls).todo = {}
            /\ \/ pc' = "idle"
               \/ compiled' = compiled \cup {contracts[n].contract} /\ calls' = Tail(calls)
        BY <3>3, Zenon DEF CompileBody, CompileReturn
      <4>2. compiled' = compiled \cup {contracts[n].contract} /\ calls' = Tail(calls)
        BY <2>3, <4>1
      <4> QED
        BY <2>1, <2>3, <4>1, <4>2, BodySettled
    <3>4. CASE CompileDone
      BY <2>3, <3>4 DEF CompileDone, CompileReturn
    <3> QED
      BY <1>6, <3>1, <3>2, <3>3, <3>4 DEF GenStep
  <2> QED
    BY <1>4, <2>1, <2>2, <2>3
<1>7. CASE UNCHANGED vars
  <2>1. UNCHANGED <<sources, sourceOrder, scope, deps, abstract, pc, calls, compiled>>
    BY <1>7 DEF vars, objVars, astVars, ctlVars, genVars
  <2> QED
    BY <1>4, <2>1 DEF InvFrames
<1> QED
  BY <1>2, <1>3, <1>5, <1>6, <1>7, Kinds

\* A call made while nothing is in progress starts with a result of its own.
LEMMA CallResult ==
    ASSUME IInv, Call PROVE result' \in {"none", "true", "false"}
<1>1. CASE \/ \E p \in Path, t \in Text, lib \in LibraryFlags : AddSource(p, t, lib)
           \/ \E t \in Text : SetSource(t)
           \/ \E keep \in BOOLEAN : ResetSources(keep)
           \/ \E r \in Remapping : SetRemappings(r)
           \/ Link
           \/ \E n \in Queried : SourceMapping(n) \/ Metadata(n)
  BY <1>1, Zenon DEF AddSource, SetSource, ResetSources, SetRemappings, Link,
     SourceMapping, Metadata
<1>2. CASE \/ Parse
           \/ \E opt \in BOOLEAN : Compile(opt)
           \/ \E translates \in BOOLEAN : PrepareFormalAnalysis(translates)
  BY <1>2, Zenon DEF Parse, Compile, StartParse, PrepareFormalAnalysis
<1> QED
  BY <1>1, <1>2 DEF Call

LEMMA ResultPart == ASSUME CInv, [Next]_vars PROVE InvResult'
<1>0. /\ IInv /\ InvRecorded /\ InvChecked /\ InvFrames /\ InvResult
      /\ then \in {"idle", "compile"}
  BY DEF CInv, IInv, InvControl
<1>1. CASE Call
  BY <1>0, <1>1, CallResult DEF InvResult
<1>2. CASE UNCHANGED vars
  <2>1. UNCHANGED <<sources, sourceOrder, scope, abstract, pc, result>>
    BY <1>2 DEF vars, objVars, astVars, ctlVars
  <2> QED
    BY <1>0, <2>1, ConcreteSame DEF InvResult
<1>3. CASE Step
  <2>1. result # "InternalCompilerError"
    <3>1. pc # "idle"
      BY <1>3 DEF Step, ParseSource, ParsingDone, SortRoot, SortImport, SortLeave,
         SortDone, NextPhase, NextSource, CheckSyntax, AnalyseDocStrings,
         RegisterDeclarations, PerformImport, ResolveNames, CheckLibraryNameClashes,
         CheckTypes, ParseDone, CompileNext, CompileDependency, CompileBody, CompileDone,
         Phase
    <3> QED
      BY <1>0, <3>1 DEF InvResult
  <2>2. CASE ~CompileBody
    <3>1. result' = result \/ result' \in {"true", "false"}
      BY <1>3, <2>2, Zenon DEF Step, ParseSource, ParsingDone, SortRoot, SortImport,
         SortLeave, SortDone, SortRest, NextPhase, NextSource, CheckSyntax,
         AnalyseDocStrings, RegisterDeclarations, PerformImport, ResolveNames,
         CheckLibraryNameClashes, CheckTypes, ParseDone, CompileNext, CompileDependency,
         CompileDone, CompileReturn, Return, Stay
    <3> QED
      BY <2>1, <3>1 DEF InvResult
  <2>3. CASE CompileBody
    <3>1. /\ pc = "compile" /\ calls # <<>> /\ Head(calls).todo = {}
          /\ UNCHANGED <<sources, sourceOrder, scope, abstract>>
          /\ \/ result' = result
             \/ pc' = "idle" /\ ~(Created(Head(calls).contract) \subseteq compiled)
      BY <2>3, Zenon DEF CompileBody, CompileReturn, GenRest, astVars
    <3>2. CASE result' = result
      BY <2>1, <3>2 DEF InvResult
    <3>3. CASE pc' = "idle" /\ ~(Created(Head(calls).contract) \subseteq compiled)
      <4>1. ~Concrete
        BY <1>0, <3>1, <3>3, BodyCompiles
      <4> QED
        BY <3>1, <3>3, <4>1, ConcreteSame DEF InvResult
    <3> QED
      BY <3>1, <3>2, <3>3
  <2> QED
    BY <2>2, <2>3
<1> QED
  BY <1>1, <1>2, <1>3 DEF Next

-----------------------------------------------------------------------------
(* The theorems.                                                           *)

LEMMA InitCInv == Init => CInv
<1> SUFFICES ASSUME Init PROVE CInv
  OBVIOUS
<1>1. /\ bases = {} /\ abstract = {} /\ pc = "idle" /\ parseSuccessful = FALSE
      /\ result = "none"
  BY DEF Init
<1> QED
  BY <1>1, InitIInv DEF CInv, InvRecorded, InvChecked, InvFrames, InvResult

LEMMA CInvStep == CInv /\ [Next]_vars => CInv'
BY IInvStep, RecordedPart, CheckedPart, FramesPart, ResultPart DEF CInv

\* What type checking records about the contracts stays true until their
\* code is generated.
THEOREM RecordedInvariance == Spec => []CInv
BY InitCInv, CInvStep, PTL DEF Spec

\* With unique names, abstract contracts that create nothing and nothing
\* that creates an abstract contract, compile() never meets a contract that
\* its caller creates and that has no code yet.
THEOREM ConcreteContractsAlwaysCompiled == Spec => []ConcreteContractsCompiled
<1>1. CInv => ConcreteContractsCompiled
  BY DEF CInv, InvResult, Concrete, ConcreteContractsCompiled, CreatedContractsCompiled
<1> QED
  BY <1>1, RecordedInvariance, PTL

-----------------------------------------------------------------------------
(* What m_contracts keeps from one call to the next, as long as the        *)
(* remappings are not changed on the way.                                  *)
(*                                                                         *)
(* parse() does not clear m_contracts and compile() does not clear the     *)
(* objects, so an entry can mix what several calls have written.  All of   *)
(* it belongs to contracts of that name in reachable sources, though: once *)
(* a contract is listed, all sources are there with all their imports, so  *)
(* another parse() reads no new source and reaches the same ones.  Under   *)
(* another remapping that is no longer so.                                 *)

KeepsRemappings == [][UNCHANGED remap]_vars

\* A contract called n that the user's sources reach, whatever tree it is
\* taken from.
Belongs(c, n) ==
    /\ c.path \in Reachable(Roots)
    /\ c.idx \in DOMAIN Contracts(c.path)
    /\ Contracts(c.path)[c.idx].name = n

EntryBelongs(e, n) ==
    /\ Belongs(e.contract, n)
    /\ e.code # NoCode => Belongs(e.code.of, n)
    /\ e.doc # NoPointer => Belongs(e.doc, n)

\* All sources have been read, and m_sourceOrder lists the reachable ones.
AllRead ==
    /\ \A q \in DOMAIN sources : Usable(q) /\ ImportTargets(q) \subseteq DOMAIN sources
    /\ {sourceOrder[i] : i \in 1..Len(sourceOrder)} = Reachable(Roots)

InvEntries ==
    /\ DOMAIN contracts # {} => AllRead
    /\ \A n \in DOMAIN contracts : EntryBelongs(contracts[n], n)

KInv == OInv /\ InvEntries

-----------------------------------------------------------------------------
(* Steps that keep the texts.                                              *)

SameTexts ==
    /\ remap' = remap /\ DOMAIN sources' = DOMAIN sources
    /\ \A q \in DOMAIN sources : /\ sources'[q].text = sources[q].text
                                 /\ sources'[q].isLibrary = sources[q].isLibrary

LEMMA TextsKept ==
    ASSUME SameTexts
    PROVE  /\ \A p \in DOMAIN sources : /\ UnitOf(p)' = UnitOf(p)
                                        /\ Contracts(p)' = Contracts(p)
                                        /\ ImportTargets(p)' = ImportTargets(p)
           /\ Reachable(Roots)' = Reachable(Roots)
<1>1. \A p \in DOMAIN sources : UnitOf(p)' = UnitOf(p)
  BY DEF SameTexts, UnitOf
<1>2. \A p \in DOMAIN sources : /\ Contracts(p)' = Contracts(p)
                                /\ ImportTargets(p)' = ImportTargets(p)
  BY <1>1 DEF SameTexts, Contracts, ImportTargets, Target, Imports
<1>3. Roots' = Roots
  BY DEF SameTexts, Roots
<1>4. \A C : ImportClosed(C)' = ImportClosed(C)
  BY <1>2 DEF SameTexts, ImportClosed
<1>5. Reachable(Roots)' = Reachable(Roots)
  BY <1>3, <1>4 DEF Reachable
<1> QED
  BY <1>1, <1>2, <1>5

LEMMA BelongsKept ==
    ASSUME IInv, AllRead, SameTexts PROVE \A c, n : Belongs(c, n) => Belongs(c, n)'
<1>1. \A q \in Reachable(Roots) : q \in DOMAIN sources
  BY DEF AllRead, IInv, InvOrder, Usable
<1> QED
  BY <1>1, TextsKept DEF Belongs

LEMMA EntriesKept ==
    ASSUME IInv, InvEntries, SameTexts, SameEntries,
           DOMAIN contracts # {} => AllRead'
    PROVE  InvEntries'
<1>1. DOMAIN contracts' = DOMAIN contracts
  BY DEF SameEntries
<1>2. ASSUME NEW n \in DOMAIN contracts PROVE EntryBelongs(contracts[n], n)'
  <2>1. EntryBelongs(contracts[n], n) /\ AllRead
    BY <1>2 DEF InvEntries
  <2>2. EntryBelongs(contracts'[n], n)
    BY <1>2, <2>1 DEF EntryBelongs, SameEntries
  <2>3. \A c, m : Belongs(c, m) => Belongs(c, m)'
    BY <2>1, BelongsKept
  <2> QED
    BY <2>2, <2>3 DEF EntryBelongs
<1> QED
  BY <1>1, <1>2 DEF InvEntries

\* Nothing has changed that an entry or its sources depend on.
LEMMA EntriesSame ==
    ASSUME IInv, InvEntries, UNCHANGED <<sources, sourceOrder, remap>>, SameEntries
    PROVE  InvEntries'
<1>1. SameTexts
  BY DEF SameTexts
<1>2. AllRead => AllRead'
  <2>1. /\ \A p : ImportTargets(p)' = ImportTargets(p) /\ Usable(p)' = Usable(p)
        /\ \A S : Reachable(S)' = Reachable(S)
        /\ Roots' = Roots
    BY SameGraph
  <2> QED
    BY <2>1 DEF AllRead
<1> QED
  BY <1>1, <1>2, EntriesKept DEF InvEntries

LEMMA ContractsUntouched == ASSUME contracts' = contracts PROVE SameEntries
BY DEF SameEntries

\* Once everything is read, parsing a source again adds no source.
LEMMA ParseSourceEntries ==
    ASSUME IInv, InvEntries, ParseSource, remap' = remap PROVE InvEntries'
<1>0. contracts' = contracts /\ sourceOrder' = sourceOrder /\ pc = "parse"
  BY DEF ParseSource
<1>1. CASE DOMAIN contracts = {}
  BY <1>0, <1>1 DEF InvEntries
<1>2. CASE DOMAIN contracts # {}
  <2> DEFINE p == work[pos]
             missing == IF UnitOf(p).parse = "fatal" THEN {}
                        ELSE ImportTargets(p) \ DOMAIN sources
  <2>1. AllRead
    BY <1>2 DEF InvEntries
  <2>2. p \in DOMAIN sources /\ gen # 0
    <3>1. pos \in 1..Len(work)
      BY DEF ParseSource, IInv, InvSources
    <3> QED
      BY <1>0, <3>1 DEF IInv, InvSources, InvControl
  <2>3. UnitOf(p).parse # "fatal" /\ missing = {}
    BY <2>1, <2>2 DEF AllRead, Usable
  <2>4. PICK file \in [missing -> Text \cup {NotFound}] :
          sources' = [q \in DOMAIN sources \cup {r \in missing : file[r] # NotFound} |->
                IF q = p THEN Parsed(p)
                ELSE IF q \in {r \in missing : file[r] # NotFound}
                THEN [text |-> file[q], ast |-> NullAst, isLibrary |-> FALSE]
                ELSE sources[q]]
    BY Zenon DEF ParseSource
  <2> HIDE DEF missing
  <2>5. sources' = [q \in DOMAIN sources |-> IF q = p THEN Parsed(p) ELSE sources[q]]
    <3>1. {r \in missing : file[r] # NotFound} = {}
      BY <2>3
    <3> QED
      BY <2>4, <3>1
  <2>6. Parsed(p) = [text |-> sources[p].text, isLibrary |-> sources[p].isLibrary,
                     ast |-> gen]
    BY <2>3 DEF Parsed
  <2> HIDE DEF p
  <2>7. /\ SameTexts
        /\ \A q \in DOMAIN sources : sources[q].ast # NullAst => sources'[q].ast # NullAst
    BY <2>2, <2>5, <2>6 DEF SameTexts, NullAst
  <2>8. /\ \A q \in DOMAIN sources : /\ UnitOf(q)' = UnitOf(q)
                                     /\ ImportTargets(q)' = ImportTargets(q)
        /\ Reachable(Roots)' = Reachable(Roots)
    BY <2>7, TextsKept
  <2>9. DOMAIN sources' = DOMAIN sources
    BY <2>7 DEF SameTexts
  <2>10. \A q \in DOMAIN sources : Usable(q)'
    BY <2>1, <2>7, <2>8, <2>9 DEF AllRead, Usable
  <2>11. AllRead'
    BY <1>0, <2>1, <2>8, <2>9, <2>10 DEF AllRead
  <2> QED
    BY <1>0, <2>7, <2>11, ContractsUntouched, EntriesKept
<1> QED
  BY <1>1, <1>2

LEMMA SortDoneEntries ==
    ASSUME KInv, SortDone PROVE InvEntries'
<1>1. /\ pc = "sort" /\ pc' = "syntax" /\ UNCHANGED <<sources, remap, contracts>>
  BY DEF SortDone, SortRest
<1>2. TopologicalOrder' /\ IInv /\ InvEntries /\ IInv'
  BY SortDoneOrder, IInvStep DEF KInv, OInv, Next, Step
<1>3. SameTexts
  BY <1>1 DEF SameTexts
<1>4. \A p : ImportTargets(p)' = ImportTargets(p) /\ Usable(p)' = Usable(p)
  BY <1>1, SameGraph
<1>5. {sourceOrder'[i] : i \in 1..Len(sourceOrder')} = Reachable(Roots)'
  <2>1. DOMAIN sourceOrder' = 1..Len(sourceOrder')
    BY <1>2 DEF IInv, InvOrder
  <2> QED
    BY <1>1, <1>2, <2>1 DEF TopologicalOrder, OrderKnown
<1>6. DOMAIN contracts # {} => AllRead'
  BY <1>1, <1>2, <1>4, <1>5 DEF AllRead, InvEntries
<1> QED
  BY <1>1, <1>2, <1>3, <1>6, ContractsUntouched, EntriesKept

\* The contract that a phase has reached belongs under its name.
LEMMA OrderedBelongs ==
    ASSUME IInv, AllRead, NEW c \in OrderedContracts
    PROVE  Belongs(c, DefinitionOf(c).name)
<1>1. PICK i \in 1..Len(sourceOrder) : \E k \in DOMAIN Contracts(sourceOrder[i]) :
         c = PointerTo(sourceOrder[i], k)
  BY OrderedPointer
<1>2. PICK k \in DOMAIN Contracts(sourceOrder[i]) : c = PointerTo(sourceOrder[i], k)
  BY <1>1
<1>3. c.path = sourceOrder[i] /\ c.idx = k
  BY <1>2 DEF PointerTo
<1> QED
  BY <1>2, <1>3 DEF AllRead, Belongs, DefinitionOf

LEMMA ReadInPhase == ASSUME OInv, pc \in OrderKnown PROVE AllRead
<1>1. DOMAIN sourceOrder = 1..Len(sourceOrder)
  BY DEF OInv, IInv, InvOrder
<1> QED
  BY <1>1 DEF OInv, InvClosed, TopologicalOrder, AllRead

LEMMA ListingEntries ==
    ASSUME KInv, pc \in OrderKnown, UNCHANGED <<sources, sourceOrder, remap>>,
           NEW c \in OrderedContracts, contracts' = WithContract(c)
    PROVE  InvEntries'
<1> DEFINE n == DefinitionOf(c).name
<1>1. AllRead /\ IInv /\ InvEntries
  BY ReadInPhase DEF KInv, OInv
<1>2. Belongs(c, n)
  BY <1>1, OrderedBelongs
<1>3. SameTexts
  BY DEF SameTexts
<1>4. \A d, m : Belongs(d, m) => Belongs(d, m)'
  BY <1>1, <1>3, BelongsKept
<1>5. AllRead'
  <2>1. /\ \A p : ImportTargets(p)' = ImportTargets(p) /\ Usable(p)' = Usable(p)
        /\ \A S : Reachable(S)' = Reachable(S)
        /\ Roots' = Roots
    BY SameGraph
  <2> QED
    BY <1>1, <2>1 DEF AllRead
<1>6. /\ DOMAIN contracts' = DOMAIN contracts \cup {n}
      /\ \A m \in DOMAIN contracts : m # n => contracts'[m] = contracts[m]
      /\ contracts'[n].contract = c
      /\ \/ /\ n \in DOMAIN contracts
            /\ contracts'[n].code = contracts[n].code
            /\ contracts'[n].doc = contracts[n].doc
         \/ contracts'[n].code = NoCode /\ contracts'[n].doc = NoPointer
  BY DEF WithContract
<1> HIDE DEF n
<1>7. ASSUME NEW m \in DOMAIN contracts' PROVE EntryBelongs(contracts'[m], m)
  <2>1. CASE m = n
    BY <1>1, <1>2, <1>6, <2>1 DEF InvEntries, EntryBelongs
  <2>2. CASE m # n
    BY <1>1, <1>6, <1>7, <2>2 DEF InvEntries
  <2> QED
    BY <2>1, <2>2
<1>8. ASSUME NEW m \in DOMAIN contracts' PROVE EntryBelongs(contracts[m], m)'
  BY <1>4, <1>7 DEF EntryBelongs
<1> QED
  BY <1>5, <1>8 DEF InvEntries

LEMMA BodyEntries ==
    ASSUME KInv, CompileBody PROVE InvEntries'
<1>0. /\ IInv /\ InvEntries /\ pc = "compile" /\ calls # <<>>
      /\ UNCHANGED <<sources, sourceOrder, remap>>
  BY DEF KInv, OInv, CompileBody, GenRest
<1>1. CASE contracts' = contracts
  BY <1>0, <1>1, ContractsUntouched, EntriesSame
<1>2. CASE contracts' # contracts
  <2> DEFINE c == Head(calls).contract
             n == DefinitionOf(c).name
             code == [of |-> c, optimised |-> optimise, linked |-> FALSE]
  <2>1. contracts' = [contracts EXCEPT ![n] = WithCode(contracts[n], code)]
    BY <1>2, Zenon DEF CompileBody
  <2>2. c \in OrderedContracts /\ n \in DOMAIN contracts
    BY <1>0, BodyListed
  <2>3. AllRead
    BY <1>0, <2>2 DEF InvEntries
  <2>4. Belongs(c, n)
    BY <1>0, <2>2, <2>3, OrderedBelongs
  <2>5. code.of = c
    OBVIOUS
  <2> HIDE DEF c, n, code
  <2>6. /\ DOMAIN contracts' = DOMAIN contracts
        /\ \A m \in DOMAIN contracts : m # n => contracts'[m] = contracts[m]
        /\ contracts'[n].contract = contracts[n].contract
        /\ contracts'[n].code = code
        /\ contracts'[n].doc = contracts[n].doc
    BY <2>1, <2>2 DEF WithCode
  <2>7. ASSUME NEW m \in DOMAIN contracts' PROVE EntryBelongs(contracts'[m], m)
    <3>1. EntryBelongs(contracts[m], m)
      BY <1>0, <2>6, <2>7 DEF InvEntries
    <3>2. CASE m = n
      BY <2>4, <2>5, <2>6, <3>1, <3>2 DEF EntryBelongs
    <3>3. CASE m # n
      BY <2>6, <2>7, <3>1, <3>3
    <3> QED
      BY <3>2, <3>3
  <2>8. SameTexts
    BY <1>0 DEF SameTexts
  <2>9. \A d, m : Belongs(d, m) => Belongs(d, m)'
    BY <1>0, <2>3, <2>8, BelongsKept
  <2>10. ASSUME NEW m \in DOMAIN contracts' PROVE EntryBelongs(contracts[m], m)'
    BY <2>7, <2>9 DEF EntryBelongs
  <2>11. AllRead'
    <3>1. /\ \A p : ImportTargets(p)' = ImportTargets(p) /\ Usable(p)' = Usable(p)
          /\ \A S : Reachable(S)' = Reachable(S)
          /\ Roots' = Roots
      BY <1>0, SameGraph
    <3> QED
      BY <1>0, <2>3, <3>1 DEF AllRead
  <2> QED
    BY <2>10, <2>11 DEF InvEntries
<1> QED
  BY <1>1, <1>2

-----------------------------------------------------------------------------
(* The theorems.                                                           *)

LEMMA EntriesStep == ASSUME KInv, [Next]_vars, [UNCHANGED remap]_vars PROVE KInv'
<1>0. OInv' /\ IInv /\ InvEntries /\ OInv
  BY OrderStep DEF KInv, OInv
<1>r. remap' = remap
  BY DEF vars, objVars
<1> SUFFICES InvEntries'
  BY <1>0 DEF KInv
<1>1. CASE FreshStart
  BY <1>1 DEF FreshStart, EmptyMap, InvEntries
<1>2. CASE Entered
  BY <1>0, <1>2, ContractsUntouched, EntriesSame DEF Entered
<1>3. CASE Quiet
  BY <1>0, <1>r, <1>3, QuietKeepsContracts, EntriesSame DEF Quiet
<1>4. CASE ParseSource
  BY <1>0, <1>r, <1>4, ParseSourceEntries
<1>5. CASE ParsingDone \/ SortStep
  <2>1. UNCHANGED <<sources, sourceOrder, contracts>>
    BY <1>5, Zenon DEF ParsingDone, SortStep, SortRoot, SortImport, SortLeave, SortRest
  <2> QED
    BY <1>0, <1>r, <2>1, ContractsUntouched, EntriesSame
<1>6. CASE SortDone
  BY <1>6, SortDoneEntries
<1>7. CASE ResolveNames
  <2>1. /\ pc \in OrderKnown /\ UNCHANGED <<sources, sourceOrder>>
        /\ Here \in OrderedContracts
        /\ contracts' = contracts \/ contracts' = WithContract(Here)
    BY <1>0, <1>7, ResolveCases, HereOrdered DEF OrderKnown
  <2>2. CASE contracts' = contracts
    BY <1>0, <1>r, <2>1, <2>2, ContractsUntouched, EntriesSame
  <2>3. CASE contracts' = WithContract(Here)
    BY <1>r, <2>1, <2>3, ListingEntries
  <2> QED
    BY <2>1, <2>2, <2>3
<1>8. CASE CheckTypes
  <2>1. /\ pc \in OrderKnown /\ UNCHANGED <<sources, sourceOrder>>
        /\ Here \in OrderedContracts
        /\ contracts' = WithContract(Here)
    BY <1>0, <1>8, CheckCases, HereOrdered DEF OrderKnown
  <2> QED
    BY <1>r, <2>1, ListingEntries
<1>9. CASE CompileBody
  BY <1>9, BodyEntries
<1>10. CASE (PhaseStep \/ GenStep) /\ ~ResolveNames /\ ~CheckTypes /\ ~CompileBody
  <2>1. UNCHANGED <<sources, sourceOrder, contracts>>
    BY <1>10, Zenon DEF PhaseStep, GenStep, NextPhase, NextSource, CheckSyntax,
       AnalyseDocStrings, RegisterDeclarations, PerformImport, CheckLibraryNameClashes,
       ParseDone, PhaseRest, CompileNext, CompileDependency, CompileDone, GenRest
  <2> QED
    BY <1>0, <1>r, <2>1, ContractsUntouched, EntriesSame
<1>11. CASE UNCHANGED vars
  <2>1. UNCHANGED <<sources, sourceOrder, contracts>>
    BY <1>11 DEF vars, objVars
  <2> QED
    BY <1>0, <1>r, <2>1, ContractsUntouched, EntriesSame
<1> QED
  BY <1>0, <1>1, <1>2, <1>3, <1>4, <1>5, <1>6, <1>7, <1>8, <1>9, <1>10, <1>11, Kinds

LEMMA InitEntries == Init => KInv
<1>1. Init => InvEntries
  BY DEF Init, EmptyMap, InvEntries
<1> QED
  BY <1>1, InitOrder DEF KInv

\* Everything an entry of m_contracts holds belongs to contracts of that
\* name in the reachable sources.
THEOREM EntriesInvariance == Spec /\ KeepsRemappings => []KInv
BY InitEntries, EntriesStep, PTL DEF Spec, KeepsRemappings

\* Two contracts that belong under the same name are the same node of the
\* same source when names are unique.
LEMMA UniqueNode ==
    ASSUME IInv, AllRead, UniqueNames, NEW n, NEW c, NEW d, Belongs(c, n), Belongs(d, n)
    PROVE  SameNode(c, d)
<1>1. ASSUME NEW e, Belongs(e, n)
      PROVE  /\ PointerTo(e.path, e.idx) \in OrderedContracts
             /\ DefinitionOf(PointerTo(e.path, e.idx)).name = n
  <2>1. PICK i \in 1..Len(sourceOrder) : sourceOrder[i] = e.path
    BY <1>1 DEF Belongs, AllRead
  <2>2. PointerTo(e.path, e.idx) \in OrderedContracts
    BY <1>1, <2>1, OrderedAt DEF Belongs
  <2> QED
    BY <1>1, <2>2 DEF Belongs, DefinitionOf, PointerTo
<1>2. PointerTo(c.path, c.idx) = PointerTo(d.path, d.idx)
  BY <1>1 DEF UniqueNames
<1> QED
  BY <1>2 DEF PointerTo, SameNode

\* As long as the remappings stay, object(n) is the code of the contract
\* that contractDefinition(n) returns if names are unique: after any number
\* of calls, also when another parse() failed since.
THEOREM ObjectAlwaysOfUniqueContract ==
    Spec /\ KeepsRemappings => []ObjectOfUniqueContract
<1>1. KInv => ObjectOfUniqueContract
  <2> SUFFICES ASSUME KInv, UniqueNames, NEW n \in DOMAIN contracts,
                      contracts[n].code # NoCode
               PROVE  SameNode(contracts[n].code.of, contracts[n].contract)
    BY DEF ObjectOfUniqueContract, ObjectOfContract
  <2>1. /\ AllRead /\ IInv
        /\ Belongs(contracts[n].code.of, n) /\ Belongs(contracts[n].contract, n)
    BY DEF KInv, OInv, InvEntries, EntryBelongs
  <2> QED
    BY <2>1, UniqueNode
<1> QED
  BY <1>1, EntriesInvariance, PTL

\* Likewise the cached interface and documentation.
THEOREM MetadataOfUniqueContract ==
    Spec /\ KeepsRemappings => [](UniqueNames => MetadataOfContract)
<1>1. KInv => (UniqueNames => MetadataOfContract)
  <2> SUFFICES ASSUME KInv, UniqueNames, NEW n \in DOMAIN contracts,
                      contracts[n].doc # NoPointer
               PROVE  SameNode(contracts[n].doc, contracts[n].contract)
    BY DEF MetadataOfContract
  <2>1. /\ AllRead /\ IInv
        /\ Belongs(contracts[n].doc, n) /\ Belongs(contracts[n].contract, n)
    BY DEF KInv, OInv, InvEntries, EntryBelongs
  <2> QED
    BY <2>1, UniqueNode
<1> QED
  BY <1>1, EntriesInvariance, PTL

\* After a successful parse(), whatever calls came before, no entry of
\* m_contracts dangles, names unique or not.
THEOREM ContractsLiveAfterSuccess ==
    Spec /\ KeepsRemappings => [](parseSuccessful => ContractsLive)
<1>1. KInv /\ CInv => (parseSuccessful => ContractsLive)
  <2> SUFFICES ASSUME KInv, CInv, parseSuccessful, NEW n \in DOMAIN contracts
               PROVE  Live(contracts[n].contract)
    BY DEF ContractsLive
  <2> DEFINE d == contracts[n].contract
             c == PointerTo(d.path, d.idx)
  <2>1. AllRead /\ IInv /\ Belongs(d, n) /\ InvChecked
    BY DEF KInv, OInv, CInv, InvEntries, EntryBelongs
  <2>2. PICK i \in 1..Len(sourceOrder) : sourceOrder[i] = d.path
    BY <2>1 DEF Belongs, AllRead
  <2>3. c \in OrderedContracts
    BY <2>1, <2>2, OrderedAt DEF Belongs
  <2>4. DefinitionOf(c).name = n
    BY <2>1 DEF Belongs, DefinitionOf, PointerTo
  <2>5. d \in OrderedContracts
    BY <2>1, <2>3, <2>4 DEF InvChecked, Checked, Named
  <2>6. PICK j \in 1..Len(sourceOrder) : \E k \in DOMAIN Contracts(sourceOrder[j]) :
           d = PointerTo(sourceOrder[j], k)
    BY <2>1, <2>5, OrderedPointer
  <2> QED
    BY <2>1, <2>5, <2>6, OrderedPointer DEF Live, PointerTo
<1> QED
  BY <1>1, EntriesInvariance, RecordedInvariance, PTL
=============================================================================
