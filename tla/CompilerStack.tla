--------------------------- MODULE CompilerStack ---------------------------
(***************************************************************************)
(* libsolidity/interface/CompilerStack: the object that owns the sources,  *)
(* parses them, sorts them along their imports, runs the analysis phases   *)
(* and compiles the contracts.                                             *)
(*                                                                         *)
(* A public method that works through several sources or contracts is a    *)
(* sequence of steps driven by the program counter pc; the next call can   *)
(* only be made when pc is "idle".  The text of a source is a member of    *)
(* Text, and Unit[t] is what the parser and the checks that look at one    *)
(* text alone make of it.  Paths are numbers, ordered like the keys of the *)
(* std::map m_sources.                                                     *)
(***************************************************************************)
EXTENDS Integers, Sequences, FiniteSets

CONSTANTS
    NumPaths,      \* how many paths there are
    Text,          \* the texts a source can have
    Unit,          \* what each text parses to
    Name,          \* contract names
    Remapping,     \* the settings setRemappings can be given
    Resolve,       \* import path after absolutePath and applyRemapping
    MaxContracts,  \* contracts in one text
    LibraryFlags,  \* bound: the values addSource is given for _isLibrary
    Queried,       \* bound: the names sourceMapping and metadata are asked for
    MaxParses      \* bound: how often parse() is called

Path == 1..NumPaths
EmptyPath == 1     \* the path "" that setSource uses sorts first

(***************************************************************************)
(* A ContractDefinition const*: the idx-th contract of the unit that the   *)
(* gen-th call of parse() made for a path.  It dangles once the source is  *)
(* parsed again, because Source::ast is then assigned a new unit.          *)
(***************************************************************************)
Pointer == [path : Path, gen : 1..MaxParses, idx : 1..MaxContracts]
NoPointer == [path |-> 0, gen |-> 0, idx |-> 0]
\* An ImportDirective const*: "import ... as X" declares X in its source.
AliasPointer == [path : Path, gen : 1..MaxParses, import : Nat \ {0}]
NoAlias == ""      \* the unit alias of an import that has none
NullAst == 0
NotFound == "not found"     \* the answer of readFile when it fails

(***************************************************************************)
(* One contract of a text.  The names in bases and creates are looked up   *)
(* in the scope of its source; resolves and checks stand for everything    *)
(* else name resolution and type checking can object to.                   *)
(***************************************************************************)
Definition ==
    [name : Name, library : BOOLEAN, abstract : BOOLEAN,
     bases : SUBSET Name, creates : SUBSET Name,
     resolves : BOOLEAN, checks : BOOLEAN]

NoCode == [of |-> NoPointer, optimised |-> FALSE, linked |-> FALSE]
Code == [of : Pointer \cup {NoPointer}, optimised : BOOLEAN, linked : BOOLEAN]

Source == [text : Text, ast : 0..MaxParses, isLibrary : BOOLEAN]

Contract == [contract : Pointer, code : Code, mapping : Code,
             doc : Pointer \cup {NoPointer}]

ASSUME ConstantsAssumption ==
    /\ NumPaths \in Nat \ {0}
    /\ MaxContracts \in Nat \ {0}
    /\ MaxParses \in Nat \ {0}
    /\ NotFound \notin Text /\ NoAlias \notin Name
    /\ LibraryFlags \subseteq BOOLEAN
    /\ \A t \in Text :
         /\ Unit[t].parse \in {"ok", "error", "fatal"}
         /\ Unit[t].syntaxOk \in BOOLEAN
         /\ Unit[t].docStringsOk \in BOOLEAN
         /\ Len(Unit[t].imports) \in Nat
         /\ DOMAIN Unit[t].imports = 1..Len(Unit[t].imports)
         /\ \A k \in DOMAIN Unit[t].imports :
              /\ Unit[t].imports[k].unit \in Name \cup {NoAlias}
              /\ \E N \in SUBSET Name : Unit[t].imports[k].aliases \in [N -> Name]
         /\ \E n \in 0..MaxContracts :
              Unit[t].contracts \in [1..n -> Definition]
    /\ \A r \in Remapping, t \in Text, p \in Path :
         \A k \in DOMAIN Unit[t].imports :
           Resolve[r][Unit[t].imports[k].spec][p] \in Path

VARIABLES
    \* members of CompilerStack
    sources,          \* m_sources
    sourceOrder,      \* m_sourceOrder
    contracts,        \* m_contracts
    parseSuccessful,  \* m_parseSuccessful
    errors,           \* m_errors holds something that is not a warning
    remap,            \* m_remappings
    \* annotations of the syntax trees
    scope,            \* per source: which contract or import a name denotes
    bases,            \* <<c, b>>: b is in linearizedBaseContracts of c
    deps,             \* <<c, d>>: d is in contractDependencies of c
    abstract,         \* contracts with isFullyImplemented = false
    \* the call in progress
    pc, gen, then, result,
    work, pos, sub,   \* parse() and the loops over m_sourceOrder
    stack, seen, order,       \* resolveImports
    noErrors,
    calls, compiled, optimise \* compile

objVars  == <<sources, sourceOrder, contracts, parseSuccessful, errors, remap>>
astVars  == <<scope, bases, deps, abstract>>
sortVars == <<stack, seen, order>>
genVars  == <<calls, compiled, optimise>>
ctlVars  == <<pc, gen, then, result, work, pos, sub, noErrors>>
vars == <<objVars, astVars, sortVars, genVars, ctlVars>>

-----------------------------------------------------------------------------
(* Lookups.                                                                *)

UnitOf(p) == Unit[sources[p].text]
Contracts(p) == UnitOf(p).contracts
Imports(p) == UnitOf(p).imports
Target(p, k) == Resolve[remap][Imports(p)[k].spec][p]
ImportTargets(p) == {Target(p, k) : k \in DOMAIN Imports(p)}

PointerTo(p, k) == [path |-> p, gen |-> sources[p].ast, idx |-> k]
AliasTo(p, k) == [path |-> p, gen |-> sources[p].ast, import |-> k]
DefinitionOf(c) == Contracts(c.path)[c.idx]
\* The object a pointer was taken from still exists.
Live(c) == /\ c.path \in DOMAIN sources
           /\ sources[c.path].ast = c.gen

\* Mutant: the entry is made anew.
WithContractFresh(c) ==
    LET n == DefinitionOf(c).name IN
    [m \in DOMAIN contracts \cup {n} |->
        IF m # n THEN contracts[m]
        ELSE [contract |-> c, code |-> NoCode, mapping |-> NoCode, doc |-> NoPointer]]

\* m_contracts[contract->name()].contract = contract
WithContract(c) ==
    LET n == DefinitionOf(c).name IN
    [m \in DOMAIN contracts \cup {n} |->
        IF m # n THEN contracts[m]
        ELSE IF n \in DOMAIN contracts
        THEN [contract |-> c, code |-> contracts[n].code,
              mapping |-> contracts[n].mapping, doc |-> contracts[n].doc]
        ELSE [contract |-> c, code |-> NoCode, mapping |-> NoCode,
              doc |-> NoPointer]]

EmptyScope == [n \in Name |-> NoPointer]
EmptyMap == [x \in {} |-> x]

Init ==
    /\ sources = EmptyMap /\ contracts = EmptyMap /\ sourceOrder = <<>>
    /\ parseSuccessful = FALSE /\ errors = FALSE
    /\ remap \in Remapping
    /\ scope = [p \in Path |-> EmptyScope]
    /\ bases = {} /\ deps = {} /\ abstract = {}
    /\ pc = "idle" /\ gen = 0 /\ then = "idle" /\ result = "none"
    /\ work = <<>> /\ pos = 1 /\ sub = 1 /\ noErrors = TRUE
    /\ stack = <<>> /\ seen = {} /\ order = <<>>
    /\ calls = <<>> /\ compiled = {} /\ optimise = FALSE

-----------------------------------------------------------------------------
(* Calls that return at once.                                              *)

\* Annotations are only read through m_sourceOrder and m_contracts; once no
\* tree can be reached that way before it is replaced, they are dropped.
DropAnnotations ==
    /\ scope' = [p \in Path |-> EmptyScope]
    /\ bases' = {} /\ deps' = {} /\ abstract' = {}

\* Mutant: m_contracts.clear() forgotten.
ResetKeepingContracts(kept) ==
    /\ parseSuccessful' = FALSE
    /\ sources' = kept
    /\ sourceOrder' = <<>> /\ errors' = FALSE
    /\ DropAnnotations /\ UNCHANGED contracts

\* Mutant: m_sourceOrder.clear() forgotten.
ResetKeepingOrder(kept) ==
    /\ parseSuccessful' = FALSE
    /\ sources' = kept
    /\ contracts' = EmptyMap /\ errors' = FALSE
    /\ DropAnnotations /\ UNCHANGED sourceOrder

\* The loop of reset(true) resets copies of the pairs, so the scanners and
\* syntax trees in m_sources stay what they are.
Reset(kept) ==
    /\ parseSuccessful' = FALSE
    /\ sources' = kept
    /\ sourceOrder' = <<>> /\ contracts' = EmptyMap /\ errors' = FALSE
    /\ DropAnnotations

IdleRest == UNCHANGED <<remap, sortVars, genVars, pc, gen, then, work, pos, sub,
                        noErrors>>

AddSourceTo(kept, p, t, lib) ==
    Reset([q \in DOMAIN kept \cup {p} |->
             IF q # p THEN kept[q]
             ELSE [text |-> t, isLibrary |-> lib,
                   ast |-> IF p \in DOMAIN kept THEN kept[p].ast ELSE NullAst]])

AddSource(p, t, lib) ==
    /\ pc = "idle"
    /\ AddSourceTo(sources, p, t, lib)
    /\ result' = "none" /\ IdleRest

SetSource(t) ==
    /\ pc = "idle"
    /\ AddSourceTo(EmptyMap, EmptyPath, t, FALSE)
    /\ result' = "none" /\ IdleRest

ResetSources(keep) ==
    /\ pc = "idle"
    /\ Reset(IF keep THEN sources ELSE EmptyMap)
    /\ result' = "none" /\ IdleRest

SetRemappings(r) ==
    /\ pc = "idle"
    /\ remap' = r /\ result' = "none"
    /\ UNCHANGED <<sources, sourceOrder, contracts, parseSuccessful, errors,
                   astVars, sortVars, genVars, pc, gen, then, work, pos, sub,
                   noErrors>>

ContractsOnly == UNCHANGED <<sources, sourceOrder, parseSuccessful, errors, remap,
                             astVars, sortVars, genVars, pc, gen, then, work, pos,
                             sub, noErrors>>

WithCode(e, code) ==
    [contract |-> e.contract, code |-> code, mapping |-> e.mapping, doc |-> e.doc]
Linked(code) == [of |-> code.of, optimised |-> code.optimised, linked |-> TRUE]

\* link() fills the addresses into the objects the contracts have now.
Link ==
    /\ pc = "idle"
    /\ contracts' = [n \in DOMAIN contracts |->
                       IF contracts[n].code = NoCode THEN contracts[n]
                       ELSE WithCode(contracts[n], Linked(contracts[n].code))]
    /\ result' = "none" /\ ContractsOnly

\* sourceMapping(): computed from the compiler's items, then cached.
SourceMapping(n) ==
    /\ pc = "idle" /\ n \in DOMAIN contracts
    /\ contracts[n].mapping = NoCode /\ contracts[n].code # NoCode
    /\ contracts' = [contracts EXCEPT ![n] =
                       [contract |-> contracts[n].contract, code |-> contracts[n].code,
                        mapping |-> contracts[n].code, doc |-> contracts[n].doc]]
    /\ result' = "none" /\ ContractsOnly

\* metadata(): each of the three kinds is cached in the same way.
Metadata(n) ==
    /\ pc = "idle" /\ parseSuccessful /\ n \in DOMAIN contracts
    /\ contracts[n].doc = NoPointer
    /\ contracts' = [contracts EXCEPT ![n] =
                       [contract |-> contracts[n].contract, code |-> contracts[n].code,
                        mapping |-> contracts[n].mapping,
                        doc |-> contracts[n].contract]]
    /\ result' = "none" /\ ContractsOnly

\* Why3 translation of all sources; what it cannot translate is an error.
PrepareFormalAnalysis(translates) ==
    /\ pc = "idle" /\ sourceOrder # <<>>
    /\ errors' = (errors \/ ~translates)
    /\ result' = IF translates THEN "true" ELSE "false"
    /\ UNCHANGED <<sources, sourceOrder, contracts, parseSuccessful, remap, astVars,
                   sortVars, genVars, pc, gen, then, work, pos, sub, noErrors>>

-----------------------------------------------------------------------------
(* parse(): the worklist of sources.                                       *)

\* The ascending enumeration of a set of paths: the keys of a std::map.
Ascending(S) == {s \in [1..Cardinality(S) -> S] :
                    \A i, j \in 1..Cardinality(S) : i < j => s[i] < s[j]}

StartParse(after) ==
    /\ gen < MaxParses
    /\ gen' = gen + 1 /\ then' = after
    /\ errors' = FALSE /\ parseSuccessful' = FALSE
    /\ work' \in Ascending(DOMAIN sources)
    /\ pc' = "parse" /\ pos' = 1 /\ result' = "none"
    /\ DropAnnotations
    /\ UNCHANGED <<sources, sourceOrder, contracts, remap, sortVars, sub, noErrors,
                   calls, compiled>>

Parse == pc = "idle" /\ StartParse("idle") /\ UNCHANGED optimise

\* What parse() returns, and where control goes then; its locals are gone.
Return(ok) ==
    /\ parseSuccessful' = ok
    /\ pc' = IF ok THEN then ELSE "idle"
    /\ result' = IF ok THEN "true" ELSE "false"
    /\ pos' = 1 /\ sub' = 1 /\ noErrors' = TRUE /\ then' = "idle"

\* Mutant: the tree counted one call too late.
ParsedLate(p) == [text |-> sources[p].text, isLibrary |-> sources[p].isLibrary,
                  ast |-> gen + 1]

\* The source with a new syntax tree; null after a fatal error.
Parsed(p) == [text |-> sources[p].text, isLibrary |-> sources[p].isLibrary,
              ast |-> IF UnitOf(p).parse = "fatal" THEN NullAst ELSE gen]

\* loadMissingSources asks readFile for every import that is not in m_sources.
ParseSource ==
    /\ pc = "parse" /\ pos \in DOMAIN work
    /\ LET p == work[pos]
           missing == IF UnitOf(p).parse = "fatal" THEN {}
                      ELSE ImportTargets(p) \ DOMAIN sources IN
       \E file \in [missing -> Text \cup {NotFound}] :
         LET found == {q \in missing : file[q] # NotFound} IN
         \E fresh \in Ascending(found) :
           /\ sources' = [q \in DOMAIN sources \cup found |->
                IF q = p THEN Parsed(p)
                ELSE IF q \in found
                THEN [text |-> file[q], ast |-> NullAst, isLibrary |-> FALSE]
                ELSE sources[q]]
           /\ work' = work \o fresh
           /\ errors' = (errors \/ UnitOf(p).parse # "ok" \/ found # missing)
    /\ pos' = pos + 1
    /\ UNCHANGED <<sourceOrder, contracts, parseSuccessful, remap, astVars, sortVars,
                   genVars, pc, gen, then, result, sub, noErrors>>

ParsingDone ==
    /\ pc = "parse" /\ pos > Len(work)
    /\ IF errors THEN Return(FALSE)
       ELSE pc' = "sort" /\ pos' = 1 /\ UNCHANGED <<parseSuccessful, result, sub,
                                                     noErrors, then>>
    /\ work' = <<>>
    /\ UNCHANGED <<sources, sourceOrder, contracts, errors, remap, astVars, sortVars,
                   genVars, gen>>

-----------------------------------------------------------------------------
(* resolveImports(): depth-first search, with the recursion of toposort as *)
(* a stack of frames [path, next import].                                  *)

SortRest == UNCHANGED <<sources, contracts, parseSuccessful, errors, remap, astVars,
                        genVars, gen, then, result, work, sub>>

Visit(p, rest) ==
    IF p \in seen THEN stack' = rest /\ UNCHANGED seen
    ELSE stack' = <<[path |-> p, next |-> 1]>> \o rest /\ seen' = seen \cup {p}

\* Mutant: the iterator is not advanced past a library.
SortRootStuck ==
    /\ pc = "sort" /\ stack = <<>> /\ pos \in Path
    /\ pos \in DOMAIN sources => ~sources[pos].isLibrary
    /\ IF pos \in DOMAIN sources THEN Visit(pos, <<>>) ELSE UNCHANGED <<stack, seen>>
    /\ pos' = pos + 1
    /\ UNCHANGED <<order, pc, sourceOrder, noErrors>> /\ SortRest

SortRoot ==
    /\ pc = "sort" /\ stack = <<>> /\ pos \in Path
    /\ IF pos \in DOMAIN sources /\ ~sources[pos].isLibrary
       THEN Visit(pos, <<>>) ELSE UNCHANGED <<stack, seen>>
    /\ pos' = pos + 1
    /\ UNCHANGED <<order, pc, sourceOrder, noErrors>> /\ SortRest

SortImport ==
    /\ pc = "sort" /\ stack # <<>>
    /\ LET top == Head(stack) IN
       /\ top.next <= Len(Imports(top.path))
       /\ Visit(Target(top.path, top.next),
                <<[path |-> top.path, next |-> top.next + 1]>> \o Tail(stack))
    /\ UNCHANGED <<order, pos, pc, sourceOrder, noErrors>> /\ SortRest

\* Mutant: push_front in place of push_back.
SortLeaveFront ==
    /\ pc = "sort" /\ stack # <<>>
    /\ Head(stack).next > Len(Imports(Head(stack).path))
    /\ order' = <<Head(stack).path>> \o order
    /\ stack' = Tail(stack)
    /\ UNCHANGED <<seen, pos, pc, sourceOrder, noErrors>> /\ SortRest

SortLeave ==
    /\ pc = "sort" /\ stack # <<>>
    /\ Head(stack).next > Len(Imports(Head(stack).path))
    /\ order' = Append(order, Head(stack).path)
    /\ stack' = Tail(stack)
    /\ UNCHANGED <<seen, pos, pc, sourceOrder, noErrors>> /\ SortRest

SortDone ==
    /\ pc = "sort" /\ stack = <<>> /\ pos > NumPaths
    /\ sourceOrder' = order
    /\ pc' = "syntax" /\ pos' = 1 /\ noErrors' = TRUE
    /\ seen' = {} /\ order' = <<>> /\ UNCHANGED stack /\ SortRest

-----------------------------------------------------------------------------
(* The phases of parse() that walk m_sourceOrder.  Name resolution and     *)
(* type checking go contract by contract (sub), imports one by one (sub).  *)

Current == sourceOrder[pos]
Here == PointerTo(Current, sub)
PhaseRest == UNCHANGED <<sources, sourceOrder, remap, gen, work, sortVars, genVars>>
Stay == UNCHANGED <<pc, then, result, parseSuccessful>>

Phase == {"syntax", "docStrings", "register", "import", "resolve"}

NextPhase ==
    /\ pc \in Phase /\ pos > Len(sourceOrder)
    /\ pc' = IF pc = "syntax" THEN "docStrings"
             ELSE IF pc = "docStrings" THEN "register"
             ELSE IF pc = "register" THEN "import"
             ELSE IF pc = "import" THEN "resolve"
             ELSE "clash"
    /\ pos' = 1 /\ sub' = 1
    /\ UNCHANGED <<contracts, parseSuccessful, errors, astVars, result, noErrors, then>>
    /\ PhaseRest

NextSource ==
    /\ pc \in {"import", "resolve", "check", "compile"}
    /\ pos <= Len(sourceOrder) /\ calls = <<>>
    /\ sub > IF pc = "import" THEN Len(Imports(Current)) ELSE Len(Contracts(Current))
    /\ pos' = pos + 1 /\ sub' = 1
    /\ UNCHANGED <<contracts, errors, astVars, noErrors>> /\ Stay /\ PhaseRest

\* checkSyntax answers for everything in m_errors, not just for its source.
CheckSyntax ==
    /\ pc = "syntax" /\ pos <= Len(sourceOrder)
    /\ errors' = (errors \/ ~UnitOf(Current).syntaxOk)
    /\ noErrors' = (noErrors /\ ~errors')
    /\ pos' = pos + 1
    /\ UNCHANGED <<contracts, astVars, sub>> /\ Stay /\ PhaseRest

\* Mutant: the result of the analysis is ignored.
IgnoreDocStrings ==
    /\ pc = "docStrings" /\ pos <= Len(sourceOrder)
    /\ errors' = (errors \/ ~UnitOf(Current).docStringsOk)
    /\ pos' = pos + 1
    /\ UNCHANGED <<contracts, astVars, sub, noErrors>> /\ Stay /\ PhaseRest

AnalyseDocStrings ==
    /\ pc = "docStrings" /\ pos <= Len(sourceOrder)
    /\ errors' = (errors \/ ~UnitOf(Current).docStringsOk)
    /\ noErrors' = (noErrors /\ UnitOf(Current).docStringsOk)
    /\ pos' = pos + 1
    /\ UNCHANGED <<contracts, astVars, sub>> /\ Stay /\ PhaseRest

\* What a source declares: its contracts and the unit aliases of its imports,
\* which stand before the contracts in every text.
Declared(p, n) == {k \in DOMAIN Contracts(p) : Contracts(p)[k].name = n}
AliasesNamed(p, n) == {k \in DOMAIN Imports(p) : Imports(p)[k].unit = n}
First(S) == {k \in S : \A l \in S : k <= l}
FirstDeclared(p, n) ==
    LET imports == First(AliasesNamed(p, n))
        own == First(Declared(p, n)) IN
    IF imports # {} THEN AliasTo(p, CHOOSE k \in imports : TRUE)
    ELSE IF own # {} THEN PointerTo(p, CHOOSE k \in own : TRUE)
    ELSE NoPointer

RepeatsAlias(p) ==
    \E k, l \in DOMAIN Imports(p) :
        k # l /\ Imports(p)[k].unit # NoAlias /\ Imports(p)[k].unit = Imports(p)[l].unit
RepeatsContract(p) ==
    \E k \in DOMAIN Contracts(p) :
        \/ AliasesNamed(p, Contracts(p)[k].name) # {}
        \/ \E l \in DOMAIN Contracts(p) : k # l /\ Contracts(p)[k].name = Contracts(p)[l].name

\* The first declaration of a name is registered, a second one is an error:
\* the registration helper reports it and carries on.
RegisterDeclarations ==
    /\ pc = "register" /\ pos <= Len(sourceOrder)
    /\ scope' = [scope EXCEPT ![Current] =
                    [n \in Name |-> FirstDeclared(Current, n)]]
    /\ errors' = (errors \/ RepeatsAlias(Current) \/ RepeatsContract(Current))
    /\ pos' = pos + 1
    /\ UNCHANGED <<contracts, bases, deps, abstract, sub, noErrors>>
    /\ Stay /\ PhaseRest

\* What one import directive brings into the scope: those names it lists
\* (aliases maps the new name to the imported one), nothing but what was
\* registered if it has a unit alias, and all names otherwise.
Incoming(import, from) ==
    [n \in Name |->
        IF n \in DOMAIN import.aliases THEN scope[from][import.aliases[n]]
        ELSE IF import.aliases = EmptyMap /\ import.unit = NoAlias THEN scope[from][n]
        ELSE NoPointer]

\* performImports reports every error of a source before it returns false;
\* the first one settles the outcome.
PerformImport ==
    /\ pc = "import" /\ pos <= Len(sourceOrder) /\ sub <= Len(Imports(Current))
    /\ LET import == Imports(Current)[sub]
           in == Incoming(import, Target(Current, sub))
           own == scope[Current]
           bad == \/ \E n \in DOMAIN import.aliases : in[n] = NoPointer
                  \/ \E n \in Name : /\ in[n] # NoPointer /\ own[n] # NoPointer
                                     /\ in[n] # own[n] IN
       /\ scope' = [scope EXCEPT ![Current] =
                       [n \in Name |-> IF own[n] # NoPointer THEN own[n] ELSE in[n]]]
       /\ IF bad THEN errors' = TRUE /\ Return(FALSE)
          ELSE sub' = sub + 1 /\ Stay /\ UNCHANGED <<errors, pos, noErrors>>
    /\ UNCHANGED <<contracts, bases, deps, abstract>> /\ PhaseRest

\* resolveNamesAndTypes: the bases must be linearized before the contract.
Linearized(c) == <<c, c>> \in bases
BasesOf(c) == {e[2] : e \in {x \in bases : x[1] = c}}
\* A type's name has to denote a contract.  Names of several parts (X.A) are
\* left out.
ContractNamed(p, n) == IF scope[p][n] \in Pointer THEN scope[p][n] ELSE NoPointer
Denoted(c, names) == {ContractNamed(c.path, n) : n \in names}

ResolveNames ==
    /\ pc = "resolve" /\ pos <= Len(sourceOrder) /\ sub <= Len(Contracts(Current))
    /\ LET c == Here
           direct == Denoted(c, DefinitionOf(c).bases)
           linear == \A b \in direct : b # NoPointer /\ Linearized(b)
           all == UNION {BasesOf(b) : b \in direct}
           ok == /\ linear /\ DefinitionOf(c).resolves
                 /\ NoPointer \notin Denoted(c, DefinitionOf(c).creates) IN
       /\ bases' = IF linear THEN bases \cup ({c} \X (all \cup {c})) ELSE bases
       /\ deps' = IF linear THEN deps \cup ({c} \X all) ELSE deps
       /\ IF ok THEN /\ contracts' = WithContract(c) /\ sub' = sub + 1
                     /\ Stay /\ UNCHANGED <<errors, pos, noErrors>>
          ELSE errors' = TRUE /\ Return(FALSE) /\ UNCHANGED contracts
    /\ UNCHANGED <<scope, abstract>> /\ PhaseRest

OrderedContracts ==
    UNION {{PointerTo(sourceOrder[i], k) : k \in DOMAIN Contracts(sourceOrder[i])} :
              i \in DOMAIN sourceOrder}

LibraryNameClash ==
    \E c, d \in OrderedContracts :
        /\ c # d /\ DefinitionOf(c).name = DefinitionOf(d).name
        /\ DefinitionOf(c).library /\ DefinitionOf(d).library

CheckLibraryNameClashes ==
    /\ pc = "clash"
    /\ errors' = (errors \/ LibraryNameClash)
    /\ noErrors' = (noErrors /\ ~LibraryNameClash)
    /\ pc' = "check"
    /\ UNCHANGED <<contracts, astVars, result, parseSuccessful, pos, sub, then>>
    /\ PhaseRest

\* Mutant: only a contract that creates itself is found.
CyclicDirect(graph, c) == <<c, c>> \in graph

\* contractDependenciesAreCyclic: from c one can follow graph for ever.
Cyclic(graph, c) ==
    \E T \in SUBSET ({c} \cup {e[2] : e \in graph}) :
        c \in T /\ \A x \in T : \E y \in T : <<x, y>> \in graph

\* checkTypeRequirements: isFullyImplemented is settled first, then every
\* new-expression adds a dependency.
CheckTypes ==
    /\ pc = "check" /\ pos <= Len(sourceOrder) /\ sub <= Len(Contracts(Current))
    /\ LET c == Here
           created == Denoted(c, DefinitionOf(c).creates) IN
       /\ abstract' = IF DefinitionOf(c).abstract THEN abstract \cup {c} ELSE abstract
       /\ deps' = deps \cup ({c} \X created)
       /\ errors' = (\/ errors \/ ~DefinitionOf(c).checks
                     \/ created \cap abstract' # {}
                     \/ created # {} /\ Cyclic(deps', c))
       /\ noErrors' = (noErrors /\ ~errors')
       /\ contracts' = WithContract(c)
    /\ sub' = sub + 1
    /\ UNCHANGED <<scope, bases, pos>> /\ Stay /\ PhaseRest

ParseDone ==
    /\ pc = "check" /\ pos > Len(sourceOrder)
    /\ Return(noErrors)
    /\ UNCHANGED <<contracts, errors, astVars>> /\ PhaseRest

-----------------------------------------------------------------------------
(* compile(): compileContract's recursion as a stack of frames.            *)

GenRest == UNCHANGED <<sources, sourceOrder, parseSuccessful, errors, remap, astVars,
                       sortVars, gen, then, work, noErrors>>

Compile(opt) ==
    /\ pc = "idle"
    /\ optimise' = opt
    /\ IF parseSuccessful
       THEN pc' = "compile" /\ result' = "none"
            /\ UNCHANGED <<contracts, pos, sub, calls, compiled>> /\ GenRest
       ELSE StartParse("compile")

\* Mutant: the contracts are compiled in the order of their declaration.
EnterAlone(c) ==
    IF c \in compiled \cup abstract THEN <<>> ELSE <<[contract |-> c, todo |-> {}]>>

\* compileContract returns at once for what is compiled or abstract.
EnterContract(c) ==
    IF c \in compiled \cup abstract THEN <<>>
    ELSE <<[contract |-> c, todo |-> {e[2] : e \in {x \in deps : x[1] = c}}]>>

CompileNext ==
    /\ pc = "compile" /\ calls = <<>>
    /\ pos <= Len(sourceOrder) /\ sub <= Len(Contracts(Current))
    /\ calls' = EnterContract(Here) /\ sub' = sub + 1
    /\ UNCHANGED <<contracts, compiled, optimise, pc, pos, result>> /\ GenRest

\* contractDependencies is a set of pointers: its order is that of addresses.
CompileDependency ==
    /\ pc = "compile" /\ calls # <<>>
    /\ \E d \in Head(calls).todo :
         calls' = EnterContract(d) \o
                  <<[contract |-> Head(calls).contract,
                     todo |-> Head(calls).todo \ {d}]>> \o Tail(calls)
    /\ UNCHANGED <<contracts, compiled, optimise, pc, pos, sub, result>> /\ GenRest

\* The contracts created by the code of c, inherited functions included.
Created(c) == UNION {Denoted(b, DefinitionOf(b).creates) : b \in BasesOf(c)}

CompileReturn(r) ==
    /\ pc' = "idle" /\ result' = r
    /\ pos' = 1 /\ sub' = 1 /\ calls' = <<>> /\ compiled' = {} /\ optimise' = FALSE

\* CompilerContext::compiledContract asserts that each of them is there.
CompileBody ==
    /\ pc = "compile" /\ calls # <<>> /\ Head(calls).todo = {}
    /\ LET c == Head(calls).contract
           n == DefinitionOf(c).name IN
       IF Created(c) \subseteq compiled
       THEN /\ contracts' = [contracts EXCEPT ![n] = WithCode(contracts[n],
                               [of |-> c, optimised |-> optimise, linked |-> FALSE])]
            /\ compiled' = compiled \cup {contracts[n].contract}
            /\ calls' = Tail(calls)
            /\ UNCHANGED <<optimise, pc, pos, sub, result>>
       ELSE CompileReturn("InternalCompilerError") /\ UNCHANGED contracts
    /\ GenRest

CompileDone ==
    /\ pc = "compile" /\ calls = <<>> /\ pos > Len(sourceOrder)
    /\ CompileReturn("true") /\ UNCHANGED contracts /\ GenRest

-----------------------------------------------------------------------------
Step ==
    \/ ParseSource \/ ParsingDone
    \/ SortRoot \/ SortImport \/ SortLeave \/ SortDone
    \/ NextPhase \/ NextSource
    \/ CheckSyntax \/ AnalyseDocStrings \/ RegisterDeclarations \/ PerformImport
    \/ ResolveNames \/ CheckLibraryNameClashes \/ CheckTypes \/ ParseDone
    \/ CompileNext \/ CompileDependency \/ CompileBody \/ CompileDone

Call ==
    \/ \E p \in Path, t \in Text, lib \in LibraryFlags : AddSource(p, t, lib)
    \/ \E t \in Text : SetSource(t)
    \/ \E keep \in BOOLEAN : ResetSources(keep)
    \/ \E r \in Remapping : SetRemappings(r)
    \/ Parse
    \/ \E opt \in BOOLEAN : Compile(opt)
    \/ Link
    \/ \E n \in Queried : SourceMapping(n) \/ Metadata(n)
    \/ \E translates \in BOOLEAN : PrepareFormalAnalysis(translates)

Next == Step \/ Call

Spec == Init /\ [][Next]_vars
\* A call runs to its end: the code is sequential and nothing in it waits.
FairSpec == Spec /\ WF_vars(Step)
-----------------------------------------------------------------------------
(* Properties.                                                             *)

ParsePhase == {"parse", "sort", "clash", "check"} \cup Phase
OrderKnown == {"syntax", "docStrings", "register", "import", "resolve", "clash",
               "check"}

\* Every variable has the type of the member or local it stands for.
TypeOK ==
    /\ \E D \in SUBSET Path : sources \in [D -> Source]
    /\ sourceOrder \in Seq(Path)
    /\ \E N \in SUBSET Name : contracts \in [N -> Contract]
    /\ parseSuccessful \in BOOLEAN /\ errors \in BOOLEAN /\ noErrors \in BOOLEAN
    /\ remap \in Remapping
    /\ scope \in [Path -> [Name -> Pointer \cup AliasPointer \cup {NoPointer}]]
    /\ bases \in SUBSET (Pointer \X Pointer)
    /\ deps \in SUBSET (Pointer \X Pointer)
    /\ abstract \in SUBSET Pointer
    /\ pc \in {"idle", "compile"} \cup ParsePhase
    /\ gen \in 0..MaxParses /\ then \in {"idle", "compile"}
    /\ result \in {"none", "true", "false", "InternalCompilerError"}
    /\ work \in Seq(Path) /\ pos \in Nat \ {0} /\ sub \in Nat \ {0}
    /\ stack \in Seq([path : Path, next : Nat \ {0}])
    /\ seen \in SUBSET Path /\ order \in Seq(Path)
    /\ calls \in Seq([contract : Pointer, todo : SUBSET Pointer])
    /\ compiled \in SUBSET Pointer /\ optimise \in BOOLEAN

ImportClosed(C) == \A p \in C \cap DOMAIN sources : ImportTargets(p) \subseteq C
Reachable(S) == {q \in Path : \A C \in SUBSET Path :
                                 S \subseteq C /\ ImportClosed(C) => q \in C}
Roots == {p \in DOMAIN sources : ~sources[p].isLibrary}

\* resolveImports lists exactly the sources reachable from the user's own
\* sources, each once, and an imported source comes before its importer
\* unless the two import each other.
TopologicalOrder ==
    pc \in OrderKnown =>
      /\ \A i, j \in DOMAIN sourceOrder :
           sourceOrder[i] = sourceOrder[j] => i = j
      /\ {sourceOrder[i] : i \in DOMAIN sourceOrder} = Reachable(Roots)
      /\ \A i \in DOMAIN sourceOrder : \A q \in ImportTargets(sourceOrder[i]) :
           \/ \E j \in 1..i : sourceOrder[j] = q
           \/ sourceOrder[i] \in Reachable({q})

\* Whatever m_sourceOrder lists has a syntax tree, at any time: all its
\* users dereference source->ast without a test.
OrderedSourcesParsed ==
    \A i \in DOMAIN sourceOrder :
        /\ sourceOrder[i] \in DOMAIN sources
        /\ sources[sourceOrder[i]].ast # NullAst

\* The error of a repeated unit alias is only noticed by a later phase that
\* looks at all errors so far, and the type checker does for each contract.
Overlooked ==
    /\ OrderedContracts = {}
    /\ \E i \in DOMAIN sourceOrder : RepeatsAlias(sourceOrder[i])

\* parse() returns true when it has reported no error; when it has, it
\* returns false, unless all there is to report are unit aliases that are
\* declared twice in a program without a contract.
ParseVerdict ==
    [][(pc \in ParsePhase /\ pc' \notin ParsePhase)
          => /\ ~errors' => parseSuccessful'
             /\ parseSuccessful' => (errors' <=> Overlooked)]_vars

\* Between calls, m_contracts only points to contracts that still exist.
ContractsLive ==
    pc = "idle" => \A n \in DOMAIN contracts : Live(contracts[n].contract)

Acyclic(graph) ==
    \A T \in SUBSET {e[1] : e \in graph} :
        T # {} => \E x \in T : \A y \in T : <<x, y>> \notin graph

\* After a successful parse no contract depends on itself, directly or not,
\* so the recursion of compileContract ends.
DependenciesAcyclic == parseSuccessful => Acyclic(deps)

SameNode(c, d) == c.path = d.path /\ c.idx = d.idx

UniqueNames ==
    \A c, d \in OrderedContracts :
        DefinitionOf(c).name = DefinitionOf(d).name => c = d

\* object(n) is the code of the contract contractDefinition(n) returns.
ObjectOfContract ==
    pc = "idle" =>
      \A n \in DOMAIN contracts :
        contracts[n].code # NoCode =>
          SameNode(contracts[n].code.of, contracts[n].contract)

\* ... which holds as long as no two sources use the same contract name.
ObjectOfUniqueContract == UniqueNames => ObjectOfContract

\* A contract is compiled before the code that creates it: compile() never
\* fails the assertion of CompilerContext::compiledContract.
CreatedContractsCompiled == result # "InternalCompilerError"

\* ... which holds when names are unique, abstract contracts create nothing
\* and nothing creates an abstract contract.
ConcreteContractsCompiled ==
    (/\ UniqueNames
     /\ \A c \in OrderedContracts :
          /\ DefinitionOf(c).abstract => DefinitionOf(c).creates = {}
          /\ Denoted(c, DefinitionOf(c).creates) \cap abstract = {})
    => CreatedContractsCompiled

\* Every call returns.
CallsReturn == pc # "idle" ~> pc = "idle"

\* The cached interface and documentation describe the contract of that name.
MetadataOfContract ==
    pc = "idle" =>
      \A n \in DOMAIN contracts :
        contracts[n].doc # NoPointer =>
          SameNode(contracts[n].doc, contracts[n].contract)

-----------------------------------------------------------------------------
(* CompilerStack implements CompilerInterface: the worklists, phases and   *)
(* recursions are steps of the call in progress, the syntax trees and      *)
(* annotations are hidden, and an entry of m_contracts without code is no  *)
(* object yet.                                                             *)

PhaseOf == IF pc \in {"idle", "compile"} THEN pc ELSE "parse"
TextsOf == [p \in DOMAIN sources |-> sources[p].text]
ObjectsOf == [n \in {m \in DOMAIN contracts : contracts[m].code # NoCode} |-> contracts[n].code]

\* The texts whose errors parse() may overlook.
Doubtful ==
    {t \in Text : /\ Unit[t].contracts = <<>>
                  /\ \E k, l \in DOMAIN Unit[t].imports :
                       k # l /\ Unit[t].imports[k].unit = Unit[t].imports[l].unit
                             /\ Unit[t].imports[k].unit # NoAlias}

Interface == INSTANCE CompilerInterface WITH
    phase <- PhaseOf, goal <- then, texts <- TextsOf, parsed <- parseSuccessful,
    failed <- errors, objects <- ObjectsOf

\* Every step of the compiler, its inner loops included, is one that the
\* interface allows, or one that its user cannot see.
ImplementsInterface == Interface!Spec
=============================================================================
