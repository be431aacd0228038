# Verification of solc: TLA+ models and proofs

This directory holds TLA+ specifications of the core of this repository's
Solidity compiler, TLC configurations that check them on small instances, and
TLAPS proofs of their main invariants. Paths below are relative to the
repository. `PROJECT.json` maps every definition to the lines it models and
lists runs, mutants, findings, hazards and theorems.

## 1. Inventory

The compiler is sequential: there are no threads, messages or timeouts. What is
hard is of another kind. An object that lives across many calls keeps pointers
and caches that a later call can make stale; phases fail half-way and leave
partial results; orders (imports, inheritance, creation, stores and loads) must
be respected; and the optimiser rewrites code on the strength of knowledge that
must hold on every execution.

| Component | State | Operations | Used by / uses |
|---|---|---|---|
| `CompilerStack` (libsolidity/interface) | `m_sources`, `m_sourceOrder`, `m_contracts`, `m_errors`, `m_parseSuccessful`, `m_remappings` | `reset`, `addSource`, `setSource`, `setRemappings`, `parse`, `compile`, `link`, queries | drives all phases; called by `solc`, `jsonCompiler` |
| import resolution (`resolveImports`, `loadMissingSources`, `applyRemapping`) | depth-first search, worklist | one step per source and import | inside `parse` |
| `SyntaxChecker`, `DocStringAnalyser` | error list | one pass per source | inside `parse` |
| `NameAndTypeResolver`, `DeclarationContainer`, `ReferencesResolver` | scopes, annotations of the tree | `registerDeclarations`, `performImports`, `resolveNamesAndTypes`, C3 merge | inside `parse` |
| `TypeChecker` | annotations: `isFullyImplemented`, `contractDependencies`, types | `checkTypeRequirements` | inside `parse` |
| `Types` | - | conversion tables, storage layout | analysis and code generation |
| `Scanner`, `Parser` | position, look-ahead | `next`, `parse` | inside `parse`; build the `AST` |
| `AST` visitors (`ASTJsonConverter`, `ASTPrinter`, `SyntaxChecker`) | stacks, indentation, loop depth | one `visit` and `endVisit` per kind of node | called by `parse`, `solc`, `jsonCompiler` |
| `SemVerHandler` | position in the pragma | parse, match | `SyntaxChecker` |
| `CompilerContext`, `ContractCompiler`, `ExpressionCompiler` | stack height, function queue, `compiledContracts` | `compileContract` and below | inside `compile`; emit `Assembly` |
| `LValue`, `ArrayUtils` | none at compile time; the storage of the contract that runs | read, write, delete, copy, resize, push | called for every lvalue by `ExpressionCompiler`; use the layout of `Types` |
| `Assembly`, `AssemblyItem`, `LinkerObject` | items, tags, data, subs | `append`, `optimise`, `assemble`, `link` | code generation, liblll |
| `ControlFlowGraph`, `BlockDeduplicator` | blocks, links, start states | split, link, gather knowledge, rebuild; deduplicate | inside `optimise` |
| `CommonSubexpressionEliminator` | two known states, store operations | `feedItems`, `getOptimizedItems` | inside `optimise`, on one block |
| `KnownState` | classes of stack, storage and memory contents, sequence number, known hashes | `feedItem`, `reduceToCommonKnowledge` | eliminator, control flow graph, gas meter |
| `ExpressionClasses`, `Rules` | representatives and table of expressions | `find`, `knownToBeDifferent`, ... | known state, code generator |
| `ConstantOptimiser` | the items | `optimiseConstants` | end of `optimise` |
| `GasMeter`, `PathGasMeter`, `GasEstimator` | known state, paths | `estimateMax` | gas queries |
| `solc`, `lllc`, `liblll`, `libdevcore`, formatting, docs, tests | - | - | outside the core |

What makes them correct:

* `CompilerStack`: every pointer that is dereferenced is live, the source order
  is a topological order of what is reachable, the verdict of `parse` agrees
  with the errors (but for one kind, below), a created contract is compiled
  before its creator, cached answers describe the present code, and every call
  returns.
* optimiser: everything a `KnownState` claims is true on the machine, the
  optimised code has the effect of the original, rules keep values, no internal
  assertion fails, and constants keep their values.
* control flow graph: knowledge at a block's start holds on every path into it,
  and no reachable block is removed.
* assembler: tags and data fit in the space reserved, and references follow the
  bytes when objects are appended.
* code generation: every function that is referenced is compiled exactly once,
  and the stack height tracked is that of the machine.
* storage: each statement has the effect on the variables that the source text
  promises, leaves their neighbours in a slot alone and frees the slots it no
  longer uses.
* types: storage offsets do not overlap; an accepted conversion has code, and
  that code keeps the value.
* front end: every token of the text is in the tree once and in its place,
  operators bind by precedence, the visitors' stacks follow the tree, a pragma
  allows the versions it describes, a name refers to the nearest declaration,
  and C3 gives a linearisation that extends the order of bases.

The hazards list in `PROJECT.json` names the lines where each of these can go
wrong.

## 2. Modules

| Module | Models | Notes |
|---|---|---|
| `CompilerStack` | `CompilerStack.cpp`, and what `parse` and `compile` need of the analyses and the code generator | one action per source, import, declaration or contract; public methods start when `pc = "idle"` |
| `CompilerStack_proofs` | - | inductive invariant and theorems |
| `CompilerStack_parse_proofs` | - | order of the sources, verdict of `parse`; `CompilerStack` implements `CompilerInterface` |
| `CompilerStack_contracts_proofs` | - | `compile` finds the code it needs; what `m_contracts` keeps between calls |
| `CompilerInterface` | - | abstract: what the calls promise a user; the mapping is in `CompilerStack` |
| `Scanner` | `Scanner.cpp` | operators on characters |
| `Ast` | `AST_accept.h`, `ASTJsonConverter.cpp`, `ASTPrinter.cpp` | trees, order of visits, two visitors |
| `Parser` | `Parser.cpp`, `ParserBase.cpp`, tables of `Token` | extends `Ast`; one operator per `parse...` |
| `Grammar` | - | abstract: the text that a tree spells |
| `SyntaxChecker`, `SemVerHandler` | the files of these names | extend `Ast`; from the tokens of a pragma to a match expression |
| `VersionMatch` | the matching in `SemVerHandler.cpp` | which versions a match expression allows, with proofs |
| `NameAndTypeResolver` | with `DeclarationContainer` and the names of `ReferencesResolver` | extends `Ast` |
| `Linearisation`, `Linearisation_proofs` | `cThreeMerge` and `linearizeBaseContracts` in `NameAndTypeResolver.cpp` | state machine that resolves the contracts of a hierarchy; proofs |
| `Types` | conversions in `Types.cpp`, `CompilerUtils::convertType` | code is run on `Evm` |
| `CompilerContext`, `ExpressionCompiler`, `ContractCompiler` | the files of these names, tuples of `LValue.cpp` | from trees to assembly items |
| `Semantics` | - | abstract: what a contract does, without stack and jumps |
| `StateVariables` | - | abstract: what reads and writes of state variables mean, without a layout |
| `StorageItem` | `StorageItem` and `StorageByteArrayElement` in `LValue.cpp`, `StorageOffsets::computeOffsets` in `Types.cpp`, `incrementByteOffset` and the packed case of `accessIndex` in `ArrayUtils.cpp` | values inside slots, and the places of members and elements |
| `Storage_proofs` | - | values are read as written, and places do not overlap |
| `Storage` | the rest of `LValue.cpp`, `ArrayUtils.cpp` and the layout in `Types.cpp` | one action per statement; compared with `StateVariables` |
| `Evm` | the machine on which code runs, on small words; the instruction table | semantics of instructions are external to the repository |
| `LinkerObject` | `LinkerObject.cpp` (append, link) | with proofs |
| `Assembly` | `Assembly.cpp` (append, assemble) | from items to bytecode; extends `LinkerObject` |
| `ExpressionClasses`, `KnownState` | classes, patterns, rules; what is known of the machine | extend `Evm` |
| `CSECodeGenerator`, `CommonSubexpressionEliminator` | the file of the eliminator | exceptions are a field `err` |
| `BasicBlock` | - | the eliminator on any block, next to machines that run both codes |
| `ControlFlowGraph`, `BlockDeduplicator` | the files of these names | extend `KnownState` |
| `AssemblyOptimiser` | `Assembly::optimise` | state machine that composes deduplicator, graph and eliminator |
| `ConstantOptimiser` | `ConstantOptimiser.cpp` | state machine over the constants of a piece of code |
| `Accumulate` | - | folds that TLC evaluates once per step |
| `MCCodegen`, `MCAnalysis`, `MCSyntax`, `MCContracts`, `MCStorage`, `MCAlgorithms`, `MCEliminator`, `MCOptimiser`, `MCConstants` | - | instances for TLC |

### CompilerStack

Paths are numbers in the order of the map's keys. A text is a model value and
`Unit[t]` says what one text alone determines: whether it parses, its imports,
the verdicts of the checks that look at one source, and its contracts with the
names they inherit from and create. What depends on several sources is
modelled: the worklist that reads missing files (`ParseSource`), the
depth-first sort (`SortRoot`, `SortVisit`, `SortLeave`), scopes (contracts and
the unit aliases of `import "..." as X`, of which the first declaration counts
and a second one is an error) and imports of names, name resolution with the
rule that bases are resolved first,
`contractDependencies` and their cycle test, `m_contracts`, and the recursion
of `compileContract` with its call stack (`EnterContract`, `CompileDependency`,
`CompileBody`).

A `ContractDefinition const*` is a path, the number of the `parse` call that
made the tree, and an index, so a pointer into a replaced tree is visible as
one. `reset(true)` keeps the old trees: the loop in the code resets copies of
the map's entries, and so does `Reset`.

`readFile` may fail or deliver any text. `setRemappings` can be called between
any two calls. A call in progress is a sequence of steps; nothing else can
happen meanwhile, as in the code.

`CompilerInterface` is what remains when trees, scopes and worklists are hidden:
texts change only between calls, apart from files that `parse` adds; an error
stays reported until the next parse; a parse that reports none succeeds, and one
that reports some fails, unless a text declares two imports under one name and
has no contract; code appears only in a `compile` that follows a successful
parse, has the setting of that call, and stays until it is compiled again or the
sources change. The end of `CompilerStack` gives the mapping; every step of
every loop is a step of the interface or a stutter. The source mapping is not
part of the interface, because it can be that of older code (section 3).

### Front end

The syntax tree is a record per node with attributes, children by role and a
location in tokens. `Parser` has one operator for every production, with the
look-ahead that decides between declarations and expressions and the two ways
of building the tree from what was already read; a fatal error sets a flag
that all operators respect, a non-fatal one is counted. `Grammar!Spell` gives
the text of a tree: a location is right if the text there is the node's.
`Scanner` works on characters, with the one-character window that is not always
at the position. `SemVerHandler` gets the scanner's tokens, so `0.4.1` arrives
as `0.4` and `.1`. `Ast!Walk` is the sequence of visits that `accept` makes;
`Json`, `PrintLines` and `CheckSyntax` are folds of the visitors over it.

`NameAndTypeResolver` registers declarations, imports scopes from other units
and from bases, and resolves identifiers and paths; what should come out is
found by looking outwards from the place of the name (`MCSyntax`).
`Linearisation` resolves the contracts of a hierarchy one after the other, as
`resolveNamesAndTypes` does. A contract has a list of bases; a base that is
not yet linearised is refused, and so is one that `cThreeMerge` cannot order.
`cThreeMerge` is a recursive function on the number of turns: each takes the
first head that is in no other list's tail. `LinearisationSuitsBases` compares
it with the definition of a good order, not with another algorithm.

What the code does differently from what the properties would say is named in
the properties and left out of them: `(a b)` is read as `(a, b)`
(`Parser.cpp:1175`); a statement without initial value, `return` without value
and an unnamed parameter end at the next token; after an empty line of `///`,
for `/** /` and for comments that are not closed the scanner takes code for
comment; `^0` allows `0.0` only.

### Code generation

`CompilerContext` is a record that is handed on: items, stack height, local
variables, tags, the queue of functions. Visiting a node puts commands in front
of a list, so that the order of emitting code and of changing the context is
that of the visitor. Variables are words on the stack or in a slot of their
own. `MCContracts` compiles a contract, runs the items on `Evm` for a set of
calls and compares storage and returned data with `Semantics`, which evaluates
the tree directly; a program that throws must end with a bad jump. With the
optimiser's setting, operands are evaluated in the order it chooses.

### Conversions

A type is a record. `IsImplicitlyConvertibleTo`, `IsExplicitlyConvertibleTo`,
`CommonType` and `BinaryOperatorResult` decide as `Types.cpp` does, and
`ConvertType` is the code. The property runs that code on all words of the
source type, with any bits beyond its width. Left out, because the type checker
accepts what `convertType` refuses: bytes to a contract, and reference types
other than byte arrays in explicit conversions.

### Optimiser

`Evm` has words of `WordBytes` bytes of `ByteBits` bits. The constants 31, 32,
62 and 128 in the code become expressions in `WordBytes`, and 16, the reach of
DUP and SWAP, is `MaxReach`: the generator's limit and the machine's, which
crashes on an instruction that does not exist. The modules up to
`CSECodeGenerator` are operators: a method that changes an object takes the
object and returns it. Methods that add classes as a side effect (`find`, and so
`knownNonZero` and `knownToBeDifferent`) return the extended classes, in the
order in which the code asks.

`BasicBlock` feeds any sequence of phrases to the eliminator. Next to it two
machines per scenario run the original code and the code that
`Assembly::optimise` keeps, and `vals` holds the value of each class in each
scenario, fixed when the class is created. The properties compare the
eliminator's claims with these.

`AssemblyOptimiser` is `optimise` as a state machine: deduplicate until nothing
changes, split, gather knowledge (the worklist takes its items one per step),
rewrite chunk by chunk with the known states that the graph found, and start
again as long as something was changed. The assertions of the graph and of the
generator are modelled as failures of `optimise`, those of `setPrevLinks`
(a successor has one predecessor; the tag of a removed jump is the last one
pushed) included; only the bounds of the numbers of tags and blocks, which need
2^32 of them, are left out. `JoinKnowledge` has both values of
`m_joinKnowledge`. At the end the original and the final program are run from
each scenario and compared.

`Assembly` counts bytes as digits to a small base, so that sizes and references
need a second and a third byte within a few dozen items.

Instructions outside `Info` behave like one that is there (they push an unknown
value, break the block, or invalidate memory or storage).

### State variables

`storage` is the storage of a contract that was compiled by this compiler: a
map from slots to words of `SlotBytes` bytes. The operators of `Storage` are
what the generated code does to it, in the order of its SLOADs and SSTOREs; a
type is a record, and the constants 16, 31, 32 and 0xff in the code become
expressions in `SlotBytes` and `Radix`. The contract is a struct of its state
variables, so the layout of variables and of struct members is one operator
(`ComputeOffsets`). `Load` reads a variable the way expressions do and gives its
abstract value; each property says that a statement, in any reachable state,
changes the abstract value as `StateVariables` says. The statements are
assignment of a value, `delete`, assignment of arrays and structs within
storage and from memory or calldata, a new length, and `push`.

The hash of a slot is taken to be injective and never to meet the slots of the
variables. The unrolled forms of `clearArray` are modelled by the loop. The
words that are written are dirty as often as clean: arithmetic leaves anything
beyond the width of a type (`ExpressionCompiler.cpp:319`, `:1324`), calldata
contains anything, and no code cleans it on the way to the storage. `Cleaned` is
the value that such a word stands for.

What the code does not provide is stated in the properties as an exact
exception, and contracts of the run meet each of them:

* a dirty unsigned word changes the values behind its own in the same slot
  (`LValue.cpp:248`): `WriteChangesOnePlace` claims the place itself, the places
  in front and all other slots (`SpillsBehind`). What the documentation promises
  is `WritesAreCleaned`, which a run of its own refutes. Bytes of a slot that no
  item has may keep such bits, so `NoOrphanSlots` is about the bytes of items;
* the cleanup at the end of `copyArrayToStorage` treats freed slots as single
  items of the base type, so the second and later packed items of a slot that
  was not written stay (`ArrayUtils.cpp:267`, operator `Missed`);
* its loop counts slots of the source, so between static packed arrays of
  different length or width it copies what is behind the last element too, and
  may write slots behind the target (`ArrayUtils.cpp:161`, `CopiedRight`). The
  exception is stated for the array that is assigned; nested arrays whose inner
  arrays differ in that way do not occur in the run;
* a new length leaves the packed items in the last slot that is kept, so growth
  may show them (`ResizeKeepsElements` claims zeros only for items with slots of
  their own);
* a byte array that is copied from memory keeps the bytes that follow it there,
  in its last slot.

## 3. Runs

| Run | Instance | Question | Result |
|---|---|---|---|
| `analysis` | 1 parse and any number of compilations of programs of two kinds: 3 paths with imports both ways, libraries, missing and broken files; 2 paths with 19 texts of contracts that inherit and create, of declarations that repeat a name, and of failures in each phase | Is the order topological and complete; does the verdict agree with the errors; are created contracts compiled first when no abstract contract is involved; does every call return? | holds |
| `codegen` | 2 paths, 6 texts with inheritance, creation and a fatal error, 2 parses, any number of compilations | Types; has every listed source a tree; are pointers in `m_contracts` live, dependencies acyclic, code and documentation those of the named contract; is the interface implemented? | holds |
| `syntax` | programs and statements as tokens, texts of up to 5 characters, pragmas of one or two ranges, hierarchies of up to 5 contracts (bases listed twice, the contract itself and undefined ones among them), a name declared in several scopes, bases and units | Do locations, precedence, JSON, indentation, syntax errors, tokens, versions, linearisations and references come out as they should? | holds |
| `contracts` | words of 2 bytes of 4 bits; statements, expressions, modifiers, calls, creation | Does the code of a contract do what the contract means? | holds |
| `modifier_twice` | a function with one modifier applied twice | Is each modifier evaluated with its own arguments? | violated, see below |
| `storage` | slots of 4 bytes, 15 contracts: byte arrays of up to 6 bytes, arrays of one-slot items, nested arrays, arrays of structs and of packed arrays, packed values around structs with mappings, arrays of mappings, static arrays of different length and width, packed arrays with widening; clean and dirty words | Has every statement, in every reachable state, the effect that the source text promises, and are unused slots free? | holds |
| `dirty_writes` | the same contracts | Does an assignment change one value, whatever word it is given? | violated, see below |
| `algorithms` | words of 3 bytes of 2 bits; all rules, assemblies of up to 3-byte sizes with a sub-assembly, all pairs of types | Do both sides of each rule agree; does every reference in the bytecode mean its item; is every library linked; do conversions keep values? | holds |
| `eliminator` | words of 16 values, 19 phrases, blocks of up to 4 phrases, 2 scenarios, reach 3 | Is all knowledge true, is the optimised code equivalent, does no assertion fail? | holds |
| `optimiser` | an entry and three blocks: jumps, calls, returns, loops, fall-through; 2 scenarios | Does the optimised program do the same, does no assertion fail, does `optimise` end? | holds |
| `erased_predecessor` | the same programs | Are all blocks present that links lead to? | violated, see below |
| `constant_subtraction` | words of 15 bytes of 2 bits, up to 2 constants | Do constants keep their values? | violated, see below |

Bounds. Three paths are the smallest number with an import cycle that is entered
from outside and one that is not (texts with contracts need two: one that
declares and one that imports); two parses are what it takes to make a pointer
stale; five contract names let one text hold a chain and another use it. Four
phrases (each up to three instructions) allow a load, a store that may alias it,
another load and a break, or a store on each side of a breaking instruction; a
reach of 3 makes the generator run out of stack within such blocks, and code
that reaches further crashes. The two scenarios differ in which stack elements
are equal, so aliasing and non-aliasing slots both occur. Words of 16 values
have wrap-around, signed corner cases and overlapping memory words. With slots
of 4 bytes, byte arrays of 0 to 3 bytes are short, 4 bytes fill one data slot
and 5 or 6 need a second, and five items of one byte, or three of two bytes,
need two slots, so that a static target may be longer by items in the last slot
of the source and by slots of its own; lengths are bounded by the type's
`length` field, and a byte of a value is 0 or 15, which has all bits and the
sign set. Three blocks and an entry are enough for a call from two places, a
loop that is entered in the middle, a block that is only fallen into and one
that nothing reaches. A contract of the `contracts` run combines two or three
constructs (a loop in a modifier, a return in a loop, a tuple with storage and
stack places); an execution has up to 2^11 steps and the reference a fuel of 40
nested evaluations, which only endless loops and recursions exceed. In
`algorithms` words of 3 bytes have types of three widths, and rules with two or
more variables take the words around the powers of two.

Deadlock checking is off where a block or a list of constants simply ends, where
a behaviour is one input (`syntax`, `contracts`, `algorithms`), and in the
storage run, where calls to a contract may simply stop.

Fairness. `CallsReturn` and `OptimiseEnds` need it. `FairSpec` is weak fairness
of `Step`, the steps inside a call, and the specification of
`AssemblyOptimiser` weak fairness of its next step (written with `Ended` in the
place of ENABLED). Both run to their end
because the code is sequential and waits for nothing; no fairness is assumed of
the caller.

### What the violations show

* `modifier_twice`: the parameters of a modifier are local variables that are
  found by their declaration. When the inner application of the same modifier
  adds them again, the outer one reads the inner one's.
* `erased_predecessor`: `setPrevLinks` may put a block in front of one that is
  reached although it is not reached itself; `gatherKnowledge` erases it, and
  `rebuildCode` follows the link with `at()`.
* `constant_subtraction`: making the lower part negative does not add one to
  the upper part, so `3 * 2**k - 1` becomes `2 * 2**k - 1`.
* `dirty_writes`: an unsigned word is combined with its slot as it is. After
  `uint8 a; uint8 b; a = 255; a++` the variable `b` is 1.

Other disagreements that the models show, and that the properties of the passing
runs leave out (each is at its line in the list of hazards):

* `contractDependencies` belongs to the contract whose text has the `new`, and
  `compileContract` returns at once for a contract that is not fully
  implemented. If an abstract contract creates `C` in a function that `B`
  inherits, `B` is compiled before `C` and the assertion in
  `CompilerContext::compiledContract` fails.
* `sourceMapping` caches its result, and `compile` does not clear it.
* A unit alias that is declared twice is reported while `registerDeclarations`
  returns true, and only a later phase that looks at all errors notices it. With
  no contract in the program none does: `import "b" as X; import "b" as X;` has
  an error and `parse` returns true. `ParseVerdict` says that this is the only
  case (`Overlooked`).
* `m_knownSha3Hashes` is keyed by the classes of the words read, not by the
  length, so hashes of 31 and 32 bytes at one address are one class. The
  programs of the runs hash whole words, and no property is about other hashes.
* The loop of `copyArrayToStorage` ends with the slots of the source, so
  `bytes2[1] = byte[1]` copies the whole slot of one-byte items, each widened to
  two bytes, and reaches the slot after the target (with the exceptions above).
* A base that is listed again without arguments takes an empty list of
  arguments, although another contract of the hierarchy gives them.

## 4. Proofs

All theorems hold for all values of the constants. About `CompilerStack` they
assume `ConstantsAssumption` (finitely many paths and contracts per text, units
of the right shape, imports resolve to paths).

| Theorem | States | Module |
|---|---|---|
| `TypeCorrect` | `Spec => []TypeOK` | `CompilerStack_proofs` |
| `OrderedSourcesAlwaysParsed` | `Spec => []OrderedSourcesParsed` | `CompilerStack_proofs` |
| `DependenciesAlwaysAcyclic` | `Spec => []DependenciesAcyclic` | `CompilerStack_proofs` |
| `Invariance` | `Spec => []IInv` | `CompilerStack_proofs` |
| `OrderAlwaysTopological` | `Spec => []TopologicalOrder` | `CompilerStack_parse_proofs` |
| `ParseVerdictHolds` | `Spec => ParseVerdict`, an action property | `CompilerStack_parse_proofs` |
| `ConcreteContractsAlwaysCompiled` | `Spec => []ConcreteContractsCompiled` | `CompilerStack_contracts_proofs` |
| `ObjectAlwaysOfUniqueContract` | `Spec /\ KeepsRemappings => []ObjectOfUniqueContract` | `CompilerStack_contracts_proofs` |
| `MetadataOfUniqueContract` | `Spec /\ KeepsRemappings => [](UniqueNames => MetadataOfContract)` | `CompilerStack_contracts_proofs` |
| `ContractsLiveAfterSuccess` | `Spec /\ KeepsRemappings => [](parseSuccessful => ContractsLive)` | `CompilerStack_contracts_proofs` |
| `CompilerImplementsInterface` | `Spec => ImplementsInterface` | `CompilerStack_parse_proofs` |
| `AppendKeepsPlaces`, `LinkFillsIn`, `LinkKeepsTheRest`, `LinkTwice`, `LinkOfAppended` | about `append` and `link` | `LinkerObject` |
| `LinearisationAlwaysSuitsBases` | `LinearisationSpec => []LinearisationSuitsBases` | `Linearisation_proofs` |
| `MergeKeepsOrder`, `MergeRefusesOnlyImpossible` | about `cThreeMerge` | `Linearisation_proofs` |
| `StoreRetrieves`, `StoreKeepsOthers`, `DeleteClears`, `ByteElementsAreItems` | about the code for values in slots | `Storage_proofs` |
| `PackedElementsApart`, `IncrementIsNextElement` | about the places of array elements | `Storage_proofs` |
| `MembersApart`, `MembersInside` | about `computeOffsets` | `Storage_proofs` |
| `MembersIndependent` | layout and code together | `Storage_proofs` |
| `ComparisonsFollowOrder`, `RangesAreIntervals` | about version pragmas | `VersionMatch` |

### The invariant of CompilerStack

`IInv` says what each phase hands to the next:

* `InvControl`: which flags are possible at which program counter;
* `InvSources`: while parsing, the worklist holds every source once and those
  already passed have trees of this call, and their imports are present;
* `InvSort`: the stack of the depth-first search has no repetitions, and what
  is marked is on the stack or in the order;
* `InvOrder`: the order has no repetitions and lists parsed sources whose
  imports are present;
* `InvAst`: scopes and annotations only mention contracts of ordered sources;
* `InvDeps`: while names are resolved, edges lead to contracts that are already
  linearised, and those still ahead are not: with this, adding the edges of one
  contract cannot close a cycle through inheritance, and the type checker's
  test at each `new` keeps `deps` acyclic;
* `InvContracts`, `InvCompile`: the tables and the call stack of `compile`.

There is one lemma per part, with one step per action under it. Acyclicity is
stated without transitive closure (every non-empty set of nodes has one without
a successor in the set), which makes it preserved by two simple arguments: an
edge from a fresh source, and an edge that the cycle test admits.

### What the other theorems add to it

* *Order.* `InvClosed`: when the search begins, and until the sources change,
  all sources are read together with their imports. `InvSearch`: a finished
  source has only seen imports; what is on the stack is reachable from what is
  below it. So an import of the source that is finished next is finished, or it
  is on the stack and the two import each other. Reachability is the least set
  that contains the roots and is closed under imports.
* *Verdict.* The code keeps `m_errors` and a local `noErrors`. Registration
  reports a second contract of the same name without clearing `noErrors`
  (`CompilerStack.cpp`, `parse`), or a unit alias that repeats, and goes on.
  `InvVerdict`: where the two differ, some source still has a first contract to
  be checked, and that check looks at all of `m_errors`, or nothing has a
  contract and an alias repeats. `InvNoted`: a repeated alias is among the errors
  once its source is registered, so the exception is exact.
* *Compile.* `InvRecorded`, `InvChecked`: linearisations and new-expressions of
  every checked contract are in `deps`. `InvFrames`: every dependency of a
  contract that is being compiled is still to be visited, compiled, abstract, or
  in the frame above; and the compiled contracts are closed under creation.
  `InvResult` concludes for the assertion in `compiledContract`. The hypotheses
  of `ConcreteContractsCompiled` (unique names, abstract contracts create
  nothing, nothing creates an abstract contract) are used where the code relies
  on them: names in `m_contracts`, and the early return for abstract contracts.
* *Contracts.* `InvEntries`: all that an entry of `m_contracts` holds belongs to
  contracts of that name in reachable sources. For this, a later `parse` must
  reach the same sources; `KeepsRemappings` says that `setRemappings` does not
  change the remappings on the way. Without it the entries of sources that are
  no longer reached stay (the hazard at `CompilerStack.cpp:63`).
* *Refinement.* One lemma per kind of step; most are stutters because `pc` maps
  to the same phase. The steps that end a call need `InvVerdict` and `IInv`.

Trying to prove `ConcreteContractsCompiled` showed a flaw of an earlier form of
the model: `result` kept the value of the last call while the next one ran, so
an internal error of one `compile` was blamed on the trees of the next `parse`.
The run did not meet it because its configuration has one `parse`. Now a call
that starts sets `result` to `"none"`, as there is no result yet.

### LinkerObject

`LinkFillsIn` is about objects whose missing addresses have places inside the
code that do not overlap (`WellPlaced`). `AppendKeepsPlaces` shows that `append`
keeps that, and the run `algorithms` checks it for assembled code, as part of
`LinkedEverywhere`. `LinkTwice` and `LinkOfAppended` say that it does not matter
when objects are linked. `AddressBytes` is only assumed to be positive. The key
is that a byte is in at most one place (`OnePlace`), so the order in which
`link` writes is irrelevant.

### Linearisation

The invariant of the state machine is `InvHierarchy`: every contract resolved so
far suits its bases (`SuitsBases`), and as long as none has been refused, every
base is an earlier contract and the linearisation of a contract holds exactly the
contract and its ancestors. The second part is what the next merge needs of the
lists it is given. The step for one contract rests on two facts about the merge:

* `MergeKeepsOrder`: the result has the elements of all lists, each once, in the
  order of every list. The invariant of the turns (`Merged`) is that the result
  holds exactly the elements already passed in the lists, each once and in the
  order of every list, and none that is still ahead.
* `MergeRefusesOnlyImpossible`: where the merge stops with elements left, every
  head is in some tail (`Possible` is empty). If some order suited all lists, the
  element it has first of those left would be a head in no tail. So the greedy
  choice never refuses lists that have a good order.

The theorem is for every sequence of contracts with any lists of bases, of any
length, repeated or undefined bases included. `Linearisation` has no constants,
and nothing is assumed.

### Storage

Storage is any map from slots to words; `SlotBytes` and `Radix` are numbers
greater than 1 (32 and 256 on the EVM), and of the EVM's `OR` only that it maps
bytes to bytes and 0 is neutral (`OrAssumption`; the run `storage` takes the real
one). The words that are stored are any words.

A value is read by shifting the slot and extending what is there (`Extracted`),
and `ExtractedLocal` says that this depends on the value's own bytes. `OR` meets
a zero byte in the value's own bytes and, if what is stored is `Contained` in
them (`StoredBytesFit`: a signed value or byte string by its mask, an unsigned
one only if it is clean), in all others, so that each byte of the new word is
known (`StoredWordAt`); an unsigned one that is not contained changes bytes
behind its own only. From this follow `StoreRetrieves` (what is read is the word
`Cleaned`) and `StoreKeepsOthers` (other slots, what is in front of the value,
and, unless it is a dirty unsigned one, what is behind it).
`ByteElementsAreItems` carries all of it over to elements of `bytes`, for which
the compiler has other code.

`PackedElementsApart` needs products and quotients of `SlotBytes` by the size of
an element, which need not divide it; they are in three lemmas of their own.
`IncrementIsNextElement` says that the loops of `copyArrayToStorage` and the
index access agree on where elements are.

`MembersIndependent` composes these with `MembersApart` and with the order of
members (`MemberBehind`): an assignment to one member gives it the word's value
and leaves every earlier member alone, and every later one unless the word is
unsigned and dirty. It is the general form of `WriteChangesOnePlace` and
`DeleteResets` for state variables and members of value types; the invariants
themselves range over nested types, whose values are computed by recursive
operators.

`MembersApart` assumes what the types guarantee: a member has 1 to `SlotBytes`
bytes, at least one slot, and whole slots if it has more than one. The loop of
`computeOffsets` is a recursive function here; that it exists and satisfies its
equation (`StepsExist`, `CursorSteps`), and that the cursor never goes back
(`CursorForward`), is shown by induction for a set of numbers (`SetInduction`,
from the well-foundedness of `<`). Places are compared lexicographically, so that
no product with `SlotBytes` is needed.

### Version pragmas

`ComparisonsFollowOrder` and `RangesAreIntervals` are about complete versions in
pragmas (three numbers, no wildcard) and numbers below half of the unsigned
range. There the difference of two unsigned numbers, taken as an `int`, has the
sign of the real one (`SignedDifference`), and the loop over the levels finds the
first that differs (`CmpIsFirstDifference`, for any number of levels). With
larger numbers the order is not that of the numbers. Missing levels and
wildcards, where `^0` and pre-releases deviate from intervals, are only
model-checked, as is the parser.

### Only model-checked

* `CallsReturn` and `OptimiseEnds`: liveness.
* `MetadataOfContract` for names that are not unique, and `ContractsLive` while a
  second `parse` of the same sources is running or has failed: they hold because
  the second `parse` makes the same decisions as the first, in the same order. An
  invariant would have to remember the whole first `parse`.
* `AssembledReferences`, and that assembled code is `WellPlaced`: `assemble` is
  recursive over sub-assemblies and folds over items.
* The optimiser, the front end apart from linearisation and the matching of
  versions, code generation, and the properties of `Storage` for arrays, nested
  types and byte arrays as a whole: trees, patterns, types and machines need
  recursive operators and bit operations, which the prover does not handle.

## 5. Not modelled

* Formatting, printing, the text of JSON output and command line handling;
  `GlobalContext`, a fixed table; `ConstantEvaluator`.
* In `CompilerStack`: names of several parts, such as `X.A` for a contract behind
  a unit alias (`NameAndTypeResolver` has them).
* The type checker's rules, apart from conversions, operators, contract
  dependencies and completeness.
* Scanner: keywords, escapes in strings (a string keeps its characters), the
  text of documentation comments. Inline assembly is one token for the parser.
* Code generation: parameters of the created contract's own constructor, arrays
  in calldata and inline arrays, external calls, events, members, shifts, `new`,
  structs and arrays as places (their storage operations are in `Storage`),
  copying arrays and structs to memory in `convertType`, fixed point.
* Of `LValue` and `ArrayUtils`: memory items, `copyArrayToMemory`, and arrays of
  arrays or structs that come from memory.
* `GasMeter`, `PathGasMeter`, `GasEstimator`, the Why3 translator, `liblll`.

`ConstantOptimiser` models copying from the code's data, but on words that fit
TLC's integers it is never the cheapest method.

## 6. Plan

1. `Knowledge`, an abstract specification of `KnownState` (any class of equal
   value may be found, any fact may be forgotten, only sound facts are added),
   proved sound for all words; `BasicBlock` shown to implement it.
2. Induction over the copy loops of `ArrayUtils` from `IncrementIsNextElement`:
   an assignment of packed arrays copies every element.
3. The places of the code in `assemble` as a recursive function over items, so
   that `WellPlaced` follows for assembled code from `AppendKeepsPlaces`.
4. Hashes of parts of words, with the exact exception that the key of
   `m_knownSha3Hashes` causes; inline assembly; `PathGasMeter`.

## 7. How to run

    tlc -workers 2 -config MCAnalysis.cfg MCAnalysis
    tlc -workers 2 -config Contracts.cfg MCContracts
    tlapm CompilerStack_proofs.tla        (and the other modules of section 4)

Each run of `PROJECT.json` names its module and configuration.
