-------------------------- MODULE CompilerContext ---------------------------
(***************************************************************************)
(* libsolidity/codegen/CompilerContext and CompilerUtils: what the code    *)
(* generator knows while it writes the code of one contract.               *)
(*                                                                         *)
(* Variables are of type uint256, one element of the stack and one slot of *)
(* the storage each, and have different names; a name stands for its       *)
(* declaration.  A function is named by its contract, its name and the     *)
(* number of its parameters.                                               *)
(*                                                                         *)
(* The visitor of the syntax tree is a list of commands: to visit a node   *)
(* is to put the commands for it in front of the list (todo).              *)
(***************************************************************************)
EXTENDS Ast, Evm, TLC

CONSTANTS
    SelectorOf(_, _),    \* the hash of a signature: name and number of parameters
    SelectorBytes        \* CompilerUtils::dataStartOffset

-----------------------------------------------------------------------------
(* The parts of a contract.                                                *)

PartsOf(contract, type) == SelectSeq(contract.kids.subNodes, LAMBDA n : n.type = type)
StateVariables(contract) == PartsOf(contract, "VariableDeclaration")
FunctionModifiers(contract) == PartsOf(contract, "ModifierDefinition")
DefinedFunctions(contract) == PartsOf(contract, "FunctionDefinition")
IsConstructor(contract, f) == f.attr.name = contract.attr.name
Constructor(contract) == SelectSeq(DefinedFunctions(contract), LAMBDA f : IsConstructor(contract, f))
Parameters(f) == f.kids.parameters[1].kids.parameters
ReturnParameters(f) == f.kids.returnParameters[1].kids.parameters
NamesOf(variables) == [i \in DOMAIN variables |-> variables[i].attr.name]
\* The variables that are declared anywhere in the body.
LocalVariables(f) ==
    LET declarations == SelectSeq(Descendants(f.kids.body[1]),
                                  LAMBDA n : n.type = "VariableDeclarationStatement") IN
    SelectSeq(FlattenSeq([i \in DOMAIN declarations |-> declarations[i].kids.variables]),
              LAMBDA v : ~Missing(v))

FunctionId(contract, f) ==
    [contract |-> contract.attr.name, name |-> f.attr.name, arity |-> Len(Parameters(f))]
GetterId(contract, v) == [contract |-> contract.attr.name, name |-> v.attr.name, arity |-> 0]
ContractAt(hierarchy, name) == CHOOSE i \in DOMAIN hierarchy : hierarchy[i].attr.name = name
\* The declaration that a name stands for, a function or a state variable.
DeclarationOf(hierarchy, id) ==
    LET parts == hierarchy[ContractAt(hierarchy, id.contract)].kids.subNodes
        is(n) == /\ n.type \in {"FunctionDefinition", "VariableDeclaration"} /\ n.attr.name = id.name
                 /\ n.type = "FunctionDefinition" => Len(Parameters(n)) = id.arity IN
    parts[CHOOSE i \in DOMAIN parts : is(parts[i])]

\* The first contract from a place of the hierarchy on that has the function.
VirtualFunction(hierarchy, name, arity, from) ==
    LET has(i, f) == f.attr.name = name /\ ~IsConstructor(hierarchy[i], f) /\ Len(Parameters(f)) = arity
        found == {i \in from..Len(hierarchy) : \E f \in Range(DefinedFunctions(hierarchy[i])) : has(i, f)} IN
    [contract |-> hierarchy[CHOOSE i \in found : \A j \in found : i <= j].attr.name,
     name |-> name, arity |-> arity]
SuperContract(hierarchy, contract) == ContractAt(hierarchy, contract) + 1
NextConstructor(hierarchy, contract) ==
    LET found == {i \in SuperContract(hierarchy, contract)..Len(hierarchy) :
                    Constructor(hierarchy[i]) # <<>>} IN
    IF found = {} THEN <<>> ELSE <<hierarchy[CHOOSE i \in found : \A j \in found : i <= j]>>
FunctionModifier(hierarchy, name) ==
    LET all == FlattenSeq([i \in DOMAIN hierarchy |-> FunctionModifiers(hierarchy[i])]) IN
    SelectSeq(all, LAMBDA m : m.attr.name = name)[1]

\* The slots of the state variables, those of bases first; constants have none.
StorageLayout(hierarchy) ==
    LET names == FlattenSeq([i \in DOMAIN hierarchy |->
                               NamesOf(SelectSeq(StateVariables(hierarchy[Len(hierarchy) + 1 - i]),
                                                 LAMBDA v : ~v.attr.spec.isConstant))]) IN
    [name \in Range(names) |-> (CHOOSE i \in DOMAIN names : names[i] = name) - 1]
ConstantsOf(hierarchy) ==
    LET all == SelectSeq(FlattenSeq([i \in DOMAIN hierarchy |-> StateVariables(hierarchy[i])]),
                         LAMBDA v : v.attr.spec.isConstant) IN
    [name \in Range(NamesOf(all)) |-> (CHOOSE v \in Range(all) : v.attr.name = name).kids.value[1]]

-----------------------------------------------------------------------------
(* The context.                                                            *)

NoLValue == [kind |-> "none"]
ErrorTag == 0
NewContext(hierarchy, optimise) ==
    [hierarchy |-> hierarchy, optimise |-> optimise,
     stateVariables |-> StorageLayout(hierarchy), constants |-> ConstantsOf(hierarchy),
     items |-> <<>>, deposit |-> 0, tags |-> 0,        \* the assembly
     locals |-> <<>>,                                  \* distance from the bottom of the stack
     labels |-> <<>>, queue |-> <<>>, compiled |-> {}, \* FunctionCompilationQueue
     breakTags |-> <<>>, continueTags |-> <<>>, returnTags |-> <<>>,
     current |-> <<>>, depth |-> 0,                    \* m_currentFunction, m_modifierDepth + 1
     baseArguments |-> <<>>,
     lvalue |-> NoLValue, components |-> <<>>,         \* m_currentLValue, those of open tuples
     todo |-> <<>>, failed |-> FALSE]                  \* an assertion or "Stack too deep"

DepositOf(items) == Accumulated(LAMBDA sum, item : sum + Deposit(item), 0, items)
\* dupInstruction and swapInstruction reach 16 elements.
Reachable(item) == item.op \in {"DUP", "SWAP"} => item.n \in 1..16
Appended(c, items) ==
    [c EXCEPT !.items = @ \o items, !.deposit = @ + DepositOf(items),
              !.failed = @ \/ \E i \in DOMAIN items : ~Reachable(items[i])]
Require(c, condition) == [c EXCEPT !.failed = @ \/ ~condition]
AdjustStackOffset(c, adjustment) == [c EXCEPT !.deposit = @ + adjustment]

AddVariable(c, name, offsetToCurrent) ==
    [Require(c, c.deposit >= offsetToCurrent) EXCEPT
       !.locals = (name :> (c.deposit - offsetToCurrent)) @@ @]
RemoveVariables(c, names) ==
    [Require(c, names \subseteq DOMAIN c.locals) EXCEPT
       !.locals = [n \in DOMAIN @ \ names |-> @[n]]]
BaseToCurrentStackOffset(c, baseOffset) == c.deposit - baseOffset - 1

\* FunctionCompilationQueue.
EntryLabel(c, id) ==
    IF id \in DOMAIN c.labels THEN c
    ELSE [c EXCEPT !.tags = @ + 1, !.labels = (id :> (c.tags + 1)) @@ @, !.queue = Append(@, id)]
PushEntryLabel(c, id) ==
    With(EntryLabel(c, id), LAMBDA d : Appended(d, <<Item("PUSHTAG", d.labels[id])>>))
QueueStarted(c, id) ==
    [c EXCEPT !.queue = IF @ # <<>> /\ @[1] = id THEN Tail(@) ELSE @, !.compiled = @ \cup {id}]
StartFunction(c, id) ==
    With(EntryLabel(QueueStarted(c, id), id), LAMBDA d : Appended(d, <<Item("TAG", d.labels[id])>>))
NextFunctionToCompile(c) == SelectSeq(c.queue, LAMBDA id : id \notin c.compiled)

-----------------------------------------------------------------------------
(* CompilerUtils: moving about the stack and the memory.                   *)

Times(n, items) == FlattenSeq([i \in 1..n |-> items])
PushTag(t) == Item("PUSHTAG", t)
Tag(t) == Item("TAG", t)
JumpTo(t) == <<PushTag(t), Op("JUMP")>>
ConditionalJumpTo(t) == <<PushTag(t), Op("JUMPI")>>

RotateStackUp(items) == [i \in 1..(items - 1) |-> Swap(items - i)]
RotateStackDown(items) == [i \in 1..(items - 1) |-> Swap(i)]
MoveIntoStack(depth, size) ==
    IF depth <= size THEN Times(depth, RotateStackDown(depth + size))
    ELSE Times(size, RotateStackUp(depth + size))
MoveToStackTop(depth, size) == MoveIntoStack(size, depth)
CopyToStackTop(depth, size) == Times(size, <<Dup(depth)>>)
PopStackSlots(n) == Times(n, <<Op("POP")>>)
MoveToStackVariable(c, name) ==
    LET position == BaseToCurrentStackOffset(c, c.locals[name]) IN
    IF name \notin DOMAIN c.locals \/ position < 1 THEN Require(c, FALSE)
    ELSE Appended(c, <<Swap(position), Op("POP")>>)

FreeMemoryPointer == 2 * WordBytes
StoreFreeMemoryPointer == <<Push(FreeMemoryPointer), Op("MSTORE")>>
FetchFreeMemoryPointer == <<Push(FreeMemoryPointer), Op("MLOAD")>>
InitialiseFreeMemoryPointer == <<Push(FreeMemoryPointer + WordBytes)>> \o StoreFreeMemoryPointer
ToSizeAfterFreeMemoryPointer ==
    FetchFreeMemoryPointer \o <<Dup(1), Swap(2), Op("SUB"), Swap(1)>>
\* A number of so many bytes, at the offset on the stack.
LoadFromCalldata(bytes) ==
    <<Op("CALLDATALOAD")>>
    \o (IF bytes = WordBytes THEN <<>>
        ELSE <<Push(Base ^ (WordBytes - bytes)), Swap(1), Op("DIV")>>)
LoadFromCalldataDynamic ==
    <<Dup(1)>> \o LoadFromCalldata(WordBytes) \o MoveToStackTop(1, 1) \o <<Push(WordBytes), Op("ADD")>>
StoreInMemoryDynamic == <<Dup(2), Op("MSTORE"), Push(WordBytes), Op("ADD")>>
EncodeToMemory(n) ==
    <<Dup(1)>> \o FlattenSeq([i \in 1..n |-> CopyToStackTop(n - i + 3, 1) \o StoreInMemoryDynamic])
    \o <<Swap(n + 1)>> \o PopStackSlots(n + 1)
=============================================================================
