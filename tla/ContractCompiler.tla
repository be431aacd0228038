-------------------------- MODULE ContractCompiler --------------------------
(***************************************************************************)
(* libsolidity/codegen/ContractCompiler: the code of a contract.           *)
(*                                                                         *)
(* The runtime code looks for the function that is called, unpacks its     *)
(* arguments, runs it and packs what it returns; the functions that it     *)
(* needs follow, in the order in which they are first used.  The creation  *)
(* code initialises the state and runs the constructors.                   *)
(***************************************************************************)
EXTENDS ExpressionCompiler

-----------------------------------------------------------------------------
(* Commands.                                                               *)

AddVariableCommand(name, offset) == [do |-> "variable", name |-> name, offset |-> offset]
\* StackHeightChecker: the stack must be as high at the end as here.
Checked(c, commands) == Append(commands, [do |-> "check", height |-> c.deposit])
StackVariableInitialisation(names) ==
    FlattenSeq([i \in DOMAIN names |-> <<AddVariableCommand(names[i], 0), Emit(<<Push(0)>>)>>])
InLoop(continueTag, breakTag, commands) ==
    <<[do |-> "loop", continue |-> continueTag, break |-> breakTag]>> \o commands \o <<Command("endloop")>>

-----------------------------------------------------------------------------
(* Statements; the tags of a statement are those above base.               *)

VisitIf(c, n, base) ==
    LET falseTag == base + 1
        endTag == IF n.kids.falseBody = <<>> THEN falseTag ELSE base + 2 IN
    Checked(c, <<Visit(n.kids.condition[1]), Emit(<<Op("ISZERO")>> \o ConditionalJumpTo(falseTag)),
                 Visit(n.kids.trueBody[1])>>
               \o (IF n.kids.falseBody = <<>> THEN <<>>
                   ELSE <<Emit(JumpTo(endTag) \o <<Tag(falseTag)>>), Visit(n.kids.falseBody[1])>>)
               \o <<Emit(<<Tag(endTag)>>)>>)

VisitWhile(c, n, base) ==
    LET loopStart == base + 1
        loopEnd == base + 2 IN
    Checked(c, InLoop(loopStart, loopEnd,
        <<Emit(<<Tag(loopStart)>>), Visit(n.kids.condition[1]),
          Emit(<<Op("ISZERO")>> \o ConditionalJumpTo(loopEnd)),
          Visit(n.kids.body[1]), Emit(JumpTo(loopStart) \o <<Tag(loopEnd)>>)>>))

VisitFor(c, n, base) ==
    LET loopStart == base + 1
        loopEnd == base + 2
        loopNext == base + 3 IN
    Checked(c, InLoop(loopNext, loopEnd,
        Visits(n.kids.initExpression) \o <<Emit(<<Tag(loopStart)>>)>>
        \o (IF n.kids.condExpression = <<>> THEN <<>>
            ELSE <<Visit(n.kids.condExpression[1]), Emit(<<Op("ISZERO")>> \o ConditionalJumpTo(loopEnd))>>)
        \o <<Visit(n.kids.body[1]), Emit(<<Tag(loopNext)>>)>> \o Visits(n.kids.loopExpression)
        \o <<Emit(JumpTo(loopStart) \o <<Tag(loopEnd)>>)>>))

VisitContinue(c) == IF c.continueTags = <<>> THEN <<>> ELSE <<Emit(JumpTo(Last(c.continueTags)))>>
VisitBreak(c) == IF c.breakTags = <<>> THEN <<>> ELSE <<Emit(JumpTo(Last(c.breakTags)))>>

\* The values go to the return parameters, the last, which is on top, first.
VisitReturn(c, n) ==
    LET returns == NamesOf(ReturnParameters(DeclarationOf(c.hierarchy, c.current)))
        k == Len(returns)
        type == TypeOf(c.hierarchy, n.kids.expression[1])
        expected == IF type.tuple \/ k # 1 THEN TupleType([i \in 1..k |-> "uint"]) ELSE Single("uint") IN
    (IF n.kids.expression = <<>> THEN <<>>
     ELSE <<Visit(n.kids.expression[1]), Emit(ConvertType(type, expected))>>
          \o [i \in 1..k |-> [do |-> "move", name |-> returns[k + 1 - i]]])
    \o <<Emit(JumpTo(Last(c.returnTags)))>>

\* annotation().assignments: the variable for each of the values.
Assignments(variables, sources) ==
    LET targets == [i \in DOMAIN variables |-> PartType(variables[i])] IN
    [i \in DOMAIN sources |->
        LET j == TargetOf(sources, targets, i) IN IF j = 0 THEN Null ELSE variables[j]]
VisitVariableDeclarationStatement(c, n) ==
    LET sources == TypeOf(c.hierarchy, n.kids.initialValue[1]).parts
        assignments == Assignments(n.kids.variables, sources)
        put(v) == IF Missing(v) THEN Emit(PopStackSlots(1)) ELSE [do |-> "move", name |-> v.attr.name] IN
    Checked(c, IF n.kids.initialValue = <<>> THEN <<>>
               ELSE <<Visit(n.kids.initialValue[1])>>
                    \o [i \in DOMAIN assignments |-> put(assignments[Len(assignments) + 1 - i])])

VisitExpressionStatement(c, n) ==
    LET expression == n.kids.expression[1] IN
    Checked(c, <<Visit(expression),
                 Emit(PopStackSlots(SizeOnStack(TypeOf(c.hierarchy, expression).parts)))>>)

StatementCommands(c, n, base) ==
    CASE n.type = "Block" -> Visits(n.kids.statements)
      [] n.type = "IfStatement" -> VisitIf(c, n, base)
      [] n.type = "WhileStatement" -> VisitWhile(c, n, base)
      [] n.type = "ForStatement" -> VisitFor(c, n, base)
      [] n.type = "Continue" -> VisitContinue(c)
      [] n.type = "Break" -> VisitBreak(c)
      [] n.type = "Return" -> VisitReturn(c, n)
      [] n.type = "Throw" -> <<Emit(JumpTo(ErrorTag))>>
      [] n.type = "VariableDeclarationStatement" -> VisitVariableDeclarationStatement(c, n)
      [] n.type = "ExpressionStatement" -> VisitExpressionStatement(c, n)
      [] n.type = "PlaceholderStatement" -> Checked(c, <<Command("modifier")>>)
Statements == {"Block", "IfStatement", "WhileStatement", "ForStatement", "Continue", "Break", "Return", "Throw",
               "VariableDeclarationStatement", "ExpressionStatement", "PlaceholderStatement"}

-----------------------------------------------------------------------------
(* Functions and modifiers.                                                *)

\* appendModifierOrFunctionCode: the next modifier, or the body if there is
\* none left; return leaves only this layer.
CodeBlock(block, surplus) ==
    <<Command("pushreturn"), Visit(block), Command("popreturn"), Emit(PopStackSlots(surplus)),
      Command("leave")>>
AppendModifierOrFunctionCode(c) ==
    LET function == DeclarationOf(c.hierarchy, c.current)
        modifiers == function.kids.functionModifiers
        invocation == modifiers[c.depth + 1]
        name == invocation.kids.modifierName[1].attr.name
        modifier == FunctionModifier(c.hierarchy, name)
        arguments == invocation.kids.arguments
        parameters == NamesOf(Parameters(modifier))
        locals == NamesOf(LocalVariables(modifier))
        isBase == \E i \in DOMAIN c.hierarchy : c.hierarchy[i].attr.name = name
        commands ==
            CASE c.depth >= Len(modifiers) -> CodeBlock(function.kids.body[1], 0)
              [] isBase -> <<Command("modifier"), Command("leave")>>
              [] OTHER ->
                   FlattenSeq([i \in DOMAIN parameters |->
                                 <<AddVariableCommand(parameters[i], 0), Visit(arguments[i])>>])
                   \o StackVariableInitialisation(locals)
                   \o CodeBlock(modifier.kids.body[1], Len(parameters) + Len(locals)) IN
    [c EXCEPT !.depth = @ + 1, !.todo = commands \o @]

\* The stack is put in order: of each element its place, -1 if it goes.
RECURSIVE Reshuffle(_)
Reshuffle(layout) ==
    LET size == Len(layout)
        back == layout[size] IN
    CASE back = size - 1 -> <<>>
      [] back < 0 -> <<Op("POP")>> \o Reshuffle(Front(layout))
      [] OTHER -> <<Swap(size - back - 1)>>
                  \o Reshuffle([layout EXCEPT ![size] = layout[back + 1], ![back + 1] = back])
StackLayout(parameters, returns, locals) ==
    <<returns>> \o [i \in 1..parameters |-> -1] \o [i \in 1..returns |-> i - 1] \o [i \in 1..locals |-> -1]

BaseConstructorCommands(c, contract) ==
    LET id == FunctionId(contract, Constructor(contract)[1])
        arguments == c.baseArguments[id.contract] IN
    (IF id.arity = 0 THEN <<>>
     ELSE IF id.contract \notin DOMAIN c.baseArguments THEN <<Command("unknown")>>
     ELSE Visits(arguments))
    \o <<[do |-> "function", id |-> id]>>

\* Mutant: the arguments are found in the opposite order.
VisitFunctionReversed(c, id) ==
    LET f == DeclarationOf(c.hierarchy, id)
        parameters == NamesOf(Parameters(f))
        returns == NamesOf(ReturnParameters(f))
        locals == NamesOf(LocalVariables(f))
        k == Len(parameters)
        layout == StackLayout(k, Len(returns), Len(locals)) IN
    <<[do |-> "start", id |-> id], Adjust(k + 1)>>
    \o [i \in DOMAIN parameters |-> AddVariableCommand(parameters[i], i)]
    \o StackVariableInitialisation(returns \o locals)
    \o <<[do |-> "enter", id |-> id], Command("modifier"), Command("functionend"), Emit(Reshuffle(layout)),
         [do |-> "remove", names |-> Range(parameters \o returns \o locals)],
         Adjust(-Len(returns)), Emit(<<Op("JUMP")>>)>>

VisitFunction(c, id) ==
    LET f == DeclarationOf(c.hierarchy, id)
        isConstructor == id.name = id.contract
        next == NextConstructor(c.hierarchy, id.contract)
        parameters == NamesOf(Parameters(f))
        returns == NamesOf(ReturnParameters(f))
        locals == NamesOf(LocalVariables(f))
        k == Len(parameters)
        layout == StackLayout(k, Len(returns), Len(locals)) IN
    <<[do |-> "start", id |-> id], Adjust(IF isConstructor THEN 0 ELSE k + 1)>>
    \o [i \in DOMAIN parameters |-> AddVariableCommand(parameters[i], k + 1 - i)]
    \o StackVariableInitialisation(returns \o locals)
    \o (IF isConstructor /\ next # <<>> THEN <<[do |-> "base", contract |-> next[1]]>> ELSE <<>>)
    \o <<[do |-> "enter", id |-> id], Command("modifier"), Command("functionend"),
         IF Len(layout) > 17 THEN Command("unknown") ELSE Emit(Reshuffle(layout)),
         [do |-> "remove", names |-> Range(parameters \o returns \o locals)],
         Adjust(-Len(returns))>>
    \o (IF isConstructor THEN <<>> ELSE <<Emit(<<Op("JUMP")>>)>>)

\* The function that returns a state variable.
VisitGetter(c, id) ==
    <<[do |-> "start", id |-> id]>>
    \o (IF id.name \in DOMAIN c.constants THEN <<Visit(c.constants[id.name])>>
        ELSE <<Emit(<<Push(c.stateVariables[id.name]), Push(0), Op("POP"), Op("SLOAD")>>)>>)
    \o <<Emit(<<Dup(2), Op("JUMP")>>)>>

EnterFunction(c, id) ==
    [Require(c, c.returnTags = <<>>) EXCEPT
       !.breakTags = <<>>, !.continueTags = <<>>, !.current = id, !.depth = 0]
DeclarationCommands(c, id) ==
    IF DeclarationOf(c.hierarchy, id).type = "FunctionDefinition" THEN VisitFunction(c, id) ELSE VisitGetter(c, id)
AppendMissingFunctions(c) ==
    LET next == NextFunctionToCompile(c) IN
    IF next = <<>> THEN c
    ELSE [c EXCEPT !.deposit = 0, !.queue = next,
                   !.todo = DeclarationCommands(c, next[1]) \o <<Command("missing")>> \o @]

-----------------------------------------------------------------------------
(* The commands, one after the other.                                      *)

DoStatement(c, command) ==
    CASE command.do = "check" -> Require(c, c.deposit = command.height)
      [] command.do = "variable" -> AddVariable(c, command.name, command.offset)
      [] command.do = "remove" -> RemoveVariables(c, command.names)
      [] command.do = "move" -> MoveToStackVariable(c, command.name)
      [] command.do = "loop" -> [c EXCEPT !.continueTags = Append(@, command.continue),
                                          !.breakTags = Append(@, command.break)]
      [] command.do = "endloop" -> [c EXCEPT !.continueTags = Front(@), !.breakTags = Front(@)]
      [] command.do = "modifier" -> AppendModifierOrFunctionCode(c)
      [] command.do = "leave" -> [c EXCEPT !.depth = @ - 1]
      [] command.do = "pushreturn" -> [c EXCEPT !.tags = @ + 1, !.returnTags = Append(@, c.tags + 1)]
      [] command.do = "popreturn" -> [Appended(c, <<Tag(Last(c.returnTags))>>) EXCEPT !.returnTags = Front(@)]
      [] command.do = "start" -> StartFunction(c, command.id)
      [] command.do = "enter" -> EnterFunction(c, command.id)
      [] command.do = "functionend" -> Require(c, c.returnTags = <<>>)
      [] command.do = "base" -> [c EXCEPT !.todo = BaseConstructorCommands(c, command.contract) \o @]
      [] command.do = "function" -> [c EXCEPT !.todo = VisitFunction(c, command.id) \o @]
      [] command.do = "missing" -> AppendMissingFunctions(c)
StatementDos == {"check", "variable", "remove", "move", "loop", "endloop", "modifier", "leave", "pushreturn",
                 "popreturn", "start", "enter", "functionend", "base", "function", "missing"}

\* Three tags are set aside for each node.
DoVisit(c, n, lvalueRequested) ==
    LET commands == IF n.type \in Statements THEN StatementCommands(c, n, c.tags)
                    ELSE ExpressionCommands(c, n, lvalueRequested, c.tags) IN
    [c EXCEPT !.tags = @ + 3, !.todo = commands \o @]
DoCommand(c, command) ==
    CASE command.do = "visit" -> DoVisit(c, command.node, command.lvalueRequested)
      [] command.do \in StatementDos -> DoStatement(c, command)
      [] OTHER -> DoExpression(c, command)
DoNext(c) == DoCommand([c EXCEPT !.todo = Tail(@)], c.todo[1])
Compiled(c, commands) ==
    Iterated(DoNext, LAMBDA d : d.todo = <<>> \/ d.failed, [c EXCEPT !.todo = commands], 12)

-----------------------------------------------------------------------------
(* The runtime code.                                                       *)

\* ContractDefinition::interfaceFunctions, in the order of the hashes.
InExternalInterface(n) ==
    IF n.type = "FunctionDefinition" THEN n.attr.visibility \in {"Public", "Default"} /\ n.attr.name # ""
    ELSE n.type = "VariableDeclaration" /\ n.attr.spec.visibility = "Public"
IdOf(contract, n) == IF n.type = "FunctionDefinition" THEN FunctionId(contract, n) ELSE GetterId(contract, n)
Exported(hierarchy) ==
    LET shown(contract) ==
            LET fs == SelectSeq(DefinedFunctions(contract),
                                LAMBDA f : InExternalInterface(f) /\ ~IsConstructor(contract, f))
                vs == SelectSeq(StateVariables(contract), InExternalInterface) IN
            [i \in DOMAIN (fs \o vs) |-> IdOf(contract, (fs \o vs)[i])]
        all == FlattenSeq([i \in DOMAIN hierarchy |-> shown(hierarchy[i])])
        seen(i) == \E j \in 1..(i - 1) : all[j].name = all[i].name /\ all[j].arity = all[i].arity IN
    {all[i] : i \in {i \in DOMAIN all : ~seen(i)}}
InterfaceFunctions(hierarchy) ==
    SetToSortSeq(Exported(hierarchy), LAMBDA f, g : SelectorOf(f.name, f.arity) < SelectorOf(g.name, g.arity))
Fallback(hierarchy) ==
    LET all == FlattenSeq([i \in DOMAIN hierarchy |->
                 LET fs == SelectSeq(DefinedFunctions(hierarchy[i]), LAMBDA f : f.attr.name = "") IN
                 [k \in DOMAIN fs |-> FunctionId(hierarchy[i], fs[k])]]) IN
    IF all = <<>> THEN <<>> ELSE <<all[1]>>

CalldataUnpacker(n) ==
    <<Dup(1)>>
    \o FlattenSeq([i \in 1..n |-> LoadFromCalldataDynamic \o MoveToStackTop(2, 1) \o <<Swap(1)>>])
    \o PopStackSlots(2)
ReturnValuePacker(n) ==
    IF n = 0 THEN <<Op("STOP")>>
    ELSE FetchFreeMemoryPointer \o EncodeToMemory(n) \o ToSizeAfterFreeMemoryPointer \o <<Op("RETURN")>>
\* Functions that are not payable refuse a value.
NonPayable(isPayable) == IF isPayable THEN <<>> ELSE <<Op("CALLVALUE")>> \o ConditionalJumpTo(ErrorTag)
ReturnsOf(hierarchy, id) ==
    LET n == DeclarationOf(hierarchy, id) IN
    IF n.type = "FunctionDefinition" THEN Len(ReturnParameters(n)) ELSE 1
IsPayable(hierarchy, id) ==
    LET n == DeclarationOf(hierarchy, id) IN n.type = "FunctionDefinition" /\ n.attr.isPayable

AppendFunctionSelector(c, functions) ==
    LET fallback == Fallback(c.hierarchy)
        notFound == c.tags + 1
        unpacker(i) == c.tags + 1 + i
        returned(i) == c.tags + 1 + Len(functions) + i
        call(i) ==
            LET id == functions[i] IN
            <<Emit(<<Tag(unpacker(i))>> \o NonPayable(IsPayable(c.hierarchy, id))
                   \o <<PushTag(returned(i)), Push(SelectorBytes)>> \o CalldataUnpacker(id.arity)),
              PushEntry(id),
              Emit(<<Op("JUMP"), Tag(returned(i))>> \o ReturnValuePacker(ReturnsOf(c.hierarchy, id)))>> IN
    [c EXCEPT
       !.tags = @ + 2 * Len(functions) + 2,
       !.todo =
         (IF Len(functions) > 5 \/ fallback # <<>>
          THEN <<Emit(<<Op("CALLDATASIZE"), Op("ISZERO")>> \o ConditionalJumpTo(notFound))>> ELSE <<>>)
         \o (IF functions = <<>> THEN <<>> ELSE <<Emit(<<Push(0)>> \o LoadFromCalldata(SelectorBytes))>>)
         \o [i \in DOMAIN functions |->
               Emit(<<Dup(1), Push(SelectorOf(functions[i].name, functions[i].arity)), Op("EQ")>>
                    \o ConditionalJumpTo(unpacker(i)))]
         \o <<Emit(JumpTo(notFound) \o <<Tag(notFound)>>)>>
         \o (IF fallback = <<>> THEN <<Emit(JumpTo(ErrorTag))>>
             ELSE <<Emit(NonPayable(IsPayable(c.hierarchy, fallback[1])) \o <<PushTag(returned(Len(functions) + 1))>>),
                    [do |-> "function", id |-> fallback[1]],
                    Emit(<<Tag(returned(Len(functions) + 1))>> \o ReturnValuePacker(0))>>)
         \o FlattenSeq([i \in DOMAIN functions |-> call(i)])
         \o @]
InitialContext(hierarchy, optimise) ==
    Appended(NewContext(hierarchy, optimise), InitialiseFreeMemoryPointer)
CompileContract(hierarchy, optimise) ==
    With(AppendFunctionSelector(InitialContext(hierarchy, optimise), InterfaceFunctions(hierarchy)),
         LAMBDA c : Compiled(c, c.todo \o <<Command("missing")>>))

-----------------------------------------------------------------------------
(* The creation code.                                                      *)

\* Where the arguments of the base constructors are: the first that are
\* found, from the most derived contract on.
BaseArgumentsIn(hierarchy, i) ==
    LET invocations == IF Constructor(hierarchy[i]) = <<>> THEN <<>>
                       ELSE Constructor(hierarchy[i])[1].kids.functionModifiers
        isBase(m) == \E j \in DOMAIN hierarchy : hierarchy[j].attr.name = m.kids.modifierName[1].attr.name
        given == SelectSeq(invocations, isBase)
        bases == hierarchy[i].kids.baseContracts IN
    [k \in DOMAIN given |-> [base |-> given[k].kids.modifierName[1].attr.name, arguments |-> given[k].kids.arguments]]
    \o [k \in DOMAIN bases |-> [base |-> bases[k].kids.baseName[1].attr.name, arguments |-> bases[k].kids.arguments]]

\* Mutant: the last ones that are found.
BaseArgumentsLast(hierarchy) ==
    LET all == FlattenSeq([i \in DOMAIN hierarchy |-> BaseArgumentsIn(hierarchy, i)]) IN
    [b \in {all[k].base : k \in DOMAIN all} |->
       LET of == {k \in DOMAIN all : all[k].base = b} IN
       all[CHOOSE k \in of : \A j \in of : j <= k].arguments]

BaseArguments(hierarchy) ==
    LET all == FlattenSeq([i \in DOMAIN hierarchy |-> BaseArgumentsIn(hierarchy, i)]) IN
    [b \in {all[k].base : k \in DOMAIN all} |->
       LET of == {k \in DOMAIN all : all[k].base = b} IN
       all[CHOOSE k \in of : \A j \in of : k <= j].arguments]

\* State variables with a value, bases first.
StateVariableInitialization(c) ==
    LET all == FlattenSeq([i \in DOMAIN c.hierarchy |->
                 SelectSeq(StateVariables(c.hierarchy[Len(c.hierarchy) + 1 - i]),
                           LAMBDA v : v.kids.value # <<>> /\ ~v.attr.spec.isConstant)]) IN
    FlattenSeq([k \in DOMAIN all |->
        <<Visit(all[k].kids.value[1]),
          Emit(<<Push(c.stateVariables[all[k].attr.name]), Push(0)>> \o StorePlain(StorageItem(0), 0, TRUE))>>])
InitAndConstructorCode(c) ==
    LET contract == c.hierarchy[1]
        next == NextConstructor(c.hierarchy, contract.attr.name) IN
    StateVariableInitialization(c)
    \o (IF Constructor(contract) # <<>>
        THEN <<[do |-> "function", id |-> FunctionId(contract, Constructor(contract)[1])]>>
        ELSE IF next # <<>> THEN <<[do |-> "base", contract |-> next[1]]>> ELSE <<>>)
\* The runtime code is data of no size: it is copied and returned.
ReturnRuntimeCode == <<Push(0), Dup(1), Push(0), Push(0), Op("CODECOPY"), Push(0), Op("RETURN")>>
CompileConstructor(hierarchy, optimise) ==
    With([InitialContext(hierarchy, optimise) EXCEPT !.baseArguments = BaseArguments(hierarchy)],
         LAMBDA c : Compiled(c, InitAndConstructorCode(c) \o <<Emit(ReturnRuntimeCode), Command("missing")>>))
=============================================================================
