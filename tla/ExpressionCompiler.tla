------------------------- MODULE ExpressionCompiler -------------------------
(***************************************************************************)
(* libsolidity/codegen/ExpressionCompiler and LValue: the code of an       *)
(* expression, which leaves its value on top of the stack.  A place that   *)
(* is assigned to is an LValue; a variable in storage has its slot and     *)
(* offset on the stack.                                                    *)
(***************************************************************************)
EXTENDS CompilerContext

-----------------------------------------------------------------------------
(* Commands.                                                               *)

Emit(items) == [do |-> "emit", items |-> items]
Visit(node) == [do |-> "visit", node |-> node, lvalueRequested |-> FALSE]
VisitLValue(node) == [do |-> "visit", node |-> node, lvalueRequested |-> TRUE]
Command(name) == [do |-> name]
Adjust(n) == [do |-> "adjust", n |-> n]
Retrieve(remove) == [do |-> "retrieve", remove |-> remove]
Store(parts, move) == [do |-> "store", parts |-> parts, move |-> move]
SetLValue(lvalue) == [do |-> "lvalue", lvalue |-> lvalue]
PushEntry(id) == [do |-> "entry", id |-> id]
Visits(nodes) == [i \in DOMAIN nodes |-> Visit(nodes[i])]

-----------------------------------------------------------------------------
(* Types, as the type checker annotates them: a tuple of parts, or one     *)
(* that is no tuple.                                                       *)

Single(part) == [tuple |-> FALSE, parts |-> <<part>>]
TupleType(parts) == [tuple |-> TRUE, parts |-> parts]
SizeOnStack(parts) == Len(SelectSeq(parts, LAMBDA p : p # "none"))

CalleeName(n) == n.kids.expression[1].attr.name
CalleeId(hierarchy, n) ==
    LET callee == n.kids.expression[1]
        from == IF callee.type = "MemberAccess" THEN SuperContract(hierarchy, callee.attr.contract) ELSE 1 IN
    VirtualFunction(hierarchy, callee.attr.name, Len(n.kids.arguments), from)
PartType(n) ==
    CASE Missing(n) -> "none"
      [] n.type = "Literal" -> "rational"
      [] OTHER -> "uint"
MobileType(t) == [t EXCEPT !.parts = [i \in DOMAIN @ |-> IF @[i] = "rational" THEN "uint" ELSE @[i]]]
RECURSIVE TypeOf(_, _)
TypeOf(hierarchy, n) ==
    CASE n.type = "TupleExpression" ->
           LET components == n.kids.components IN
           IF Len(components) = 1 THEN TypeOf(hierarchy, components[1])
           ELSE TupleType([i \in DOMAIN components |-> PartType(components[i])])
      [] n.type = "FunctionCall" ->
           LET returns == ReturnParameters(DeclarationOf(hierarchy, CalleeId(hierarchy, n))) IN
           IF Len(returns) = 1 THEN Single("uint") ELSE TupleType([i \in DOMAIN returns |-> "uint"])
      [] n.type = "Assignment" ->
           IF TypeOf(hierarchy, n.kids.leftHandSide[1]).tuple THEN TupleType(<<>>) ELSE Single("uint")
      [] n.type = "Conditional" -> MobileType(TypeOf(hierarchy, n.kids.trueExpression[1]))
      [] n.type = "UnaryOperation" -> IF n.attr.op = "Delete" THEN TupleType(<<>>) ELSE Single("uint")
      [] OTHER -> Single(PartType(n))

\* The part of a tuple that one of another tuple goes to, 0 if it is left out:
\* where the numbers differ, an end without a name takes the rest.
FillRight(targets) == targets # <<>> /\ (Last(targets) = "none" \/ targets[1] # "none")
TargetOf(sources, targets, i) ==
    LET j == IF FillRight(targets) THEN i ELSE Len(targets) - (Len(sources) - i) IN
    IF j \in DOMAIN targets /\ targets[j] # "none" THEN j ELSE 0
ClosestTemporaryType(sources, targets) ==
    [j \in DOMAIN targets |->
        IF \E i \in DOMAIN sources : TargetOf(sources, targets, i) = j THEN targets[j] ELSE "none"]

\* CompilerUtils::convertType for tuples: a value that changes its type is
\* converted on top of the stack and put back, one that is left out is taken
\* out of the stack.
ConvertPart(state, i, sources, targets) ==
    LET depth == state.depth
        target == TargetOf(sources, targets, i) IN
    CASE sources[i] = "none" -> state
      [] target # 0 /\ targets[target] = sources[i] -> [state EXCEPT !.depth = @ - 1]
      [] target # 0 -> [depth |-> depth - 1,
                        items |-> state.items \o <<Dup(depth), Swap(depth), Op("POP")>>]
      [] OTHER -> [depth |-> depth - 1,
                   items |-> state.items \o MoveToStackTop(depth - 1, 1) \o <<Op("POP")>>]
ConvertTuple(sources, targets) ==
    Accumulated(LAMBDA state, i : ConvertPart(state, i, sources, targets),
                [depth |-> SizeOnStack(sources), items |-> <<>>], [i \in DOMAIN sources |-> i]).items
ConvertType(source, target) ==
    IF source.tuple /\ target.tuple THEN ConvertTuple(source.parts, target.parts) ELSE <<>>

-----------------------------------------------------------------------------
(* LValues.                                                                *)

StackVariable(base) == [kind |-> "stack", base |-> base]
StorageItem(slot) == [kind |-> "storage", slot |-> slot]
TupleObject(lvalues) == [kind |-> "tuple", lvalues |-> lvalues]

PlainSize(lvalue) == IF lvalue.kind = "storage" THEN 2 ELSE 0
SizeOfLValue(lvalue) ==
    IF lvalue.kind # "tuple" THEN PlainSize(lvalue)
    ELSE Accumulated(LAMBDA sum, l : sum + PlainSize(l), 0, lvalue.lvalues)

\* Code for a stack of the given height.
RetrieveValue(lvalue, height, remove) ==
    CASE lvalue.kind = "stack" -> <<Dup(height - lvalue.base)>>
      [] lvalue.kind = "storage" ->
           (IF remove THEN <<>> ELSE CopyToStackTop(2, 2)) \o <<Op("POP"), Op("SLOAD")>>
StorePlain(lvalue, height, move) ==
    CASE lvalue.kind = "stack" ->
           LET diff == height - lvalue.base - 1 IN
           (IF diff > 0 THEN <<Swap(diff), Op("POP")>> ELSE <<>>)
           \o (IF move THEN <<>> ELSE RetrieveValue(lvalue, height - 1, FALSE))
      [] lvalue.kind = "storage" ->
           <<Op("POP")>> \o (IF move THEN <<>> ELSE <<Dup(2), Swap(1)>>) \o <<Op("SSTORE")>>

\* TupleObject::storeValue: the values lie below the places, from right to left.
StoreInTuple(state, k, lvalues) ==
    LET i == Len(lvalues) + 1 - k
        lvalue == lvalues[i]
        position == state.position + 1
        code == CopyToStackTop(position, 1) \o MoveToStackTop(1, PlainSize(lvalue))
                \o StorePlain(lvalue, state.height + 1, TRUE) IN
    IF lvalue.kind = "none" THEN state
    ELSE [items |-> state.items \o code, height |-> state.height + DepositOf(code),
          position |-> position + DepositOf(code)]
StoreValue(lvalue, height, parts, move) ==
    IF lvalue.kind # "tuple" THEN StorePlain(lvalue, height, move)
    ELSE Accumulated(LAMBDA state, k : StoreInTuple(state, k, lvalue.lvalues),
                     [items |-> <<>>, height |-> height, position |-> SizeOfLValue(lvalue)],
                     [k \in DOMAIN lvalue.lvalues |-> k]).items
         \o PopStackSlots(SizeOnStack(parts))
SetToZero(lvalue, height) ==
    CASE lvalue.kind = "stack" -> <<Push(0)>> \o StorePlain(lvalue, height + 1, TRUE)
      [] lvalue.kind = "storage" -> <<Op("POP"), Push(0), Swap(1), Op("SSTORE")>>

-----------------------------------------------------------------------------
(* Operators.                                                              *)

CompareOperatorCode(op) ==
    CASE op = "Equal" -> <<Op("EQ")>>
      [] op = "NotEqual" -> <<Op("EQ"), Op("ISZERO")>>
      [] op = "GreaterThanOrEqual" -> <<Op("LT"), Op("ISZERO")>>
      [] op = "LessThanOrEqual" -> <<Op("GT"), Op("ISZERO")>>
      [] op = "GreaterThan" -> <<Op("GT")>>
      [] op = "LessThan" -> <<Op("LT")>>
CompareOps == {"Equal", "NotEqual", "GreaterThanOrEqual", "LessThanOrEqual", "GreaterThan", "LessThan"}
DivisionCode(instruction) ==
    <<Dup(2), Op("ISZERO")>> \o ConditionalJumpTo(ErrorTag) \o <<Op(instruction)>>
OrdinaryBinaryOperatorCode(op) ==
    CASE op = "Add" -> <<Op("ADD")>>
      [] op = "Sub" -> <<Op("SUB")>>
      [] op = "Mul" -> <<Op("MUL")>>
      [] op = "Div" -> DivisionCode("DIV")
      [] op = "Mod" -> DivisionCode("MOD")
      [] op = "Exp" -> <<Op("EXP")>>
      [] op = "BitOr" -> <<Op("OR")>>
      [] op = "BitAnd" -> <<Op("AND")>>
      [] op = "BitXor" -> <<Op("XOR")>>
BinaryOperatorCode(op) == IF op \in CompareOps THEN CompareOperatorCode(op) ELSE OrdinaryBinaryOperatorCode(op)
CommutativeOps == {"BitOr", "BitXor", "BitAnd", "Add", "Mul", "Equal", "NotEqual"}

-----------------------------------------------------------------------------
(* The commands for an expression; its tags are those above base.          *)

VisitIdentifier(c, n, lvalueRequested) ==
    LET name == n.attr.name
        slot == c.stateVariables[name]
        set(lvalue) == <<SetLValue(lvalue)>>
                       \o (IF lvalueRequested THEN <<>> ELSE <<Retrieve(TRUE), Command("reset")>>) IN
    CASE name \in DOMAIN c.locals -> set(StackVariable(c.locals[name]))
      [] name \in DOMAIN c.stateVariables -> <<Emit(<<Push(slot), Push(0)>>)>> \o set(StorageItem(slot))
      [] name \in DOMAIN c.constants -> <<Visit(c.constants[name])>>
      [] OTHER -> <<Command("unknown")>>

VisitAssignment(c, n) ==
    LET left == n.kids.leftHandSide[1]
        right == n.kids.rightHandSide[1]
        source == TypeOf(c.hierarchy, right)
        target == TypeOf(c.hierarchy, left)
        type == IF target.tuple THEN TupleType(ClosestTemporaryType(source.parts, target.parts))
                ELSE Single("uint") IN
    <<Visit(right), Emit(ConvertType(source, type)), VisitLValue(left)>>
    \o (IF n.attr.op = "Assign" THEN <<>> ELSE <<[do |-> "compound", op |-> n.attr.operation]>>)
    \o <<Store(type.parts, FALSE), Command("reset")>>
\* When the place is known: the operator of a compound assignment.
CompoundOperator(c, op) ==
    LET size == SizeOfLValue(c.lvalue) IN
    <<Emit(IF size = 0 THEN <<>> ELSE CopyToStackTop(size + 1, 1) \o CopyToStackTop(1 + size, size)),
      Retrieve(TRUE),
      Emit(OrdinaryBinaryOperatorCode(op)
           \o (IF size = 0 THEN <<>> ELSE <<Swap(1 + size), Op("POP")>>))>>

VisitTuple(n, lvalueRequested) ==
    LET components == n.kids.components
        component(i) ==
            CASE ~lvalueRequested -> IF Missing(components[i]) THEN <<>> ELSE <<Visit(components[i])>>
              [] Missing(components[i]) -> <<Command("take")>>
              [] OTHER -> <<VisitLValue(components[i]), Command("take")>>
        all == FlattenSeq([i \in DOMAIN components |-> component(i)]) IN
    IF lvalueRequested THEN <<Command("open")>> \o all \o <<Command("close")>> ELSE all

\* When the place is known: ++ and --.
Increment(c, op, prefix) ==
    LET size == SizeOfLValue(c.lvalue) IN
    <<Retrieve(FALSE),
      Emit((IF prefix THEN <<>>
            ELSE <<Dup(1)>> \o (IF size = 0 THEN <<>> ELSE [i \in 1..(1 + size) |-> Swap(size + 2 - i)]))
           \o <<Push(1)>> \o (IF op = "Inc" THEN <<Op("ADD")>> ELSE <<Swap(1), Op("SUB")>>)
           \o [i \in 1..size |-> Swap(size + 1 - i)]),
      Store(<<"uint">>, ~prefix), Command("reset")>>
VisitUnary(n) ==
    LET sub == n.kids.subExpression[1] IN
    CASE n.attr.op = "Not" -> <<Visit(sub), Emit(<<Op("ISZERO")>>)>>
      [] n.attr.op = "BitNot" -> <<Visit(sub), Emit(<<Op("NOT")>>)>>
      [] n.attr.op = "Sub" -> <<Visit(sub), Emit(<<Push(0), Op("SUB")>>)>>
      [] n.attr.op = "Delete" -> <<VisitLValue(sub), Command("zero"), Command("reset")>>
      [] n.attr.op \in {"Inc", "Dec"} ->
           <<VisitLValue(sub), [do |-> "increment", op |-> n.attr.op, prefix |-> n.attr.prefix]>>

VisitBinary(c, n, base) ==
    LET left == n.kids.left[1]
        right == n.kids.right[1]
        end == base + 1
        swap == /\ c.optimise /\ n.attr.op \in CommutativeOps
                /\ right.type = "Literal" /\ left.type # "Literal" IN
    CASE n.attr.op \in {"And", "Or"} ->
           <<Visit(left),
             Emit(<<Dup(1)>> \o (IF n.attr.op = "And" THEN <<Op("ISZERO")>> ELSE <<>>)
                  \o ConditionalJumpTo(end) \o <<Op("POP")>>),
             Visit(right), Emit(<<Tag(end)>>)>>
      [] swap -> <<Visit(left), Visit(right), Emit(BinaryOperatorCode(n.attr.op))>>
      [] OTHER -> <<Visit(right), Visit(left), Emit(BinaryOperatorCode(n.attr.op))>>

VisitConditional(c, n, base) ==
    LET yes == n.kids.trueExpression[1]
        no == n.kids.falseExpression[1]
        type == TypeOf(c.hierarchy, n) IN
    <<Visit(n.kids.condition[1]), Emit(ConditionalJumpTo(base + 1)),
      Visit(no), Emit(ConvertType(TypeOf(c.hierarchy, no), type) \o JumpTo(base + 2) \o <<Tag(base + 1)>>),
      Adjust(-SizeOnStack(type.parts)),
      Visit(yes), Emit(ConvertType(TypeOf(c.hierarchy, yes), type) \o <<Tag(base + 2)>>)>>

\* A call of a function of the contract or, with super, of its bases.
ArgumentsInOrder(n, parameters) ==
    IF n.attr.names = <<>> THEN n.kids.arguments
    ELSE [i \in DOMAIN parameters |->
            n.kids.arguments[CHOOSE j \in DOMAIN n.attr.names : n.attr.names[j] = parameters[i]]]
VisitFunctionCall(c, n, base) ==
    LET id == CalleeId(c.hierarchy, n)
        function == DeclarationOf(c.hierarchy, id)
        arguments == ArgumentsInOrder(n, NamesOf(Parameters(function))) IN
    <<Emit(<<PushTag(base + 1)>>)>> \o Visits(arguments)
    \o <<PushEntry(id), Emit(<<Op("JUMP"), Tag(base + 1)>>),
         Adjust(Len(ReturnParameters(function)) - id.arity - 1)>>

ExpressionCommands(c, n, lvalueRequested, base) ==
    CASE n.type = "Literal" -> <<Emit(<<Push(n.attr.value)>>)>>
      [] n.type = "Identifier" -> VisitIdentifier(c, n, lvalueRequested)
      [] n.type = "Assignment" -> VisitAssignment(c, n)
      [] n.type = "TupleExpression" -> VisitTuple(n, lvalueRequested)
      [] n.type = "UnaryOperation" -> VisitUnary(n)
      [] n.type = "BinaryOperation" -> VisitBinary(c, n, base)
      [] n.type = "Conditional" -> VisitConditional(c, n, base)
      [] n.type = "FunctionCall" -> VisitFunctionCall(c, n, base)

-----------------------------------------------------------------------------
(* What the commands of expressions do.                                    *)

\* Components of a tuple: the innermost open tuple is the last.
TakeComponent(c) ==
    [c EXCEPT !.components[Len(c.components)] = Append(@, c.lvalue), !.lvalue = NoLValue]
CloseTuple(c) ==
    LET lvalues == Last(c.components) IN
    [c EXCEPT !.components = Front(@),
              !.lvalue = IF Len(lvalues) = 1 THEN lvalues[1] ELSE TupleObject(lvalues)]

DoExpression(c, command) ==
    CASE command.do = "emit" -> Appended(c, command.items)
      [] command.do = "adjust" -> AdjustStackOffset(c, command.n)
      [] command.do = "lvalue" -> [Require(c, c.lvalue = NoLValue) EXCEPT !.lvalue = command.lvalue]
      [] command.do = "reset" -> [c EXCEPT !.lvalue = NoLValue]
      [] command.do = "retrieve" -> Appended(c, RetrieveValue(c.lvalue, c.deposit, command.remove))
      [] command.do = "store" ->
           IF c.lvalue.kind = "tuple" /\ Len(c.lvalue.lvalues) # Len(command.parts) THEN Require(c, FALSE)
           ELSE Appended(c, StoreValue(c.lvalue, c.deposit, command.parts, command.move))
      [] command.do = "zero" -> Appended(c, SetToZero(c.lvalue, c.deposit))
      [] command.do = "compound" -> [c EXCEPT !.todo = CompoundOperator(c, command.op) \o @]
      [] command.do = "increment" -> [c EXCEPT !.todo = Increment(c, command.op, command.prefix) \o @]
      [] command.do = "open" -> [c EXCEPT !.components = Append(@, <<>>)]
      [] command.do = "take" -> TakeComponent(c)
      [] command.do = "close" -> CloseTuple(c)
      [] command.do = "entry" -> PushEntryLabel(c, command.id)
      [] command.do = "unknown" -> Require(c, FALSE)
=============================================================================
