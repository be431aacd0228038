----------------------------- MODULE MCContracts ----------------------------
(***************************************************************************)
(* Code generation on many small contracts: a behaviour is one program,    *)
(* and the invariants compare what its code does with what it means.       *)
(***************************************************************************)
EXTENDS Semantics

CONSTANTS Topics       \* the kinds of programs
VARIABLES topic, program
vars == <<topic, program>>

MCHash(bytes) == 0
MCSelectorOf(name, arity) ==
    CASE name = "f" -> 5 [] name = "g" -> 3 + 4 * arity [] name = "h" -> 9 [] name = "u" -> 1
      [] name = "x" -> 13 [] OTHER -> 0

-----------------------------------------------------------------------------
(* Trees.                                                                  *)

N(type, attr, kids) == Node(type, attr, kids, 0, 0)
X(name) == N("Identifier", [name |-> name], <<>>)
L(value) == N("Literal", [value |-> value], <<>>)
Set(left, right) == N("Assignment", [op |-> "Assign"], [leftHandSide |-> <<left>>, rightHandSide |-> <<right>>])
Change(left, operation, right) ==
    N("Assignment", [op |-> "AssignOp", operation |-> operation],
      [leftHandSide |-> <<left>>, rightHandSide |-> <<right>>])
Un(op, prefix, sub) == N("UnaryOperation", [op |-> op, prefix |-> prefix], [subExpression |-> <<sub>>])
Bin(left, op, right) == N("BinaryOperation", [op |-> op], [left |-> <<left>>, right |-> <<right>>])
Cond(condition, yes, no) ==
    N("Conditional", <<>>, [condition |-> <<condition>>, trueExpression |-> <<yes>>, falseExpression |-> <<no>>])
Tuple(components) == N("TupleExpression", <<>>, [components |-> components])
Call(name, arguments) == N("FunctionCall", [names |-> <<>>], [expression |-> <<X(name)>>, arguments |-> arguments])
CallNamed(name, names, arguments) ==
    N("FunctionCall", [names |-> names], [expression |-> <<X(name)>>, arguments |-> arguments])
Super(contract, name, arguments) ==
    N("FunctionCall", [names |-> <<>>],
      [expression |-> <<N("MemberAccess", [name |-> name, contract |-> contract], [expression |-> <<X("super")>>])>>,
       arguments |-> arguments])

Do(expression) == N("ExpressionStatement", <<>>, [expression |-> <<expression>>])
Block(statements) == N("Block", <<>>, [statements |-> statements])
If(condition, yes, no) == N("IfStatement", <<>>, [condition |-> <<condition>>, trueBody |-> <<yes>>, falseBody |-> no])
While(condition, body) == N("WhileStatement", <<>>, [condition |-> <<condition>>, body |-> <<body>>])
For(init, condition, loop, body) ==
    N("ForStatement", <<>>, [initExpression |-> init, condExpression |-> condition, loopExpression |-> loop,
                             body |-> <<body>>])
Plain(type) == N(type, <<>>, <<>>)
Return(expression) == N("Return", <<>>, [expression |-> expression])
Spec0 == [visibility |-> "Default", isIndexed |-> FALSE, isConstant |-> FALSE, location |-> "Default"]
Var(name) == N("VariableDeclaration", [name |-> name, spec |-> Spec0], [typeName |-> <<>>, value |-> <<>>])
Declare(variables, value) == N("VariableDeclarationStatement", <<>>, [variables |-> variables, initialValue |-> value])

List(names) == N("ParameterList", <<>>, [parameters |-> [i \in DOMAIN names |-> Var(names[i])]])
Invoke(name, arguments) == N("ModifierInvocation", <<>>, [modifierName |-> <<X(name)>>, arguments |-> arguments])
Function(name, parameters, returns, modifiers, body) ==
    N("FunctionDefinition", [name |-> name, isConst |-> FALSE, isPayable |-> FALSE, visibility |-> "Default"],
      [parameters |-> <<List(parameters)>>, returnParameters |-> <<List(returns)>>,
       functionModifiers |-> modifiers, body |-> <<Block(body)>>])
Internal(function) == [function EXCEPT !.attr.visibility = "Internal"]
Payable(function) == [function EXCEPT !.attr.isPayable = TRUE]
Modifier(name, parameters, body) ==
    N("ModifierDefinition", [name |-> name], [parameters |-> <<List(parameters)>>, body |-> <<Block(body)>>])
State(name, value) ==
    N("VariableDeclaration", [name |-> name, spec |-> Spec0], [typeName |-> <<>>, value |-> value])
Public(state) == [state EXCEPT !.attr.spec.visibility = "Public"]
Constant(state) == [state EXCEPT !.attr.spec.isConstant = TRUE]
BaseSpec(name, arguments) == N("InheritanceSpecifier", <<>>, [baseName |-> <<X(name)>>, arguments |-> arguments])
Contract(name, bases, parts) ==
    N("ContractDefinition", [name |-> name], [baseContracts |-> bases, subNodes |-> parts])

s == X("s")
a == X("a")
b == X("b")
r == X("r")
Lt(x, y) == Bin(x, "LessThan", y)

-----------------------------------------------------------------------------
(* Programs.  A program has its contracts, the most derived first.         *)

Simple == {Do(Change(r, "Add", a)), Do(Set(s, r)), Do(Un("Dec", FALSE, a)), Return(<<a>>), Return(<<>>),
           Plain("Throw")}
LoopOnly == {Plain("Break"), Plain("Continue")}
Guarded(statements) == statements \cup {If(Lt(a, L(2)), t, <<>>) : t \in statements}
Loops(body) ==
    {While(Lt(L(0), a), Block(<<Do(Un("Dec", FALSE, a))>> \o body)),
     For(<<Declare(<<Var("i")>>, <<L(0)>>)>>, <<Lt(X("i"), L(2))>>, <<Do(Un("Inc", FALSE, X("i")))>>, Block(body))}
LoopBodies == {<<x, y>> : x \in Guarded(Simple \cup LoopOnly), y \in Simple}
Nested ==
    {For(<<>>, <<>>, <<Do(Un("Inc", TRUE, s))>>,
         Block(<<If(Lt(L(6), s), Plain("Break"), <<>>), loop, t>>)) :
       loop \in UNION {Loops(<<If(Lt(a, L(2)), x, <<>>)>>) : x \in LoopOnly}, t \in {Do(Change(r, "Add", a)), Plain("Continue")}}
Bodies ==
    {<<loop, t>> : loop \in UNION {Loops(body) : body \in LoopBodies}, t \in {Do(Change(r, "Add", s))}}
    \cup {<<loop>> : loop \in Nested}
    \cup {<<If(Lt(a, L(2)), x, <<y>>), z>> : x, y, z \in Simple}
StatementPrograms ==
    {<<Contract("C", <<>>, <<State("s", <<>>), Function("f", <<"a">>, <<"r">>, <<>>, body)>>)>> : body \in Bodies}

\* Expressions with effects, places of all kinds, and tuples.
G == Internal(Function("g", <<"p">>, <<"q">>, <<>>, <<Do(Change(s, "Add", X("p"))), Return(<<s>>)>>))
G2 == Internal(Function("h", <<"v", "w">>, <<"y", "z">>, <<>>,
                        <<Return(<<Tuple(<<X("w"), Un("Inc", FALSE, s)>>)>>)>>))
Atoms == {a, s, L(3), X("k"), Call("g", <<a>>), Un("Inc", FALSE, a), Un("Dec", TRUE, s), Un("Inc", FALSE, s),
          Set(s, a), Change(s, "Mul", b)}
Lefts == {a, L(3), Call("g", <<a>>), Un("Inc", FALSE, s), Un("Dec", TRUE, s), Set(s, a)}
Rights == {s, L(3), X("k"), Call("g", <<a>>), Un("Inc", FALSE, a), Change(s, "Mul", b)}
Between == {"Add", "Sub", "LessThan", "GreaterThanOrEqual", "And", "Or", "Div", "Exp"}
Values ==
    {Bin(x, op, y) : x \in Lefts, y \in Rights, op \in Between}
    \cup {Cond(x, y, z) : x \in {a, Call("g", <<a>>)}, y \in Lefts, z \in Rights}
    \cup {Un(op, TRUE, x) : op \in {"Not", "BitNot", "Sub"}, x \in Atoms \ {L(3)}}
    \cup {Call("g", <<Bin(x, "Add", Call("g", <<y>>))>>) : x \in Lefts \ {L(3)}, y \in Rights \ {L(3)}}
    \cup {CallNamed("m", names, <<x, y>>) :
            names \in {<<"v2", "w2">>, <<"w2", "v2">>}, x, y \in {a, Un("Inc", FALSE, a), Call("g", <<a>>)}}
Places == {a, b, s, X("t")}
Effects ==
    {Change(x, op, y) : x \in Places, op \in {"Add", "Mod"}, y \in Rights}
    \cup {Un("Delete", TRUE, x) : x \in Places}
    \cup {Set(Tuple(<<x, y>>), z) :
            x, y \in Places \cup {Null},
            z \in {Tuple(<<s, a>>), Tuple(<<b, L(3)>>), Call("h", <<a, s>>),
                   Cond(a, Tuple(<<a, L(1)>>), Tuple(<<s, b>>))}}
    \cup {Set(Tuple(<<x, y, z>>), Tuple(<<s, a, b>>)) : x, y \in Places, z \in {a, s, Null}}
    \cup {Set(Tuple(<<x, Null>>), Tuple(<<s, L(7), b>>)) : x \in Places}
    \cup {Set(Tuple(<<Null, x>>), Tuple(<<s, L(7), b>>)) : x \in Places}
    \cup {Set(Tuple(<<x, y, Null>>), Call("h", <<a, s>>)) : x, y \in Places}
    \cup {Set(Tuple(<<Null, x, y>>), Call("h", <<a, s>>)) : x, y \in Places}
Declarations1 ==
    {Declare(variables, <<value>>) :
       variables \in {<<Var("b"), Var("c")>>, <<Null, Var("b"), Var("c")>>, <<Var("b"), Var("c"), Null>>},
       value \in {Tuple(<<s, a>>), Call("h", <<s, a>>)}}
    \cup {Declare(variables, <<Tuple(<<s, L(7), a>>)>>) : variables \in {<<Var("b"), Null>>, <<Null, Var("b")>>}}
NotBoth(e) == ~(e.type = "Assignment" /\ e.kids.leftHandSide[1].type = "TupleExpression"
                /\ \A i \in DOMAIN e.kids.leftHandSide[1].kids.components :
                      Missing(e.kids.leftHandSide[1].kids.components[i]))
WithParts(statements) ==
    <<Contract("C", <<>>,
        <<State("t", <<>>), State("s", <<>>), Constant(State("k", <<Bin(X("j"), "Add", X("j"))>>)),
          Constant(State("j", <<L(2)>>)), G, G2,
          Internal(Function("m", <<"v2", "w2">>, <<"y2">>, <<>>, <<Do(Set(X("y2"), Bin(X("v2"), "Sub", X("w2"))))>>)),
          Function("f", <<"a", "b">>, <<"r", "r2">>, <<>>, statements)>>)>>
Result == Do(Set(X("r2"), Bin(Bin(X("a"), "Add", X("b")), "Add", X("t"))))
ExpressionPrograms ==
    {WithParts(<<Do(Set(r, value)), Result>>) : value \in Values}
    \cup {WithParts(<<Do(effect), Do(Set(r, s)), Result>>) : effect \in {e \in Effects : NotBoth(e)}}
    \cup {<<[p[1] EXCEPT !.kids.subNodes[8] = Function("f", <<"a">>, <<"r", "r2">>, <<>>, <<d, Do(Set(r, s)), Result>>)]>> :
            d \in Declarations1, p \in {WithParts(<<>>)}}

\* Modifiers, with code before and after the body, more than once or never.
Around ==
    {<<Plain("PlaceholderStatement")>>, <<Do(Change(s, "Add", X("p")))>>, <<If(Lt(X("p"), L(3)), Return(<<>>), <<>>)>>,
     <<Declare(<<Var("l")>>, <<s>>), Plain("PlaceholderStatement"), Do(Change(s, "Mul", X("l")))>>,
     <<If(Lt(s, L(9)), Plain("PlaceholderStatement"), <<>>)>>}
Inner == {<<Do(Un("Inc", FALSE, X("o"))), Plain("PlaceholderStatement"), Do(Change(s, "Add", X("o")))>>,
          <<Plain("PlaceholderStatement"), Return(<<>>)>>,
          <<While(Lt(s, L(4)), Block(<<Do(Un("Inc", FALSE, s)), Plain("PlaceholderStatement")>>))>>}
FunctionBodies == {<<Do(Change(s, "Mul", L(2))), Do(Set(r, s))>>, <<Do(Change(r, "Add", L(1))), Return(<<Bin(s, "Add", r)>>)>>,
                   <<If(Lt(a, L(2)), Return(<<a>>), <<>>), Do(Un("Inc", FALSE, s)), Return(<<s>>)>>}
ModifierPrograms ==
    {<<Contract("C", <<>>, <<State("s", <<>>), Modifier("m", <<"p">>, first \o second), Modifier("n", <<"o">>, inner),
                             Function("f", <<"a">>, <<"r">>, used, body)>>)>> :
       first, second \in Around, inner \in Inner, body \in FunctionBodies,
       used \in {<<Invoke("m", <<Bin(a, "Add", s)>>), Invoke("n", <<L(5)>>)>>,
                 <<Invoke("n", <<a>>), Invoke("m", <<Un("Inc", FALSE, a)>>)>>}}
\* The same modifier twice.
TwicePrograms ==
    {<<Contract("C", <<>>, <<State("s", <<>>), Modifier("n", <<"o">>, inner),
                             Function("f", <<"a">>, <<"r">>, <<Invoke("n", <<L(1)>>), Invoke("n", <<L(2)>>)>>, body)>>)>> :
       inner \in Inner, body \in FunctionBodies}

\* Three contracts: who has f, what it calls, and overridden modifiers.
InContract(name, kind) ==
    CASE kind = "none" -> <<>>
      [] kind = "f" -> <<Function("f", <<"a">>, <<"r">>, <<>>, <<Do(Change(s, "Add", L(1))), Return(<<Bin(a, "Add", L(1))>>)>>)>>
      [] kind = "super" -> <<Function("f", <<"a">>, <<"r">>, <<>>,
                                      <<Do(Change(s, "Mul", L(2))), Return(<<Bin(Super(name, "f", <<a>>), "Mul", L(3))>>)>>)>>
      [] kind = "m" -> <<Modifier("m", <<"p">>, <<Do(Change(s, "Add", X("p"))), Plain("PlaceholderStatement")>>)>>
      [] kind = "g" -> <<Internal(Function("g", <<>>, <<"r3">>, <<>>, <<Return(<<s>>)>>)),
                         Function("g", <<"a3">>, <<"r4">>, <<>>,
                                  <<If(Lt(X("a3"), L(1)), Return(<<Call("g", <<>>)>>), <<>>),
                                    Return(<<Bin(Call("g", <<Bin(X("a3"), "Sub", L(1))>>), "Add", X("a3"))>>)>>)>>
BasePart == <<Public(State("x", <<>>)), Public(Constant(State("u", <<L(6)>>))), State("s", <<>>),
              Modifier("m", <<"p">>, <<Plain("PlaceholderStatement"), Do(Change(s, "Mul", X("p")))>>)>>
             \o InContract("A", "f") \o InContract("A", "g")
HFunction(c) == Function("h", <<"a1">>, <<"r1">>, <<Invoke("m", <<X("a1")>>)>>, <<Return(<<Call(c, <<X("a1")>>)>>)>>)
Fallbacks == {<<>>, <<Function("", <<>>, <<>>, <<>>, <<Do(Set(s, L(9)))>>)>>,
              <<Payable(Function("", <<>>, <<>>, <<Invoke("m", <<L(2)>>)>>, <<Do(Un("Inc", FALSE, s))>>))>>}
CallPrograms ==
    {<<Contract("C", <<BaseSpec("B", <<>>)>>, InContract("C", kc) \o <<HFunction(callee)>>),
       Contract("B", <<BaseSpec("A", <<>>)>>, InContract("B", kb) \o fallback),
       Contract("A", <<>>, BasePart)>> :
       kc, kb \in {"none", "f", "super", "m", "g"}, callee \in {"f", "g"}, fallback \in Fallbacks}

\* Constructors: arguments from the heads of contracts and of constructors.
Make(name, parameters, given, body) == Function(name, parameters, <<>>, given, body)
Note(e) == Do(Set(s, Bin(Bin(s, "Mul", L(3)), "Add", e)))
AParts == {<<State("s", <<L(2)>>), Make("A", <<"pa">>, <<>>, <<Note(X("pa"))>>)>>,
           <<State("s", <<>>), Make("A", <<"pa", "pb">>, <<>>, <<Declare(<<Var("la")>>, <<X("pb")>>), Note(X("pa")), Note(X("la"))>>)>>}
ArityOf(parts) == Len(Parameters(parts[2]))
ToA(parts, e) == IF ArityOf(parts) = 1 THEN <<e>> ELSE <<e, Un("Inc", FALSE, s)>>
\* B gives the arguments of A in one of the ways, or leaves it to C.
BContract(parts, way) ==
    CASE way = "head" -> Contract("B", <<BaseSpec("A", ToA(parts, L(4)))>>, <<State("t", <<Bin(s, "Add", L(1))>>)>>)
      [] way = "constructor" ->
           Contract("B", <<BaseSpec("A", <<>>)>>,
                    <<State("t", <<s>>), Make("B", <<"pc">>, <<Invoke("A", ToA(parts, X("pc")))>>, <<Note(X("pc"))>>)>>)
      [] way = "later" ->
           Contract("B", <<BaseSpec("A", <<>>)>>, <<Make("B", <<>>, <<Invoke("m", <<L(6)>>)>>, <<Note(L(1))>>),
                                                    Modifier("m", <<"p">>, <<Plain("PlaceholderStatement"), Note(X("p"))>>)>>)
BArguments(way, e) == IF way = "constructor" THEN <<e>> ELSE <<>>
CParts(own) == IF own = "none" THEN <<>> ELSE <<Make("C", <<>>, <<>>, <<Declare(<<Var("lc")>>, <<L(5)>>), Note(X("lc"))>>)>>
CGiven(parts, way, own) ==
    IF own # "gives" THEN CParts(own)
    ELSE <<Make("C", <<>>, (IF way = "constructor" THEN <<Invoke("B", <<L(1)>>)>> ELSE <<>>)
                           \o <<Invoke("A", ToA(parts, L(8)))>>, <<Note(L(2))>>)>>
Creation(parts, way, own, direct) ==
    <<Contract("C", (IF direct THEN <<BaseSpec("A", ToA(parts, L(7)))>> ELSE <<>>)
                    \o <<BaseSpec("B", IF own = "gives" THEN <<>> ELSE BArguments(way, L(2)))>>,
               CGiven(parts, way, own)),
      BContract(parts, way), Contract("A", <<>>, parts)>>
\* C is complete (TypeChecker::checkContractAbstractConstructors) if each
\* constructor with parameters gets arguments from somewhere.
Complete(p) ==
    \A i \in 2..Len(p) : Constructor(p[i]) # <<>> /\ Parameters(Constructor(p[i])[1]) # <<>> =>
       \E j \in DOMAIN p : \E given \in Range(BaseArgumentsIn(p, j)) :
          given.base = p[i].attr.name /\ given.arguments # <<>>
CreationPrograms ==
    {p \in {Creation(parts, way, own, direct) :
              parts \in AParts, way \in {"head", "constructor", "later"},
              own \in {"none", "own", "gives"}, direct \in BOOLEAN} : Complete(p)}

ProgramsOf(t) ==
    CASE t = "statements" -> StatementPrograms
      [] t = "expressions" -> ExpressionPrograms
      [] t = "modifiers" -> ModifierPrograms
      [] t = "twice" -> TwicePrograms
      [] t = "calls" -> CallPrograms
      [] t = "creation" -> CreationPrograms

-----------------------------------------------------------------------------
(* The specification: one program of one kind.                             *)

Init == topic \in Topics /\ program = <<>>
GivenProgram ==
    /\ program = <<>>
    /\ \E p \in ProgramsOf(topic) : program' = p
    /\ UNCHANGED topic
Next == GivenProgram
Spec == Init /\ [][Next]_vars

-----------------------------------------------------------------------------
(* Properties.                                                             *)

Fuel == 40
StorageBefore(p) == [n \in StateNames(p) |-> StorageLayout(p)[n] + 2]
Slots(p, storage) == [k \in Word |-> IF \E n \in DOMAIN storage : StorageLayout(p)[n] = k
                                     THEN storage[CHOOSE n \in DOMAIN storage : StorageLayout(p)[n] = k] ELSE 0]
Executed(items, slots, env) ==
    Iterated(LAMBDA c : Step(items, c, env), LAMBDA c : c.status # "running",
             [m |-> [stack |-> <<>>, storage |-> slots, memory |-> [k \in Word |-> 0]],
              pc |-> 1, status |-> "running", data |-> <<>>], 11)
Calldata(call) == IF call.empty THEN <<>> ELSE <<call.selector>> \o FlattenSeq([i \in DOMAIN call.arguments |-> Bytes(call.arguments[i])])
Env(call) == [caller |-> 0, gas |-> 0, value |-> call.value, calldata |-> Calldata(call)]
CallOf(selector, arguments, value) == [empty |-> FALSE, selector |-> selector, arguments |-> arguments, value |-> value]
NoData(value) == [empty |-> TRUE, selector |-> 0, arguments |-> <<0, 0>>, value |-> value]
CallsFor(t) ==
    IF t # "calls" THEN {CallOf(5, <<x, 1>>, 0) : x \in {0, 3}}
    ELSE {CallOf(selector, <<2, 0>>, 0) : selector \in {1, 3, 5, 7, 9, 13, 2}} \cup {CallOf(5, <<1, 1>>, 1), NoData(0), NoData(1)}

\* What a run should have done.
Agrees(run, meant, p) ==
    CASE meant.status = "timeout" -> TRUE
      [] meant.status = "throw" -> run.status = "bad jump"
      [] OTHER -> /\ run.status = "stop" /\ run.m.storage = Slots(p, meant.storage)
                  /\ run.data = FlattenSeq([i \in DOMAIN meant.value |-> Bytes(meant.value[i])])

CallsAgree(p, optimise) ==
    \A c \in {CompileContract(p, optimise)} :
       /\ ~c.failed /\ c.todo = <<>>
       /\ \A call \in CallsFor(topic) :
             Agrees(Executed(c.items, Slots(p, StorageBefore(p)), Env(call)),
                    Called(p, call, StorageBefore(p), Fuel), p)
CreationAgrees(p) ==
    \A c \in {CompileConstructor(p, FALSE)}, empty \in {[n \in StateNames(p) |-> 0]} :
       /\ ~c.failed /\ c.todo = <<>>
       /\ Agrees(Executed(c.items, Slots(p, empty), Env(NoData(0))),
                 [Created(p, empty, Fuel) EXCEPT !.value = <<>>], p)

\* The code of a contract does what its functions say, for every call: the
\* selector, loops and jumps across scopes and modifiers, tuples and places
\* end with the return values and the storage that the source means, and
\* throw exactly when it throws.
CallsBehave ==
    program # <<>> /\ topic \in {"statements", "expressions", "modifiers", "calls"} =>
       CallsAgree(program, topic = "expressions")     \* with the optimiser: operands in its order

\* Creation initialises the state variables and runs the constructors, bases
\* first, each with the arguments that the most derived contract gives.
CreationBehaves == program # <<>> /\ topic = "creation" => CreationAgrees(program)

\* A function that names one modifier twice runs it twice, each time with
\* its own arguments (docs/contracts.rst: modifiers are evaluated in order).
ModifiersEvaluatedInOrder == program # <<>> /\ topic = "twice" => CallsAgree(program, FALSE)

=============================================================================
