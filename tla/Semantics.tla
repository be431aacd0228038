----------------------------- MODULE Semantics ------------------------------
(***************************************************************************)
(* What a contract means, without stacks and jumps: the reference for the  *)
(* code that ContractCompiler writes.                                      *)
(*                                                                         *)
(* A state holds the variables of the function that runs, the storage by   *)
(* names, how it goes on (status) and the values of the last expression.   *)
(* Operands are evaluated from right to left, arguments from left to       *)
(* right, the value of an assignment before its place.                     *)
(***************************************************************************)
EXTENDS ContractCompiler

Goes(s) == s.status = "ok"
Yield(s, value) == [s EXCEPT !.value = value]
Give(s, v) == Yield(s, <<v>>)
Stopped(s, status) == [s EXCEPT !.status = status]

ValueOf(p, s, name) == IF name \in DOMAIN s.vars THEN s.vars[name] ELSE s.storage[name]
Put(s, name, v) ==
    IF name \in DOMAIN s.vars THEN [s EXCEPT !.vars[name] = v] ELSE [s EXCEPT !.storage[name] = v]

\* The places of an assignment, with the values they get: a list that starts
\* (or ends) with no place gets the last (or first) values.
Components(n) == IF n.type = "TupleExpression" THEN n.kids.components ELSE <<n>>
Aligned(places, values) ==
    LET n == Len(places)
        v == Len(values)
        left == Missing(places[n]) \/ ~Missing(places[1])
        value(i) == IF left THEN values[i] ELSE values[v - n + i] IN
    [i \in {i \in 1..n : ~Missing(places[i])} |-> [name |-> places[i].attr.name, value |-> value(i)]]
PutAll(s, places, values) ==
    With(Aligned(places, values), LAMBDA put :
         Accumulated(LAMBDA t, k : LET i == Len(places) + 1 - k IN
                                   IF i \in DOMAIN put THEN Put(t, put[i].name, put[i].value) ELSE t,
                     s, [k \in DOMAIN places |-> k]))

Arithmetic(s, op, x, y) ==
    CASE op \in {"Div", "Mod"} /\ y = 0 -> Stopped(s, "throw")
      [] op = "Div" -> Give(s, x \div y)
      [] op = "Mod" -> Give(s, x % y)
      [] op = "Add" -> Give(s, Wrap(x + y))
      [] op = "Sub" -> Give(s, Wrap(x - y))
      [] op = "Mul" -> Give(s, Wrap(x * y))
      [] op = "Exp" -> Give(s, Eval("EXP", <<x, y>>))
      [] op = "BitOr" -> Give(s, Eval("OR", <<x, y>>))
      [] op = "BitAnd" -> Give(s, Eval("AND", <<x, y>>))
      [] op = "BitXor" -> Give(s, Eval("XOR", <<x, y>>))
      [] op = "Equal" -> Give(s, Bool(x = y))
      [] op = "NotEqual" -> Give(s, Bool(x # y))
      [] op = "LessThan" -> Give(s, Bool(x < y))
      [] op = "GreaterThan" -> Give(s, Bool(x > y))
      [] op = "LessThanOrEqual" -> Give(s, Bool(x <= y))
      [] op = "GreaterThanOrEqual" -> Give(s, Bool(x >= y))

\* The layers of a function: its modifiers, from the outside, and its body.
Layers(p, f) ==
    LET used == SelectSeq(f.kids.functionModifiers,
                          LAMBDA m : \A i \in DOMAIN p : p[i].attr.name # m.kids.modifierName[1].attr.name) IN
    [i \in 1..(Len(used) + 1) |->
       IF i > Len(used)
       THEN [names |-> <<>>, arguments |-> <<>>, locals |-> <<>>, body |-> f.kids.body[1]]
       ELSE LET m == FunctionModifier(p, used[i].kids.modifierName[1].attr.name) IN
            [names |-> NamesOf(Parameters(m)), arguments |-> used[i].kids.arguments,
             locals |-> NamesOf(LocalVariables(m)), body |-> m.kids.body[1]]]
Zeros(names) == [n \in Range(names) |-> 0]
Bound(names, values) == [n \in Range(names) |-> values[CHOOSE i \in DOMAIN names : names[i] = n]]
Layer == Node("Layer", <<>>, <<>>, 0, 0)
Frame(f, arguments) ==
    Zeros(NamesOf(ReturnParameters(f) \o LocalVariables(f))) @@ Bound(NamesOf(Parameters(f)), arguments)

RECURSIVE Meaning(_, _, _)

\* One after the other, as long as nothing stops it.
InOrder(p, nodes, s) ==
    Accumulated(LAMBDA t, n : IF Goes(t) THEN With(Meaning(p, n, t), LAMBDA u : Yield(u, t.value \o u.value)) ELSE t,
                Yield(s, <<>>), nodes)
After(s, F(_)) == IF Goes(s) THEN F(s) ELSE s

\* A loop, from its condition on, as long as there is fuel.
Rounds(p, n, s) ==
    LET isFor == n.type = "ForStatement"
        condition == IF isFor THEN n.kids.condExpression ELSE n.kids.condition
        post == IF isFor THEN n.kids.loopExpression ELSE <<>>
        again == Node("Round", <<>>, [loop |-> <<n>>], 0, 0)
        next(t) == IF t.status \in {"ok", "continue"} THEN InOrder(p, post, Stopped(t, "ok")) ELSE t IN
    IF s.fuel = 0 THEN Stopped(s, "timeout")
    ELSE After(InOrder(p, condition, [s EXCEPT !.fuel = @ - 1]), LAMBDA t :
         IF t.value = <<0>> THEN t
         ELSE With(next(Meaning(p, n.kids.body[1], t)), LAMBDA u :
              IF Goes(u) THEN Meaning(p, again, u)
              ELSE IF u.status = "break" THEN Stopped(u, "ok") ELSE u))

\* The rest of the layers of the function that runs.
RunLayer(p, s) ==
    LET layer == s.layers[1]
        own == Range(layer.names \o layer.locals)
        outer == s.vars
        layers == s.layers
        restore(t) == [t EXCEPT !.vars = [n \in DOMAIN outer |-> IF n \in own THEN outer[n] ELSE t.vars[n]],
                                !.layers = layers,
                                !.status = IF @ = "return" THEN "ok" ELSE @] IN
    After(InOrder(p, layer.arguments, s), LAMBDA t :
        restore(Meaning(p, layer.body, [t EXCEPT !.layers = Tail(@),
                                                 !.vars = Bound(layer.names, t.value) @@ Zeros(layer.locals) @@ @])))
\* A call in a frame of its own.
RunFunction(p, f, arguments, s) ==
    IF s.fuel = 0 THEN Stopped(s, "timeout")
    ELSE With(Meaning(p, Layer, [s EXCEPT !.vars = Frame(f, arguments), !.layers = Layers(p, f),
                                          !.returns = NamesOf(ReturnParameters(f)), !.fuel = @ - 1]), LAMBDA t :
         [t EXCEPT !.vars = s.vars, !.layers = s.layers, !.returns = s.returns,
                   !.value = [i \in DOMAIN ReturnParameters(f) |-> t.vars[ReturnParameters(f)[i].attr.name]]])

MeansExpression(p, n, s) ==
    LET k == n.kids IN
    CASE n.type = "Literal" -> Give(s, n.attr.value)
      [] n.type = "Identifier" ->
           IF n.attr.name \in DOMAIN ConstantsOf(p) THEN Meaning(p, ConstantsOf(p)[n.attr.name], s)
           ELSE Give(s, ValueOf(p, s, n.attr.name))
      [] n.type = "TupleExpression" -> InOrder(p, SelectSeq(k.components, LAMBDA m : ~Missing(m)), s)
      [] n.type = "Assignment" ->
           After(Meaning(p, k.rightHandSide[1], s), LAMBDA t :
               LET place == k.leftHandSide[1]
                   put(u) == Yield(PutAll(u, Components(place), u.value),
                                   IF place.type = "TupleExpression" THEN <<>> ELSE u.value) IN
               IF n.attr.op = "Assign" THEN put(t)
               ELSE After(Arithmetic(t, n.attr.operation, ValueOf(p, t, place.attr.name), t.value[1]), put))
      [] n.type = "UnaryOperation" /\ n.attr.op \in {"Inc", "Dec", "Delete"} ->
           LET name == k.subExpression[1].attr.name
               old == ValueOf(p, s, name)
               new == CASE n.attr.op = "Inc" -> Wrap(old + 1)
                        [] n.attr.op = "Dec" -> Wrap(old - 1)
                        [] n.attr.op = "Delete" -> 0 IN
           Yield(Put(s, name, new), CASE n.attr.op = "Delete" -> <<>>
                                      [] n.attr.prefix -> <<new>>
                                      [] OTHER -> <<old>>)
      [] n.type = "UnaryOperation" ->
           After(Meaning(p, k.subExpression[1], s), LAMBDA t :
               Give(t, CASE n.attr.op = "Not" -> Bool(t.value[1] = 0)
                         [] n.attr.op = "BitNot" -> Size - 1 - t.value[1]
                         [] n.attr.op = "Sub" -> Wrap(-t.value[1])))
      [] n.type = "BinaryOperation" /\ n.attr.op \in {"And", "Or"} ->
           After(Meaning(p, k.left[1], s), LAMBDA t :
               IF (t.value[1] = 0) = (n.attr.op = "And") THEN t ELSE Meaning(p, k.right[1], t))
      [] n.type = "BinaryOperation" ->
           After(InOrder(p, <<k.right[1], k.left[1]>>, s), LAMBDA t :
               Arithmetic(t, n.attr.op, t.value[2], t.value[1]))
      [] n.type = "Conditional" ->
           After(Meaning(p, k.condition[1], s), LAMBDA t :
               Meaning(p, IF t.value[1] # 0 THEN k.trueExpression[1] ELSE k.falseExpression[1], t))
      [] n.type = "FunctionCall" ->
           LET f == DeclarationOf(p, CalleeId(p, n)) IN
           After(InOrder(p, ArgumentsInOrder(n, NamesOf(Parameters(f))), s), LAMBDA t :
               RunFunction(p, f, t.value, t))

MeansStatement(p, n, s) ==
    LET k == n.kids IN
    CASE n.type = "Block" -> InOrder(p, k.statements, s)
      [] n.type = "IfStatement" ->
           After(Meaning(p, k.condition[1], s), LAMBDA t :
               InOrder(p, IF t.value[1] # 0 THEN k.trueBody ELSE k.falseBody, t))
      [] n.type = "WhileStatement" -> Rounds(p, n, s)
      [] n.type = "ForStatement" -> After(InOrder(p, k.initExpression, s), LAMBDA t : Rounds(p, n, t))
      [] n.type = "Round" -> Rounds(p, k.loop[1], s)
      [] n.type = "Continue" -> Stopped(s, "continue")
      [] n.type = "Break" -> Stopped(s, "break")
      [] n.type = "Throw" -> Stopped(s, "throw")
      [] n.type = "Return" ->
           After(InOrder(p, k.expression, s), LAMBDA t :
               Stopped([t EXCEPT !.vars = (IF k.expression = <<>> THEN <<>> ELSE Bound(t.returns, t.value)) @@ @],
                       "return"))
      [] n.type = "VariableDeclarationStatement" ->
           After(InOrder(p, k.initialValue, s), LAMBDA t :
               IF k.initialValue = <<>> THEN t ELSE PutAll(t, k.variables, t.value))
      [] n.type = "ExpressionStatement" -> Meaning(p, k.expression[1], s)
      [] n.type \in {"PlaceholderStatement", "Layer"} -> RunLayer(p, s)

Meaning(p, n, s) ==
    IF n.type \in Statements \cup {"Round", "Layer"} THEN MeansStatement(p, n, s) ELSE MeansExpression(p, n, s)

-----------------------------------------------------------------------------
(* Calls and creations.                                                    *)

StateNames(p) == DOMAIN StorageLayout(p)
Start(storage, fuel) ==
    [vars |-> <<>>, storage |-> storage, status |-> "ok", value |-> <<>>, layers |-> <<>>, returns |-> <<>>,
     fuel |-> fuel]

\* A call with a selector and arguments: the most derived function with that
\* signature, else the fallback function.
FunctionFor(p, selector) ==
    LET all == {id \in Exported(p) : SelectorOf(id.name, id.arity) = selector} IN
    IF all = {} THEN Fallback(p) ELSE <<CHOOSE id \in all : TRUE>>
Called(p, call, storage, fuel) ==
    LET id == IF call.empty THEN Fallback(p) ELSE FunctionFor(p, call.selector)
        n == DeclarationOf(p, id[1])
        s == Start(storage, fuel) IN
    CASE id = <<>> -> Stopped(s, "throw")
      [] call.value # 0 /\ ~IsPayable(p, id[1]) -> Stopped(s, "throw")
      [] n.type = "VariableDeclaration" -> Meaning(p, Node("Identifier", [name |-> id[1].name], <<>>, 0, 0), s)
      [] OTHER -> RunFunction(p, n, SubSeq(call.arguments, 1, id[1].arity), s)

\* The state variables get their values, those of bases first; the arguments
\* of all constructors are evaluated, from the most derived contract on; the
\* constructors run, those of bases first.
Initialised(p, s) ==
    LET all == FlattenSeq([i \in DOMAIN p |-> SelectSeq(StateVariables(p[Len(p) + 1 - i]),
                                                        LAMBDA v : v.kids.value # <<>> /\ ~v.attr.spec.isConstant)]) IN
    Accumulated(LAMBDA t, v : After(t, LAMBDA u : After(Meaning(p, v.kids.value[1], u), LAMBDA w :
                                       Put(w, v.attr.name, w.value[1]))),
                s, all)
GivenTo(p, base) ==
    LET given == {i \in DOMAIN p : \E a \in Range(BaseArgumentsIn(p, i)) : a.base = base /\ a.arguments # <<>>} IN
    IF given = {} THEN <<>>
    ELSE LET i == CHOOSE i \in given : \A j \in given : i <= j IN
         SelectSeq(BaseArgumentsIn(p, i), LAMBDA a : a.base = base /\ a.arguments # <<>>)[1].arguments
Created(p, storage, fuel) ==
    LET with == SelectSeq([i \in DOMAIN p |-> i], LAMBDA i : Constructor(p[i]) # <<>>)
        f(i) == Constructor(p[i])[1]
        \* Every frame adds its variables to those of the more derived ones.
        enter(t, i) == After(t, LAMBDA u : After(InOrder(p, IF i = 1 THEN <<>> ELSE GivenTo(p, p[i].attr.name), u),
                                                 LAMBDA w : [w EXCEPT !.vars = Frame(f(i), w.value) @@ @]))
        run(t, i) == After(t, LAMBDA u : Meaning(p, Layer, [u EXCEPT !.layers = Layers(p, f(i))])) IN
    With(Accumulated(enter, Initialised(p, Start(storage, fuel)), with), LAMBDA s :
         Accumulated(run, s, Reverse(with)))
=============================================================================
