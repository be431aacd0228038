------------------------------ MODULE Grammar -------------------------------
(***************************************************************************)
(* What the parser promises, independent of how it parses: the text of a   *)
(* syntax tree, as libsolidity/grammar.txt spells it.                      *)
(***************************************************************************)
EXTENDS Parser

T(t) == <<[t |-> t, lit |-> ""]>>
Named(t, lit) == <<[t |-> t, lit |-> lit]>>
Id(name) == Named("Identifier", name)
NoDocs(tokens) == [i \in DOMAIN tokens |-> [t |-> tokens[i].t, lit |-> tokens[i].lit]]

\* Sequences of tokens with something between them.
Joined(parts, separator) ==
    FlattenSeq([i \in DOMAIN parts |-> (IF i = 1 THEN <<>> ELSE separator) \o parts[i]])
Optional(present, tokens) == IF present THEN tokens ELSE <<>>

RECURSIVE Spell(_)
SpellAll(nodes) == FlattenSeq([i \in DOMAIN nodes |-> Spell(nodes[i])])
SpellList(nodes) == Joined([i \in DOMAIN nodes |-> Spell(nodes[i])], T("Comma"))
Braced(tokens) == T("LBrace") \o tokens \o T("RBrace")
InParens(tokens) == T("LParen") \o tokens \o T("RParen")

SpellExpression(n) ==
    LET k == n.kids IN
    CASE n.type = "Identifier" -> Id(n.attr.name)
      [] n.type = "Literal" -> Named(n.attr.token, n.attr.value) \o Optional(n.attr.sub # "", T(n.attr.sub))
      [] n.type = "ElementaryTypeNameExpression" -> T(n.attr.name)
      [] n.type = "Assignment" -> SpellAll(k.leftHandSide) \o T(n.attr.op) \o SpellAll(k.rightHandSide)
      [] n.type = "Conditional" -> SpellAll(k.condition) \o T("Conditional") \o SpellAll(k.trueExpression)
                                   \o T("Colon") \o SpellAll(k.falseExpression)
      [] n.type = "BinaryOperation" -> SpellAll(k.left) \o T(n.attr.op) \o SpellAll(k.right)
      [] n.type = "UnaryOperation" -> IF n.attr.prefix THEN T(n.attr.op) \o SpellAll(k.subExpression)
                                      ELSE SpellAll(k.subExpression) \o T(n.attr.op)
      [] n.type = "TupleExpression" ->
           IF n.attr.isArray THEN T("LBrack") \o SpellList(k.components) \o T("RBrack")
           ELSE InParens(SpellList(k.components))
      [] n.type = "NewExpression" -> T("New") \o SpellAll(k.typeName)
      [] n.type = "MemberAccess" -> SpellAll(k.expression) \o T("Period") \o Id(n.attr.name)
      [] n.type = "IndexAccess" -> SpellAll(k.base) \o T("LBrack") \o SpellAll(k.index) \o T("RBrack")
      [] n.type = "FunctionCall" ->
           SpellAll(k.expression)
           \o InParens(IF n.attr.names = <<>> THEN SpellList(k.arguments)
                       ELSE Braced(Joined([i \in DOMAIN k.arguments |->
                                             Id(n.attr.names[i]) \o T("Colon") \o Spell(k.arguments[i])],
                                          T("Comma"))))

SpellTypeName(n) ==
    CASE n.type = "ElementaryTypeName" -> T(n.attr.name)
      [] n.type = "UserDefinedTypeName" ->
           Joined([i \in DOMAIN n.attr.path |-> Id(n.attr.path[i])], T("Period"))
      [] n.type = "Mapping" -> T("Mapping") \o InParens(SpellAll(n.kids.keyType) \o T("Arrow")
                                                        \o SpellAll(n.kids.valueType))
      [] n.type = "ArrayTypeName" -> SpellAll(n.kids.baseType) \o T("LBrack") \o SpellAll(n.kids.length)
                                     \o T("RBrack")

Word1(value) == Optional(value # "Default", T(value))
\* A variable with its type, with var, or, in a tuple, by its name alone.
SpellVariable(n) ==
    LET spec == n.attr.spec IN
    (IF n.kids.typeName # <<>> THEN SpellAll(n.kids.typeName) ELSE Optional(n.to > n.from + 1, T("Var")))
    \o Word1(spec.visibility) \o Optional(spec.isIndexed, T("Indexed"))
    \o Optional(spec.isConstant, T("Const")) \o Word1(spec.location)
    \o Optional(n.attr.name # "", Id(n.attr.name))
    \o Optional(n.kids.value # <<>>, T("Assign") \o SpellAll(n.kids.value))
\* In var (a, , b) the names alone.
InTuple(n) == \/ Len(n.kids.variables) # 1
              \/ Missing(n.kids.variables[1]) \/ n.kids.variables[1].from # n.from
SpellVariables(n) ==
    IF ~InTuple(n) THEN SpellAll(n.kids.variables)
    ELSE T("Var") \o InParens(Joined([i \in DOMAIN n.kids.variables |->
                                        IF Missing(n.kids.variables[i]) THEN <<>>
                                        ELSE Id(n.kids.variables[i].attr.name)], T("Comma")))

\* A statement that ends in its last part does so without the ";".
Body(n) == Last(IF n.type # "IfStatement" THEN n.kids.body ELSE n.kids.trueBody \o n.kids.falseBody)
RECURSIVE Closed(_)
Closed(n) == \/ n.type \in {"Block", "InlineAssembly"}
             \/ n.type \in {"IfStatement", "WhileStatement", "ForStatement"} /\ Closed(Body(n))
SpellStatement(n) == Spell(n) \o Optional(~Closed(n), T("Semicolon"))
SpellStatements(nodes) == FlattenSeq([i \in DOMAIN nodes |-> SpellStatement(nodes[i])])
SpellInStatement(n) ==
    LET k == n.kids IN
    CASE n.type = "Block" -> Braced(SpellStatements(k.statements))
      [] n.type = "PlaceholderStatement" -> Id("_")
      [] n.type = "IfStatement" ->
           T("If") \o InParens(SpellAll(k.condition))
           \o (IF k.falseBody = <<>> THEN SpellAll(k.trueBody)
               ELSE SpellStatements(k.trueBody) \o T("Else") \o SpellAll(k.falseBody))
      [] n.type = "WhileStatement" ->
           T("While") \o InParens(SpellAll(k.condition)) \o SpellAll(k.body)
      [] n.type = "ForStatement" ->
           T("For") \o InParens(SpellAll(k.initExpression) \o T("Semicolon") \o SpellAll(k.condExpression)
                                \o T("Semicolon") \o SpellAll(k.loopExpression))
           \o SpellAll(k.body)
      [] n.type \in {"Continue", "Break", "Throw"} -> T(n.type)
      [] n.type = "Return" -> T("Return") \o SpellAll(k.expression)
      [] n.type = "ExpressionStatement" -> SpellAll(k.expression)
      [] n.type = "VariableDeclarationStatement" ->
           SpellVariables(n) \o Optional(k.initialValue # <<>>, T("Assign") \o SpellAll(k.initialValue))
      [] n.type = "InlineAssembly" -> T("Assembly") \o T("AssemblyBlock")

SpellDeclaration(n) ==
    LET k == n.kids IN
    CASE n.type = "ParameterList" -> Optional(n.from < n.to, InParens(SpellList(k.parameters)))
      [] n.type = "FunctionDefinition" ->
           T("Function") \o Optional(n.attr.name # "", Id(n.attr.name)) \o SpellAll(k.parameters)
           \o Optional(n.attr.isConst, T("Const")) \o Optional(n.attr.isPayable, T("Payable"))
           \o Word1(n.attr.visibility) \o SpellAll(k.functionModifiers)
           \o Optional(k.returnParameters[1].kids.parameters # <<>>, T("Returns") \o SpellAll(k.returnParameters))
           \o (IF k.body = <<>> THEN T("Semicolon") ELSE SpellAll(k.body))
      [] n.type = "ModifierDefinition" ->
           T("Modifier") \o Id(n.attr.name) \o SpellAll(k.parameters) \o SpellAll(k.body)
      [] n.type = "ModifierInvocation" ->
           SpellAll(k.modifierName) \o Optional(n.to > k.modifierName[1].to, InParens(SpellList(k.arguments)))
      [] n.type = "StructDefinition" ->
           T("Struct") \o Id(n.attr.name)
           \o Braced(FlattenSeq([i \in DOMAIN k.members |-> Spell(k.members[i]) \o T("Semicolon")]))
      [] n.type = "EnumDefinition" -> T("Enum") \o Id(n.attr.name) \o Braced(SpellList(k.members))
      [] n.type = "EnumValue" -> Id(n.attr.name)
      [] n.type = "EventDefinition" ->
           T("Event") \o Id(n.attr.name) \o SpellAll(k.parameters)
           \o Optional(n.attr.anonymous, T("Anonymous")) \o T("Semicolon")
      [] n.type = "UsingForDirective" ->
           T("Using") \o SpellAll(k.libraryName) \o T("For")
           \o (IF k.typeName = <<>> THEN T("Mul") ELSE SpellAll(k.typeName)) \o T("Semicolon")

\* The parts of a contract; a state variable ends with ";".
SpellPart(n) == Spell(n) \o Optional(n.type = "VariableDeclaration", T("Semicolon"))
SpellImport(a) ==
    LET symbol(s) == Id(s.symbol) \o Optional(s.alias # "", T("As") \o Id(s.alias))
        from == Id("from") \o Named("StringLiteral", a.path) IN
    T("Import")
    \o (IF a.symbolAliases # <<>>
        THEN Braced(Joined([i \in DOMAIN a.symbolAliases |-> symbol(a.symbolAliases[i])], T("Comma"))) \o from
        ELSE Named("StringLiteral", a.path) \o Optional(a.unitAlias # "", T("As") \o Id(a.unitAlias)))
    \o T("Semicolon")
SpellUnit(n) ==
    LET k == n.kids IN
    CASE n.type = "SourceUnit" -> SpellAll(k.nodes)
      [] n.type = "PragmaDirective" -> T("Pragma") \o NoDocs(n.attr.tokens) \o T("Semicolon")
      [] n.type = "ImportDirective" -> SpellImport(n.attr)
      [] n.type = "InheritanceSpecifier" ->
           SpellAll(k.baseName) \o Optional(n.to > k.baseName[1].to, InParens(SpellList(k.arguments)))
      [] n.type = "ContractDefinition" ->
           T(IF n.attr.isLibrary THEN "Library" ELSE "Contract") \o Id(n.attr.name)
           \o Optional(k.baseContracts # <<>>, T("Is") \o SpellList(k.baseContracts))
           \o Braced(FlattenSeq([i \in DOMAIN k.subNodes |-> SpellPart(k.subNodes[i])]))

Spell(n) ==
    CASE Missing(n) -> <<>>
      [] n.type \in DOMAIN CompositeRoles \cup DOMAIN PrimaryRoles -> SpellExpression(n)
      [] n.type = "VariableDeclaration" -> SpellVariable(n)
      [] n.type \in DOMAIN TypeNameRoles \ {"InlineAssembly"} -> SpellTypeName(n)
      [] n.type \in {"InlineAssembly"} \cup DOMAIN StatementRoles \cup DOMAIN SimpleStatementRoles ->
           SpellInStatement(n)
      [] n.type \in DOMAIN DeclarationRoles \cup {"EnumDefinition", "EnumValue", "UsingForDirective"} ->
           SpellDeclaration(n)
      [] OTHER -> SpellUnit(n)

-----------------------------------------------------------------------------
(* Precedence: which operator may stand below which without parentheses.   *)

Looser(n, than) == n.type = "BinaryOperation" /\ Precedence(n.attr.op) < than
IsOperation(n) == n.type \in {"Assignment", "Conditional", "BinaryOperation"}
OperandsBind(n) ==
    CASE n.type = "BinaryOperation" ->
           /\ \A side \in {n.kids.left[1], n.kids.right[1]} : side.type \notin {"Assignment", "Conditional"}
           /\ ~Looser(n.kids.left[1], Precedence(n.attr.op))
           /\ ~Looser(n.kids.right[1], Precedence(n.attr.op) + 1)
      [] n.type = "UnaryOperation" -> ~IsOperation(n.kids.subExpression[1])
      [] n.type = "Assignment" -> n.kids.leftHandSide[1].type \notin {"Assignment", "Conditional"}
      [] n.type = "Conditional" -> n.kids.condition[1].type \notin {"Assignment", "Conditional"}
      [] n.type \in {"MemberAccess", "FunctionCall"} -> ~IsOperation(n.kids.expression[1])
      [] n.type = "IndexAccess" -> ~IsOperation(n.kids.base[1])
      [] OTHER -> TRUE
=============================================================================
