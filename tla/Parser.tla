------------------------------- MODULE Parser -------------------------------
(***************************************************************************)
(* libsolidity/parsing/Parser and ParserBase: from tokens to syntax trees. *)
(*                                                                         *)
(* A token is [t, lit, doc]: its kind, its literal and the documentation   *)
(* comment in front of it.  A parse function takes the state of the parser *)
(* s and returns it with its result in s.out; s.at is the current token.   *)
(* After a fatal error s.failed is set, and no function does anything.     *)
(***************************************************************************)
EXTENDS Ast, FiniteSetsExt, TLC

-----------------------------------------------------------------------------
(* Token.                                                                  *)

ElementaryTypeNames ==
    {"Int", "UInt", "Bytes", "Byte", "String", "Address", "Bool", "Fixed", "UFixed",
     "IntM", "UIntM", "BytesM", "FixedMxN", "UFixedMxN"}
AssignmentOps ==
    {"Assign", "AssignBitOr", "AssignBitXor", "AssignBitAnd", "AssignShl", "AssignSar",
     "AssignShr", "AssignAdd", "AssignSub", "AssignMul", "AssignDiv", "AssignMod"}
CountOps == {"Inc", "Dec"}
UnaryOps == {"Not", "BitNot", "Inc", "Dec", "Delete", "Add", "Sub"}
VariableVisibilities == {"Public", "Private", "Internal"}
Visibilities == VariableVisibilities \cup {"External"}
LocationSpecifiers == {"Memory", "Storage"}
Subdenominations ==
    {"SubWei", "SubSzabo", "SubFinney", "SubGdtuer", "SubSecond", "SubMinute", "SubHour",
     "SubDay", "SubWeek", "SubYear"}
PrecedenceTable ==
    [Comma |-> 1, Assign |-> 2, Conditional |-> 3, Or |-> 4, And |-> 5, Equal |-> 6,
     NotEqual |-> 6, LessThan |-> 7, GreaterThan |-> 7, LessThanOrEqual |-> 7,
     GreaterThanOrEqual |-> 7, BitOr |-> 8, BitXor |-> 9, BitAnd |-> 10, SHL |-> 11,
     SAR |-> 11, SHR |-> 11, Add |-> 12, Sub |-> 12, Mul |-> 13, Div |-> 13, Mod |-> 13,
     Exp |-> 14]
Precedence(t) == IF t \in AssignmentOps THEN 2
                 ELSE IF t \in DOMAIN PrecedenceTable THEN PrecedenceTable[t] ELSE 0

-----------------------------------------------------------------------------
(* ParserBase, and the scanner as the parser sees it.                      *)

TokenAt(s, i) == IF i > Len(s.tokens) THEN [t |-> "EOS", lit |-> "", doc |-> ""] ELSE s.tokens[i]
Tok(s) == IF s.failed THEN "Failed" ELSE TokenAt(s, s.at).t
PeekNext(s) == IF s.failed THEN "Failed" ELSE TokenAt(s, s.at + 1).t
Lit(s) == TokenAt(s, s.at).lit
Doc(s) == TokenAt(s, s.at).doc
Position(s) == Min({s.at - 1, Len(s.tokens)})
EndPosition(s) == Min({s.at, Len(s.tokens)})

ParserError(s) == [s EXCEPT !.errors = @ + 1]
Fatal(s) == IF s.failed THEN s ELSE [ParserError(s) EXCEPT !.failed = TRUE, !.out = Null]
Advance(s) == [s EXCEPT !.at = @ + 1]
Out(s, result) == IF s.failed THEN s ELSE [s EXCEPT !.out = result]
Expect(s, t) == IF Tok(s) = t THEN Advance(s) ELSE Fatal(s)
ExpectIdentifier(s) == IF Tok(s) = "Identifier" THEN Advance(Out(s, Lit(s))) ELSE Fatal(s)

\* ASTNodeFactory::createNode.
Make(s, type, attr, kids, from, to) == Out(s, Node(type, attr, kids, from, to))

\* The results of Item as long as More holds.
Repeat(s, More(_), Item(_)) ==
    LET RECURSIVE go(_, _)
        go(st, acc) == IF st.failed \/ ~More(st) THEN Out(st, acc)
                       ELSE LET n == Item(st) IN go(n, Append(acc, n.out)) IN
    go(s, <<>>)
\* Item, then "," Item until the closing token; the list may be empty if
\* allowEmpty.  The closing token is not consumed.
CommaList(s, Item(_), closing, allowEmpty) ==
    IF allowEmpty /\ Tok(s) = closing THEN Out(s, <<>>)
    ELSE LET first == Item(s)
             rest == Repeat(first, LAMBDA st : Tok(st) # closing,
                                   LAMBDA st : Item(Expect(st, "Comma"))) IN
         Out(rest, <<first.out>> \o rest.out)

\* The parse functions call each other: the result of one of them, by its
\* name, with what it takes besides the state.
RECURSIVE Parsed(_, _, _), PostfixRest(_, _), Components(_, _, _)

-----------------------------------------------------------------------------
(* Expressions.                                                            *)


ParseExpression(s) == Parsed("Expression", s, Null)
OptionalExpression(s, closing) ==
    IF Tok(s) = closing THEN Out(s, <<>>)
    ELSE LET e == ParseExpression(s) IN Out(e, <<e.out>>)

\* ahead is an expression that was parsed before it was known to be one.
ParseExpressionFrom(s, ahead) ==
    LET left == Parsed("BinaryExpression", s, <<4, ahead>>)
        right == ParseExpression(Advance(left))
        false == ParseExpression(Expect(right, "Colon")) IN
    CASE Tok(left) \in AssignmentOps ->
           Make(right, "Assignment", [op |-> Tok(left)],
                [leftHandSide |-> <<left.out>>, rightHandSide |-> <<right.out>>],
                left.out.from, right.out.to)
      [] Tok(left) = "Conditional" ->
           Make(false, "Conditional", <<>>,
                [condition |-> <<left.out>>, trueExpression |-> <<right.out>>,
                 falseExpression |-> <<false.out>>], left.out.from, false.out.to)
      [] OTHER -> left

BinaryNode(left, right) ==
    Make(right, "BinaryOperation", [op |-> Tok(left)],
         [left |-> <<left.out>>, right |-> <<right.out>>], left.out.from, right.out.to)

RECURSIVE BinaryRest(_, _, _)
\* Mutant: operators of one precedence are taken from the right.
BinaryRestRight(left, precedence, min) ==
    IF precedence < min THEN left
    ELSE IF Precedence(Tok(left)) # precedence THEN BinaryRest(left, precedence - 1, min)
    ELSE BinaryRest(BinaryNode(left, Parsed("BinaryExpression", Advance(left), <<precedence, Null>>)),
                    precedence, min)

BinaryRest(left, precedence, min) ==
    IF precedence < min THEN left
    ELSE IF Precedence(Tok(left)) # precedence THEN BinaryRest(left, precedence - 1, min)
    ELSE BinaryRest(BinaryNode(left, Parsed("BinaryExpression", Advance(left), <<precedence + 1, Null>>)),
                    precedence, min)
ParseBinaryExpression(s, min, ahead) ==
    LET first == Parsed("UnaryExpression", s, ahead) IN
    BinaryRest(first, Precedence(Tok(first)), min)

ParseUnaryExpression(s, ahead) ==
    LET prefix == Missing(ahead) /\ Tok(s) \in UnaryOps \cup CountOps
        sub == IF prefix THEN Parsed("UnaryExpression", Advance(s), Null)
               ELSE LET base == CASE ~Missing(ahead) -> Out(s, ahead)
                                  [] Tok(s) = "New" ->
                                       LET t == Parsed("TypeName", Advance(s), FALSE) IN
                                       Make(t, "NewExpression", <<>>, [typeName |-> <<t.out>>],
                                            Position(s), t.out.to)
                                  [] OTHER -> Parsed("PrimaryExpression", s, <<>>) IN
                    PostfixRest(base, base.out.from) IN
    CASE prefix -> Make(sub, "UnaryOperation", [op |-> Tok(s), prefix |-> TRUE],
                        [subExpression |-> <<sub.out>>], Position(s), sub.out.to)
      [] ~prefix /\ Tok(sub) \in CountOps ->
           Make(Advance(sub), "UnaryOperation", [op |-> Tok(sub), prefix |-> FALSE],
                [subExpression |-> <<sub.out>>], sub.out.from, EndPosition(sub))
      [] OTHER -> sub

ParseFunctionCallListArguments(s) == CommaList(s, ParseExpression, "RParen", TRUE)
\* {name: value, ...}; a last comma is allowed.
NamedArgument(s) ==
    LET name == ExpectIdentifier(s)
        value == ParseExpression(Expect(name, "Colon")) IN
    Out(value, [name |-> name.out, value |-> value.out])
ParseFunctionCallArguments(s) ==
    LET RECURSIVE more(_, _)
        more(st, acc) ==
            IF st.failed \/ Tok(st) = "RBrace" THEN Out(st, acc)
            ELSE LET arg == NamedArgument(st) IN
                 IF Tok(arg) = "Comma" THEN more(Advance(arg), Append(acc, arg.out))
                 ELSE Out(arg, Append(acc, arg.out))
        named == more(Advance(s), <<>>)
        list == ParseFunctionCallListArguments(s) IN
    IF Tok(s) = "LBrace"
    THEN Out(Expect(named, "RBrace"),
             [arguments |-> [i \in DOMAIN named.out |-> named.out[i].value],
              names |-> [i \in DOMAIN named.out |-> named.out[i].name]])
    ELSE Out(list, [arguments |-> list.out, names |-> <<>>])

\* [ ], . and ( ) behind an expression.
PostfixRest(e, from) ==
    LET index == OptionalExpression(Advance(e), "RBrack")
        member == ExpectIdentifier(Advance(e))
        call == Parsed("FunctionCallArguments", Advance(e), <<>>) IN
    CASE Tok(e) = "LBrack" ->
           PostfixRest(Make(Expect(index, "RBrack"), "IndexAccess", <<>>,
                            [base |-> <<e.out>>, index |-> index.out], from, EndPosition(index)), from)
      [] Tok(e) = "Period" ->
           PostfixRest(Make(member, "MemberAccess", [name |-> member.out],
                            [expression |-> <<e.out>>], from, EndPosition(Advance(e))), from)
      [] Tok(e) = "LParen" ->
           PostfixRest(Make(Expect(call, "RParen"), "FunctionCall", [names |-> call.out.names],
                            [expression |-> <<e.out>>, arguments |-> call.out.arguments],
                            from, EndPosition(call)), from)
      [] OTHER -> e

\* Components of a tuple or an inline array.  Between two components a comma
\* is skipped if there is one.
Components(s, acc, closing) ==
    LET present == Tok(s) \notin {"Comma", closing}
        c == IF present THEN ParseExpression(s)
             ELSE IF closing = "RBrack" THEN ParserError(s) ELSE Out(s, Null)
        now == IF present \/ closing = "RParen" THEN Append(acc, c.out) ELSE acc IN
    IF c.failed THEN c
    ELSE IF Tok(c) = closing THEN Out(c, now)
    ELSE Components(IF Tok(c) = "Comma" THEN Advance(c) ELSE c, now, closing)

Literal(s, to, sub) ==
    Make(s, "Literal", [token |-> Tok(s), value |-> Lit(s), sub |-> sub], <<>>, Position(s), to)
ParsePrimaryExpression(s) ==
    LET closing == IF Tok(s) = "LParen" THEN "RParen" ELSE "RBrack"
        inner == IF Tok(Advance(s)) = closing THEN Out(Advance(s), <<>>)
                 ELSE Components(Advance(s), <<>>, closing) IN
    CASE Tok(s) = "Number" /\ PeekNext(s) \in Subdenominations ->
           Advance(Advance(Literal(s, EndPosition(Advance(s)), PeekNext(s))))
      [] Tok(s) \in {"TrueLiteral", "FalseLiteral", "Number", "StringLiteral"}
            /\ ~(Tok(s) = "Number" /\ PeekNext(s) \in Subdenominations) ->
           Advance(Literal(s, EndPosition(s), ""))
      [] Tok(s) = "Identifier" ->
           Advance(Make(s, "Identifier", [name |-> Lit(s)], <<>>, Position(s), EndPosition(s)))
      [] Tok(s) \in {"LParen", "LBrack"} ->
           Make(Expect(inner, closing), "TupleExpression", [isArray |-> closing = "RBrack"],
                [components |-> inner.out], Position(s), EndPosition(inner))
      [] Tok(s) \in ElementaryTypeNames ->
           Advance(Make(s, "ElementaryTypeNameExpression", [name |-> Tok(s)], <<>>,
                        Position(s), EndPosition(s)))
      [] OTHER -> Fatal(s)

-----------------------------------------------------------------------------
(* Type names.                                                             *)

ParseUserDefinedTypeName(s) ==
    LET first == ExpectIdentifier(s)
        rest == Repeat(first, LAMBDA st : Tok(st) = "Period", LAMBDA st : ExpectIdentifier(Advance(st))) IN
    Make(rest, "UserDefinedTypeName", [path |-> <<first.out>> \o rest.out], <<>>,
         Position(s), Position(rest))
ElementaryTypeName(s) ==
    Advance(Make(s, "ElementaryTypeName", [name |-> Tok(s)], <<>>, Position(s), EndPosition(s)))
ParseMapping(s) ==
    LET open == Expect(Expect(s, "Mapping"), "LParen")
        key == IF Tok(open) \in ElementaryTypeNames THEN ElementaryTypeName(open) ELSE Fatal(open)
        value == Parsed("TypeName", Expect(key, "Arrow"), FALSE) IN
    Make(Expect(value, "RParen"), "Mapping", <<>>,
         [keyType |-> <<key.out>>, valueType |-> <<value.out>>], Position(s), EndPosition(value))

RECURSIVE ArraySuffixes(_, _)
ArraySuffixes(type, from) ==
    LET length == OptionalExpression(Advance(type), "RBrack") IN
    IF Tok(type) # "LBrack" THEN type
    ELSE ArraySuffixes(Make(Expect(length, "RBrack"), "ArrayTypeName", <<>>,
                            [baseType |-> <<type.out>>, length |-> length.out],
                            from, EndPosition(length)), from)
\* Null stands for var.
ParseTypeName(s, allowVar) ==
    CASE Tok(s) = "Var" -> IF allowVar THEN Advance(Out(s, Null)) ELSE Fatal(s)
      [] Tok(s) \in ElementaryTypeNames -> ArraySuffixes(ElementaryTypeName(s), Position(s))
      [] Tok(s) = "Mapping" -> ArraySuffixes(Parsed("Mapping", s, <<>>), Position(s))
      [] Tok(s) = "Identifier" -> ArraySuffixes(Parsed("UserDefinedTypeName", s, <<>>), Position(s))
      [] OTHER -> Fatal(s)

-----------------------------------------------------------------------------
(* Variables and parameters.  options is the set of the flags of           *)
(* VarDeclParserOptions that are set.                                      *)

Unspecified == [visibility |-> "Default", isIndexed |-> FALSE, isConstant |-> FALSE,
                location |-> "Default"]
RECURSIVE VariableSpecifiers(_, _, _, _)
VariableSpecifiers(s, options, spec, typed) ==
    LET go(changed) == VariableSpecifiers(Advance(s), options, changed, typed) IN
    CASE "isStateVariable" \in options /\ Tok(s) \in VariableVisibilities ->
           IF spec.visibility # "Default" THEN Fatal(s) ELSE go([spec EXCEPT !.visibility = Tok(s)])
      [] "allowIndexed" \in options /\ Tok(s) = "Indexed" -> go([spec EXCEPT !.isIndexed = TRUE])
      [] Tok(s) = "Const" -> go([spec EXCEPT !.isConstant = TRUE])
      [] "allowLocationSpecifier" \in options /\ Tok(s) \in LocationSpecifiers ->
           IF spec.location # "Default" \/ ~typed THEN Fatal(s) ELSE go([spec EXCEPT !.location = Tok(s)])
      [] OTHER -> Out(s, spec)

Kid(node) == IF Missing(node) THEN <<>> ELSE <<node>>
VariableAttr(name, spec, options) ==
    [name |-> name, spec |-> spec, isStateVariable |-> "isStateVariable" \in options]

\* ahead is the type if it was parsed before.
ParseVariableDeclaration(s, options, ahead) ==
    LET type == IF Missing(ahead) THEN Parsed("TypeName", s, "allowVar" \in options) ELSE Out(s, ahead)
        spec == VariableSpecifiers(type, options, Unspecified, ~Missing(type.out))
        unnamed == "allowEmptyName" \in options /\ Tok(spec) # "Identifier"
        name == IF unnamed THEN Out(spec, "") ELSE ExpectIdentifier(spec)
        assigned == "allowInitialValue" \in options /\ Tok(name) = "Assign"
        value == IF assigned THEN ParseExpression(Advance(name)) ELSE name IN
    Make(value, "VariableDeclaration", VariableAttr(name.out, spec.out, options),
         [typeName |-> Kid(type.out), value |-> IF assigned THEN <<value.out>> ELSE <<>>],
         IF Missing(ahead) THEN Position(s) ELSE ahead.from,
         IF assigned THEN value.out.to ELSE IF unnamed THEN type.out.to ELSE EndPosition(spec))

ParseParameterList(s, options, allowEmpty) ==
    LET list == CommaList(Expect(s, "LParen"),
                          LAMBDA st : Parsed("VariableDeclaration", st, <<options \cup {"allowEmptyName"}, Null>>),
                          "RParen", allowEmpty) IN
    Make(Expect(list, "RParen"), "ParameterList", <<>>, [parameters |-> list.out],
         Position(s), EndPosition(list))
CreateEmptyParameterList(s) ==
    Make(s, "ParameterList", <<>>, [parameters |-> <<>>], Position(s), Position(s))

-----------------------------------------------------------------------------
(* Statements.                                                             *)

ParseBlock(s, doc) ==
    LET list == Repeat(Expect(s, "LBrace"), LAMBDA st : Tok(st) # "RBrace",
                       LAMBDA st : Parsed("Statement", st, <<>>)) IN
    Make(Expect(list, "RBrace"), "Block", [doc |-> doc], [statements |-> list.out],
         Position(s), EndPosition(list))

ParseExpressionStatement(s, doc, ahead) ==
    LET e == Parsed("Expression", s, ahead) IN
    Make(e, "ExpressionStatement", [doc |-> doc], [expression |-> <<e.out>>], e.out.from, e.out.to)

\* var (a, , b): a component without a name is Null.
TupleVariable(s) ==
    LET name == ExpectIdentifier(s) IN
    IF Tok(s) \in {"Comma", "RParen"} THEN Out(s, Null)
    ELSE Make(name, "VariableDeclaration", VariableAttr(name.out, Unspecified, {}),
              [typeName |-> <<>>, value |-> <<>>], Position(s), EndPosition(s))
ParseVariableDeclarationStatement(s, doc, ahead) ==
    LET tuple == Missing(ahead) /\ Tok(s) = "Var" /\ PeekNext(s) = "LParen"
        list == CommaList(Advance(Advance(s)), TupleVariable, "RParen", TRUE)
        single == Parsed("VariableDeclaration", s, <<{"allowVar", "allowLocationSpecifier"}, ahead>>)
        vars == IF tuple THEN Expect(list, "RParen") ELSE Out(single, <<single.out>>)
        value == ParseExpression(Advance(vars))
        from == IF Missing(ahead) THEN Position(s) ELSE ahead.from IN
    IF Tok(vars) = "Assign"
    THEN Make(value, "VariableDeclarationStatement", [doc |-> doc],
              [variables |-> vars.out, initialValue |-> <<value.out>>], from, value.out.to)
    ELSE Make(vars, "VariableDeclarationStatement", [doc |-> doc],
              [variables |-> vars.out, initialValue |-> <<>>], from,
              IF tuple THEN EndPosition(list) ELSE IF Missing(ahead) THEN EndPosition(vars) ELSE ahead.to)

\* What starts like a type and like an expression: a path with indices.
TypeNameIndexAccessStructure(path, indices) ==
    LET first == path[1]
        base == IF first.type = "ElementaryTypeNameExpression"
                THEN Node("ElementaryTypeName", first.attr, <<>>, first.from, first.to)
                ELSE Node("UserDefinedTypeName", [path |-> [i \in DOMAIN path |-> path[i].attr.name]],
                          <<>>, first.from, Last(path).to) IN
    FoldLeft(LAMBDA type, i : Node("ArrayTypeName", <<>>, [baseType |-> <<type>>, length |-> i.index],
                                   first.from, i.to), base, indices)

\* Mutant: a member access begins where the member does.
ExpressionFromMembers(path, indices) ==
    LET members == FoldLeft(LAMBDA e, id : Node("MemberAccess", id.attr, [expression |-> <<e>>],
                                                id.from, id.to), path[1], Tail(path)) IN
    FoldLeft(LAMBDA e, i : Node("IndexAccess", <<>>, [base |-> <<e>>, index |-> i.index],
                                path[1].from, i.to), members, indices)

ExpressionFromIndexAccessStructure(path, indices) ==
    LET members == FoldLeft(LAMBDA e, id : Node("MemberAccess", id.attr, [expression |-> <<e>>],
                                                path[1].from, id.to), path[1], Tail(path)) IN
    FoldLeft(LAMBDA e, i : Node("IndexAccess", <<>>, [base |-> <<e>>, index |-> i.index],
                                path[1].from, i.to), members, indices)

PeekStatementType(s) ==
    LET mightBeType == Tok(s) \in ElementaryTypeNames \cup {"Identifier"} IN
    CASE Tok(s) \in {"Mapping", "Var"} -> "VariableDeclarationStatement"
      [] mightBeType /\ PeekNext(s) \in LocationSpecifiers \cup {"Identifier"} ->
           "VariableDeclarationStatement"
      [] mightBeType /\ PeekNext(s) \in {"LBrack", "Period"} -> "IndexAccessStructure"
      [] OTHER -> "ExpressionStatement"

PathRest(first) ==
    IF first.out.type # "Identifier" THEN Out(first, <<>>)
    ELSE Repeat(first, LAMBDA st : Tok(st) = "Period",
                LAMBDA st : LET id == Advance(st)
                                name == ExpectIdentifier(id) IN
                            Make(name, "Identifier", [name |-> name.out], <<>>, Position(id), EndPosition(id)))
Indices(s) ==
    Repeat(s, LAMBDA st : Tok(st) = "LBrack",
           LAMBDA st : LET index == OptionalExpression(Advance(st), "RBrack") IN
                       Out(Expect(index, "RBrack"), [index |-> index.out, to |-> EndPosition(index)]))

ParseSimpleStatement(s, doc) ==
    LET first == Parsed("PrimaryExpression", s, <<>>)
        rest == PathRest(first)
        indices == Indices(rest)
        path == <<first.out>> \o rest.out IN
    CASE PeekStatementType(s) = "VariableDeclarationStatement" ->
           Parsed("VariableDeclarationStatement", s, <<doc, Null>>)
      [] PeekStatementType(s) = "ExpressionStatement" -> Parsed("ExpressionStatement", s, <<doc, Null>>)
      [] OTHER ->
           IF indices.failed THEN indices
           ELSE IF Tok(indices) \in {"Identifier"} \cup LocationSpecifiers
           THEN Parsed("VariableDeclarationStatement", indices,
                       <<doc, TypeNameIndexAccessStructure(path, indices.out)>>)
           ELSE Parsed("ExpressionStatement", indices,
                       <<doc, ExpressionFromIndexAccessStructure(path, indices.out)>>)

Parenthesised(s) ==
    LET e == ParseExpression(Expect(s, "LParen")) IN Out(Expect(e, "RParen"), e.out)
ParseIfStatement(s) ==
    LET condition == Parenthesised(Advance(s))
        true == Parsed("Statement", condition, <<>>)
        false == Parsed("Statement", Advance(true), <<>>)
        node(end, falseBody) ==
            Make(end, "IfStatement", [doc |-> Doc(s)],
                 [condition |-> <<condition.out>>, trueBody |-> <<true.out>>, falseBody |-> falseBody],
                 Position(s), end.out.to) IN
    IF Tok(true) = "Else" THEN node(false, <<false.out>>) ELSE node(true, <<>>)
ParseWhileStatement(s) ==
    LET condition == Parenthesised(Advance(s))
        body == Parsed("Statement", condition, <<>>) IN
    Make(body, "WhileStatement", [doc |-> Doc(s)],
         [condition |-> <<condition.out>>, body |-> <<body.out>>], Position(s), body.out.to)
ParseForStatement(s) ==
    LET optional(st, closing, Parse(_)) ==
            IF Tok(st) = closing THEN Out(st, <<>>) ELSE LET p == Parse(st) IN Out(p, <<p.out>>)
        init == optional(Expect(Advance(s), "LParen"), "Semicolon",
                         LAMBDA st : Parsed("SimpleStatement", st, ""))
        condition == optional(Expect(init, "Semicolon"), "Semicolon", ParseExpression)
        loop == optional(Expect(condition, "Semicolon"), "RParen",
                         LAMBDA st : Parsed("ExpressionStatement", st, <<"", Null>>))
        body == Parsed("Statement", Expect(loop, "RParen"), <<>>) IN
    Make(body, "ForStatement", [doc |-> Doc(s)],
         [initExpression |-> init.out, condExpression |-> condition.out,
          loopExpression |-> loop.out, body |-> <<body.out>>], Position(s), body.out.to)
ParseReturn(s) ==
    LET e == OptionalExpression(Advance(s), "Semicolon") IN
    Make(e, "Return", [doc |-> Doc(s)], [expression |-> e.out], Position(s),
         IF e.out = <<>> THEN EndPosition(e) ELSE e.out[1].to)
Word(s, type) == Advance(Make(s, type, [doc |-> Doc(s)], <<>>, Position(s), EndPosition(s)))

\* The assembly block is a token of its own here.
ParseInlineAssembly(s) ==
    LET after == IF Tok(Advance(s)) # "StringLiteral" THEN Advance(s)
                 ELSE IF Lit(Advance(s)) # "evmasm" THEN Fatal(Advance(s)) ELSE Advance(Advance(s))
        block == Expect(after, "AssemblyBlock") IN
    Make(block, "InlineAssembly", [doc |-> Doc(s)], <<>>, Position(s), EndPosition(block))

ParseStatement(s) ==
    CASE Tok(s) = "If" -> Parsed("IfStatement", s, <<>>)
      [] Tok(s) = "While" -> Parsed("WhileStatement", s, <<>>)
      [] Tok(s) = "For" -> Parsed("ForStatement", s, <<>>)
      [] Tok(s) = "LBrace" -> Parsed("Block", s, Doc(s))
      [] Tok(s) = "Assembly" -> Parsed("InlineAssembly", s, <<>>)
      [] OTHER ->
           LET statement ==
                 CASE Tok(s) \in {"Continue", "Break", "Throw"} -> Word(s, Tok(s))
                   [] Tok(s) = "Return" -> Parsed("Return", s, <<>>)
                   [] Tok(s) = "Identifier" /\ s.insideModifier /\ Lit(s) = "_" ->
                        Word(s, "PlaceholderStatement")
                   [] OTHER -> Parsed("SimpleStatement", s, Doc(s)) IN
           Expect(statement, "Semicolon")

-----------------------------------------------------------------------------
(* Declarations.                                                           *)

\* A name and, in parentheses, arguments: what a base and a modifier have.
WithArguments(name, type, role, from) ==
    LET list == ParseFunctionCallListArguments(Advance(name))
        node(end, arguments, to) ==
            Make(end, type, <<>>, (role :> <<name.out>>) @@ [arguments |-> arguments], from, to) IN
    IF Tok(name) = "LParen" THEN node(Expect(list, "RParen"), list.out, EndPosition(list))
    ELSE node(name, <<>>, name.out.to)
ParseIdentifier(s) ==
    LET name == ExpectIdentifier(s) IN
    Make(name, "Identifier", [name |-> name.out], <<>>, Position(s), EndPosition(s))
ParseInheritanceSpecifier(s) ==
    WithArguments(Parsed("UserDefinedTypeName", s, <<>>), "InheritanceSpecifier", "baseName", Position(s))
ParseModifierInvocation(s) ==
    WithArguments(ParseIdentifier(s), "ModifierInvocation", "modifierName", Position(s))

RECURSIVE FunctionSpecifiers(_, _)
\* constant, payable, visibility and modifiers in any order.
FunctionSpecifiers(s, f) ==
    LET modifier == Parsed("ModifierInvocation", s, <<>>) IN
    CASE Tok(s) = "Const" -> FunctionSpecifiers(Advance(s), [f EXCEPT !.isConst = TRUE])
      [] Tok(s) = "Payable" -> FunctionSpecifiers(Advance(s), [f EXCEPT !.isPayable = TRUE])
      [] Tok(s) = "Identifier" ->
           FunctionSpecifiers(modifier, [f EXCEPT !.modifiers = Append(@, modifier.out)])
      [] Tok(s) \in Visibilities ->
           IF f.visibility # "Default" THEN Fatal(s)
           ELSE FunctionSpecifiers(Advance(s), [f EXCEPT !.visibility = Tok(s)])
      [] OTHER -> Out(s, f)
ParseFunctionDefinition(s, contractName) ==
    LET start == Advance(s)
        name == IF Tok(start) = "LParen" THEN Out(start, "") ELSE ExpectIdentifier(start)
        parameters == Parsed("ParameterList", name, <<{"allowLocationSpecifier"}, TRUE>>)
        spec == FunctionSpecifiers(parameters, [isConst |-> FALSE, isPayable |-> FALSE,
                                                visibility |-> "Default", modifiers |-> <<>>])
        returns == IF Tok(spec) = "Returns"
                   THEN Parsed("ParameterList", Advance(spec), <<{"allowLocationSpecifier"}, FALSE>>)
                   ELSE CreateEmptyParameterList(spec)
        block == IF Tok(returns) = "Semicolon" THEN Out(Advance(returns), Null)
                 ELSE Parsed("Block", returns, "") IN
    Make(block, "FunctionDefinition",
         [name |-> name.out, visibility |-> spec.out.visibility, isConst |-> spec.out.isConst,
          isPayable |-> spec.out.isPayable, isConstructor |-> name.out = contractName, doc |-> Doc(s)],
         [parameters |-> <<parameters.out>>, returnParameters |-> <<returns.out>>,
          functionModifiers |-> spec.out.modifiers, body |-> Kid(block.out)],
         Position(s), IF Missing(block.out) THEN EndPosition(returns) ELSE block.out.to)

ParseStructDefinition(s) ==
    LET name == ExpectIdentifier(Advance(s))
        members == Repeat(Expect(name, "LBrace"), LAMBDA st : Tok(st) # "RBrace",
                          LAMBDA st : LET m == Parsed("VariableDeclaration", st, <<{}, Null>>) IN
                                      Out(Expect(m, "Semicolon"), m.out)) IN
    Make(Expect(members, "RBrace"), "StructDefinition", [name |-> name.out],
         [members |-> members.out], Position(s), EndPosition(members))

RECURSIVE EnumValues(_, _)
EnumValues(s, acc) ==
    LET name == ExpectIdentifier(s)
        now == Append(acc, Node("EnumValue", [name |-> name.out], <<>>, Position(s), EndPosition(s)))
        more == Expect(name, "Comma") IN
    IF s.failed \/ Tok(s) = "RBrace" THEN Out(s, acc)
    ELSE IF Tok(name) = "RBrace" THEN Out(name, now)
    ELSE IF Tok(more) # "Identifier" THEN Fatal(more) ELSE EnumValues(more, now)
ParseEnumDefinition(s) ==
    LET name == ExpectIdentifier(Advance(s))
        members == EnumValues(Expect(name, "LBrace"), <<>>) IN
    Make(Expect(members, "RBrace"), "EnumDefinition", [name |-> name.out],
         [members |-> members.out], Position(s), EndPosition(members))

OptionalParameters(s, options) ==
    IF Tok(s) = "LParen" THEN Parsed("ParameterList", s, <<options, TRUE>>) ELSE CreateEmptyParameterList(s)
ParseModifierDefinition(s) ==
    LET name == ExpectIdentifier(Advance([s EXCEPT !.insideModifier = TRUE]))
        parameters == OptionalParameters(name, {"allowIndexed", "allowLocationSpecifier"})
        block == Parsed("Block", parameters, "") IN
    Make([block EXCEPT !.insideModifier = FALSE], "ModifierDefinition", [name |-> name.out, doc |-> Doc(s)],
         [parameters |-> <<parameters.out>>, body |-> <<block.out>>], Position(s), block.out.to)
ParseEventDefinition(s) ==
    LET name == ExpectIdentifier(Advance(s))
        parameters == OptionalParameters(name, {"allowIndexed"})
        anonymous == Tok(parameters) = "Anonymous"
        end == IF anonymous THEN Advance(parameters) ELSE parameters IN
    Make(Expect(end, "Semicolon"), "EventDefinition",
         [name |-> name.out, anonymous |-> anonymous, doc |-> Doc(s)],
         [parameters |-> <<parameters.out>>], Position(s), EndPosition(end))
ParseUsingDirective(s) ==
    LET library == Parsed("UserDefinedTypeName", Advance(s), <<>>)
        for == Expect(library, "For")
        type == IF Tok(for) = "Mul" THEN Advance(Out(for, Null)) ELSE Parsed("TypeName", for, FALSE) IN
    Make(Expect(type, "Semicolon"), "UsingForDirective", <<>>,
         [libraryName |-> <<library.out>>, typeName |-> Kid(type.out)], Position(s), EndPosition(type))

ContractPart(s, contractName) ==
    LET variable == Parsed("VariableDeclaration", s, <<{"isStateVariable", "allowInitialValue"}, Null>>) IN
    CASE Tok(s) = "Function" -> Parsed("FunctionDefinition", s, contractName)
      [] Tok(s) = "Struct" -> Parsed("StructDefinition", s, <<>>)
      [] Tok(s) = "Enum" -> Parsed("EnumDefinition", s, <<>>)
      [] Tok(s) \in {"Identifier", "Mapping"} \cup ElementaryTypeNames ->
           Out(Expect(variable, "Semicolon"), variable.out)
      [] Tok(s) = "Modifier" -> Parsed("ModifierDefinition", s, <<>>)
      [] Tok(s) = "Event" -> Parsed("EventDefinition", s, <<>>)
      [] Tok(s) = "Using" -> Parsed("UsingDirective", s, <<>>)
      [] OTHER -> Fatal(s)
ParseContractDefinition(s) ==
    LET name == ExpectIdentifier(Advance(s))
        first == Parsed("InheritanceSpecifier", Advance(name), <<>>)
        rest == Repeat(first, LAMBDA st : Tok(st) = "Comma",
                       LAMBDA st : Parsed("InheritanceSpecifier", Advance(st), <<>>))
        bases == IF Tok(name) = "Is" THEN Out(rest, <<first.out>> \o rest.out) ELSE Out(name, <<>>)
        parts == Repeat(Expect(bases, "LBrace"), LAMBDA st : Tok(st) # "RBrace",
                        LAMBDA st : ContractPart(st, name.out)) IN
    Make(Expect(parts, "RBrace"), "ContractDefinition",
         [name |-> name.out, isLibrary |-> Tok(s) = "Library", doc |-> Doc(s)],
         [baseContracts |-> bases.out, subNodes |-> parts.out], Position(s), EndPosition(parts))

RECURSIVE PragmaTokens(_, _)
\* A token without a literal is kept as its text; of those only the ones of
\* a version number are read character by character.
PragmaToken(token) ==
    CASE token.t = "Mul" -> [token EXCEPT !.lit = <<"*">>]
      [] token.t = "Period" -> [token EXCEPT !.lit = <<".">>]
      [] OTHER -> token
\* Anything up to ";"; a token that cannot be scanned is left out.
PragmaTokens(s, acc) ==
    LET this == IF Tok(s) = "Illegal" THEN ParserError(s) ELSE s
        now == IF Tok(s) = "Illegal" THEN acc ELSE Append(acc, PragmaToken(TokenAt(s, s.at)))
        next == Advance(this) IN
    IF s.failed THEN s
    ELSE IF Tok(next) \in {"Semicolon", "EOS"} THEN Out(next, now) ELSE PragmaTokens(next, now)
ParsePragmaDirective(s) ==
    LET tokens == PragmaTokens(Advance(s), <<>>) IN
    Make(Expect(tokens, "Semicolon"), "PragmaDirective", [tokens |-> tokens.out], <<>>,
         Position(s), EndPosition(tokens))

SymbolAlias(s) ==
    LET id == ExpectIdentifier(s)
        alias == IF Tok(id) = "As" THEN ExpectIdentifier(Advance(id)) ELSE Out(id, "") IN
    Out(alias, [symbol |-> id.out, alias |-> alias.out])
ImportFrom(s) ==
    IF Tok(s) # "Identifier" \/ Lit(s) # "from" \/ PeekNext(s) # "StringLiteral" THEN Fatal(s)
    ELSE Advance(Out(Advance(s), Lit(Advance(s))))
ParseImportDirective(s) ==
    LET start == Advance(s)
        unit(st) == IF Tok(st) = "As" THEN ExpectIdentifier(Advance(st)) ELSE Out(st, "")
        first == SymbolAlias(Advance(start))
        rest == Repeat(first, LAMBDA st : Tok(st) = "Comma", LAMBDA st : SymbolAlias(Advance(st)))
        list == Out(Expect(rest, "RBrace"), <<first.out>> \o rest.out)
        all == ExpectIdentifier(Expect(Advance(start), "As"))
        node(end, path, alias, symbols) ==
            Make(Expect(end, "Semicolon"), "ImportDirective",
                 [path |-> path, unitAlias |-> alias, symbolAliases |-> symbols], <<>>,
                 Position(s), EndPosition(end)) IN
    CASE Tok(start) = "StringLiteral" ->
           node(unit(Advance(start)), Lit(start), unit(Advance(start)).out, <<>>)
      [] Tok(start) = "LBrace" -> node(ImportFrom(list), ImportFrom(list).out, "", list.out)
      [] Tok(start) = "Mul" -> node(ImportFrom(all), ImportFrom(all).out, all.out, <<>>)
      [] OTHER -> Fatal(start)

SourceUnitPart(s) ==
    CASE Tok(s) = "Pragma" -> Parsed("PragmaDirective", s, <<>>)
      [] Tok(s) = "Import" -> Parsed("ImportDirective", s, <<>>)
      [] Tok(s) \in {"Contract", "Library"} -> Parsed("ContractDefinition", s, <<>>)
      [] OTHER -> Fatal(s)
ParseSourceUnit(s) ==
    LET nodes == Repeat(s, LAMBDA st : Tok(st) # "EOS", SourceUnitPart) IN
    Make(nodes, "SourceUnit", <<>>, [nodes |-> nodes.out], 0, EndPosition(nodes))

Parsed(what, s, with) ==
    CASE what = "SourceUnit" -> ParseSourceUnit(s)
      [] what = "Expression" -> ParseExpressionFrom(s, with)
      [] what = "BinaryExpression" -> ParseBinaryExpression(s, with[1], with[2])
      [] what = "UnaryExpression" -> ParseUnaryExpression(s, with)
      [] what = "FunctionCallArguments" -> ParseFunctionCallArguments(s)
      [] what = "PrimaryExpression" -> ParsePrimaryExpression(s)
      [] what = "UserDefinedTypeName" -> ParseUserDefinedTypeName(s)
      [] what = "Mapping" -> ParseMapping(s)
      [] what = "TypeName" -> ParseTypeName(s, with)
      [] what = "VariableDeclaration" -> ParseVariableDeclaration(s, with[1], with[2])
      [] what = "ParameterList" -> ParseParameterList(s, with[1], with[2])
      [] what = "Block" -> ParseBlock(s, with)
      [] what = "ExpressionStatement" -> ParseExpressionStatement(s, with[1], with[2])
      [] what = "VariableDeclarationStatement" -> ParseVariableDeclarationStatement(s, with[1], with[2])
      [] what = "SimpleStatement" -> ParseSimpleStatement(s, with)
      [] what = "IfStatement" -> ParseIfStatement(s)
      [] what = "WhileStatement" -> ParseWhileStatement(s)
      [] what = "ForStatement" -> ParseForStatement(s)
      [] what = "Return" -> ParseReturn(s)
      [] what = "InlineAssembly" -> ParseInlineAssembly(s)
      [] what = "Statement" -> ParseStatement(s)
      [] what = "InheritanceSpecifier" -> ParseInheritanceSpecifier(s)
      [] what = "ModifierInvocation" -> ParseModifierInvocation(s)
      [] what = "FunctionDefinition" -> ParseFunctionDefinition(s, with)
      [] what = "StructDefinition" -> ParseStructDefinition(s)
      [] what = "EnumDefinition" -> ParseEnumDefinition(s)
      [] what = "ModifierDefinition" -> ParseModifierDefinition(s)
      [] what = "EventDefinition" -> ParseEventDefinition(s)
      [] what = "UsingDirective" -> ParseUsingDirective(s)
      [] what = "ContractDefinition" -> ParseContractDefinition(s)
      [] what = "PragmaDirective" -> ParsePragmaDirective(s)
      [] what = "ImportDirective" -> ParseImportDirective(s)

\* parse(): no tree after a fatal error.
Parse(tokens) ==
    Parsed("SourceUnit",
           [tokens |-> tokens, at |-> 1, insideModifier |-> FALSE, errors |-> 0, failed |-> FALSE, out |-> Null],
           <<>>)
=============================================================================
