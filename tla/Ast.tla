-------------------------------- MODULE Ast ---------------------------------
(***************************************************************************)
(* libsolidity/ast: syntax trees and the visitors that walk over them.     *)
(*                                                                         *)
(* A node has a type (the name of its class), attributes, its children     *)
(* by role, and a location, [from, to) in tokens.  A child that may be     *)
(* missing is a sequence of at most one node; a component that is left     *)
(* out of a tuple or of a list of variables is Null.                       *)
(***************************************************************************)
EXTENDS Integers, Sequences, SequencesExt, Accumulate

Node(type, attr, kids, from, to) ==
    [type |-> type, attr |-> attr, kids |-> kids, from |-> from, to |-> to]
Null == Node("null", <<>>, <<>>, 0, 0)
Missing(node) == node.type = "null"

-----------------------------------------------------------------------------
(* accept(): the children of a node, in the order of the visit.            *)

UnitRoles ==
    [SourceUnit |-> <<"nodes">>, PragmaDirective |-> <<>>, ImportDirective |-> <<>>,
     ContractDefinition |-> <<"baseContracts", "subNodes">>,
     InheritanceSpecifier |-> <<"baseName", "arguments">>,
     EnumDefinition |-> <<"members">>, EnumValue |-> <<>>,
     UsingForDirective |-> <<"libraryName", "typeName">>]
DeclarationRoles ==
    [StructDefinition |-> <<"members">>, ParameterList |-> <<"parameters">>,
     FunctionDefinition |-> <<"parameters", "returnParameters", "functionModifiers", "body">>,
     VariableDeclaration |-> <<"typeName", "value">>,
     ModifierDefinition |-> <<"parameters", "body">>,
     ModifierInvocation |-> <<"modifierName", "arguments">>,
     EventDefinition |-> <<"parameters">>]
TypeNameRoles ==
    [ElementaryTypeName |-> <<>>, UserDefinedTypeName |-> <<>>,
     Mapping |-> <<"keyType", "valueType">>, ArrayTypeName |-> <<"baseType", "length">>,
     InlineAssembly |-> <<>>]
StatementRoles ==
    [Block |-> <<"statements">>, PlaceholderStatement |-> <<>>,
     IfStatement |-> <<"condition", "trueBody", "falseBody">>,
     WhileStatement |-> <<"condition", "body">>,
     ForStatement |-> <<"initExpression", "condExpression", "loopExpression", "body">>,
     Continue |-> <<>>, Break |-> <<>>]
SimpleStatementRoles ==
    [Return |-> <<"expression">>, Throw |-> <<>>, ExpressionStatement |-> <<"expression">>,
     VariableDeclarationStatement |-> <<"variables", "initialValue">>]
CompositeRoles ==
    [Conditional |-> <<"condition", "trueExpression", "falseExpression">>,
     Assignment |-> <<"leftHandSide", "rightHandSide">>,
     TupleExpression |-> <<"components">>, UnaryOperation |-> <<"subExpression">>,
     BinaryOperation |-> <<"left", "right">>]
PrimaryRoles ==
    [FunctionCall |-> <<"expression", "arguments">>, NewExpression |-> <<"typeName">>,
     MemberAccess |-> <<"expression">>, IndexAccess |-> <<"base", "index">>,
     Identifier |-> <<>>, ElementaryTypeNameExpression |-> <<>>, Literal |-> <<>>]

RolesOf(type) ==
    LET tables == <<UnitRoles, DeclarationRoles, TypeNameRoles, StatementRoles,
                    SimpleStatementRoles, CompositeRoles, PrimaryRoles>>
        k == CHOOSE k \in DOMAIN tables : type \in DOMAIN tables[k] IN
    tables[k][type]

Children(node) ==
    SelectSeq(FlattenSeq([r \in DOMAIN RolesOf(node.type) |-> node.kids[RolesOf(node.type)[r]]]),
              LAMBDA child : ~Missing(child))

\* What a visitor that never turns back sees: visit before the children,
\* endVisit after them.  A node is named by its path from the root.
RECURSIVE Events(_, _)
Events(node, path) ==
    LET visit == [kind |-> "visit", node |-> node, path |-> path]
        end == [kind |-> "endVisit", node |-> node, path |-> path]
        kids == Children(node) IN
    <<visit>> \o FlattenSeq([k \in DOMAIN kids |-> Events(kids[k], Append(path, k))]) \o <<end>>
Walk(root) == Events(root, <<>>)

\* All nodes below and including a node.
RECURSIVE Descendants(_)
Descendants(node) ==
    LET kids == Children(node) IN
    <<node>> \o FlattenSeq([k \in DOMAIN kids |-> Descendants(kids[k])])

-----------------------------------------------------------------------------
(* ASTJsonConverter.  The document is the sequence of the objects in the   *)
(* order in which they are added; pointers holds the numbers of those      *)
(* whose arrays of children are open, 0 that of the document itself.       *)

\* The nodes that addJsonNode opens an array of children for, and the ones
\* whose endVisit calls goUp().
WithChildren ==
    {"ContractDefinition", "InheritanceSpecifier", "UsingForDirective", "StructDefinition",
     "EnumDefinition", "ParameterList", "FunctionDefinition", "VariableDeclaration",
     "ModifierDefinition", "ModifierInvocation", "EventDefinition", "Mapping",
     "ArrayTypeName", "InlineAssembly", "Block"}
BodyWithChildren ==
    {"IfStatement", "WhileStatement", "ForStatement", "Return", "Throw",
     "VariableDeclarationStatement", "ExpressionStatement", "Conditional", "Assignment",
     "TupleExpression", "UnaryOperation", "BinaryOperation", "FunctionCall",
     "NewExpression", "MemberAccess", "IndexAccess"}
GoUpDeclarations ==
    {"SourceUnit", "ContractDefinition", "InheritanceSpecifier", "UsingForDirective",
     "StructDefinition", "EnumDefinition", "ParameterList", "FunctionDefinition",
     "VariableDeclaration", "ModifierDefinition", "ModifierInvocation",
     "EventDefinition", "Mapping", "ArrayTypeName", "InlineAssembly", "Block"}

\* Mutant: throw opens an array of children, for nothing, and leaves it open.
GoUpBodiesButThrow ==
    {"IfStatement", "WhileStatement", "ForStatement", "Return",
     "VariableDeclarationStatement", "ExpressionStatement", "Conditional", "Assignment",
     "TupleExpression", "UnaryOperation", "BinaryOperation", "FunctionCall",
     "NewExpression", "MemberAccess", "IndexAccess"}

GoUpBodies ==
    {"IfStatement", "WhileStatement", "ForStatement", "Return", "Throw",
     "VariableDeclarationStatement", "ExpressionStatement", "Conditional", "Assignment",
     "TupleExpression", "UnaryOperation", "BinaryOperation", "FunctionCall",
     "NewExpression", "MemberAccess", "IndexAccess"}

AddJsonNode(j, node, hasChildren) ==
    [objects |-> Append(j.objects, [node |-> node, parent |-> Last(j.pointers)]),
     pointers |-> IF hasChildren THEN Append(j.pointers, Len(j.objects) + 1) ELSE j.pointers]
JsonVisit(j, node) ==
    IF node.type = "SourceUnit"
    THEN [objects |-> <<[node |-> node, parent |-> 0]>>, pointers |-> <<1>>]
    ELSE AddJsonNode(j, node, node.type \in WithChildren \cup BodyWithChildren)
GoUp(j) == [j EXCEPT !.pointers = Front(@)]
JsonEvent(j, event) ==
    CASE event.kind = "visit" -> JsonVisit(j, event.node)
      [] event.node.type \in GoUpDeclarations \cup GoUpBodies -> GoUp(j)
      [] OTHER -> j
Json(root) == Accumulated(JsonEvent, [objects |-> <<>>, pointers |-> <<>>], Walk(root))

-----------------------------------------------------------------------------
(* ASTPrinter: the lines with their indentation.                           *)

\* The nodes with a visit() of their own, which writes a line and indents
\* what follows, and those with an endVisit(), which goes back.
VisitedDeclarations ==
    {"PragmaDirective", "ImportDirective", "ContractDefinition", "InheritanceSpecifier", "StructDefinition",
     "EnumDefinition", "EnumValue", "ParameterList", "FunctionDefinition", "VariableDeclaration",
     "ModifierDefinition", "ModifierInvocation", "EventDefinition"}
VisitedStatements ==
    {"ElementaryTypeName", "UserDefinedTypeName", "Mapping", "ArrayTypeName", "InlineAssembly", "Block",
     "PlaceholderStatement", "IfStatement", "WhileStatement", "ForStatement", "Continue", "Break", "Return",
     "Throw", "VariableDeclarationStatement", "ExpressionStatement"}
VisitedExpressions ==
    {"Conditional", "Assignment", "TupleExpression", "UnaryOperation", "BinaryOperation", "FunctionCall",
     "NewExpression", "MemberAccess", "IndexAccess", "Identifier", "ElementaryTypeNameExpression", "Literal"}
EndedDeclarations ==
    {"PragmaDirective", "ImportDirective", "ContractDefinition", "InheritanceSpecifier", "StructDefinition",
     "EnumDefinition", "EnumValue", "ParameterList", "FunctionDefinition", "VariableDeclaration",
     "ModifierDefinition", "ModifierInvocation", "EventDefinition"}
EndedStatements ==
    {"ElementaryTypeName", "UserDefinedTypeName", "Mapping", "ArrayTypeName", "InlineAssembly", "Block",
     "PlaceholderStatement", "IfStatement", "WhileStatement", "ForStatement", "Continue", "Break", "Return",
     "Throw", "VariableDeclarationStatement", "ExpressionStatement"}

\* Mutant: an index access does not go back.
EndedExpressionsButIndex ==
    {"Conditional", "Assignment", "TupleExpression", "UnaryOperation", "BinaryOperation", "FunctionCall",
     "NewExpression", "MemberAccess", "Identifier", "ElementaryTypeNameExpression", "Literal"}

EndedExpressions ==
    {"Conditional", "Assignment", "TupleExpression", "UnaryOperation", "BinaryOperation", "FunctionCall",
     "NewExpression", "MemberAccess", "IndexAccess", "Identifier", "ElementaryTypeNameExpression", "Literal"}

WriteLine(p, node) == [p EXCEPT !.lines = Append(@, [node |-> node, indentation |-> p.indentation])]
PrinterVisit(p, node) ==
    IF node.type \in VisitedDeclarations \cup VisitedStatements \cup VisitedExpressions
    THEN [WriteLine(p, node) EXCEPT !.indentation = @ + 1] ELSE p
PrinterEndVisit(p, node) ==
    IF node.type \in EndedDeclarations \cup EndedStatements \cup EndedExpressions
    THEN [p EXCEPT !.indentation = @ - 1] ELSE p
PrinterEvent(p, event) ==
    IF event.kind = "visit" THEN PrinterVisit(p, event.node) ELSE PrinterEndVisit(p, event.node)
PrintLines(root) == Accumulated(PrinterEvent, [lines |-> <<>>, indentation |-> 0], Walk(root))
=============================================================================
