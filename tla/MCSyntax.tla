------------------------------ MODULE MCSyntax ------------------------------
(***************************************************************************)
(* The front end on many small inputs: a behaviour is one text, given as   *)
(* tokens or as characters, and the invariants compare what the passes     *)
(* make of it with what they are for.                                      *)
(***************************************************************************)
EXTENDS Grammar, SyntaxChecker, Scanner, NameAndTypeResolver

CONSTANTS
    Topics,       \* the kinds of inputs
    Pieces,       \* what texts are made of
    MaxText       \* how long a text grows

VARIABLES
    topic,        \* what kind of input it is
    input,        \* the input, once it is chosen (a hierarchy has variables of its own)
    parsed        \* what the parser makes of a source

vars == <<topic, input, parsed, linearisationVars>>

-----------------------------------------------------------------------------
(* Tokens, phrases and programs.                                           *)

K(t) == [t |-> t, lit |-> "", doc |-> ""]
N(name) == [t |-> "Identifier", lit |-> name, doc |-> ""]
One == [t |-> "Number", lit |-> "1", doc |-> ""]
Chars(literal, t) == [t |-> t, lit |-> literal, doc |-> ""]
a == N("a")
Paren(tokens) == <<K("LParen")>> \o tokens \o <<K("RParen")>>
Brack(tokens) == <<K("LBrack")>> \o tokens \o <<K("RBrack")>>
Brace(tokens) == <<K("LBrace")>> \o tokens \o <<K("RBrace")>>
Semi(tokens) == Append(tokens, K("Semicolon"))

InFunction(code) == <<K("Function"), N("f")>> \o Paren(<<>>) \o Brace(code)
InModifier(code) == <<K("Modifier"), N("m")>> \o Brace(code)
InContract(parts) == <<K("Contract"), N("C")>> \o Brace(parts)

\* Operands and operators; the middle of a conditional counts as one.
Operands ==
    {<<a>>, <<One, K("SubWei")>>, <<K("Sub"), a>>, <<a, K("Inc")>>, Paren(<<a>>),
     Paren(<<a, K("Comma"), K("Comma"), a>>), <<a, K("Period"), N("b")>>, <<a>> \o Brack(<<One>>),
     <<a>> \o Paren(<<a, K("Comma"), One>>),
     <<a>> \o Paren(Brace(<<N("x"), K("Colon"), One>>)), <<K("UInt")>> \o Paren(<<a>>), Brack(<<One>>),
     <<K("New"), K("UInt")>> \o Brack(<<>>)}
FewOperands == {<<a>>, <<K("Delete"), a>>}
BinaryOps == {<<K(t)>> : t \in {"Add", "Mul", "Exp", "And", "Equal", "AssignAdd"}}
             \cup {<<K("Conditional"), a, K("Colon")>>}
Expressions ==
    {x \o o \o y : x, y \in Operands, o \in BinaryOps}
    \cup {x \o o \o y \o p \o z : x, y, z \in FewOperands, o, p \in BinaryOps}
    \cup {<<a>> \o o \o <<a>> \o p \o <<a>> \o q \o <<a>> : o, p, q \in BinaryOps}

Statements ==
    {Semi(<<a>> \o Paren(<<>>)), Semi(<<K("UInt"), N("b")>>), Semi(<<a, N("b"), K("Assign"), One>>),
     Semi(<<a>> \o Brack(<<>>) \o <<K("Memory"), N("b")>>),
     Semi(<<a, K("Period"), N("b")>> \o Brack(<<One>>) \o <<N("c"), K("Assign"), a>>),
     Semi(<<a, K("Period"), N("b")>> \o Brack(<<One>>) \o <<K("Period"), N("c"), K("Assign"), a>>),
     Semi(<<K("UInt")>> \o Brack(<<One>>) \o Brack(<<>>) \o <<K("Storage"), N("b")>>),
     Semi(<<K("Mapping")>> \o Paren(<<K("UInt"), K("Arrow"), a>>) \o <<N("b"), K("Assign"), a>>),
     Semi(<<K("Var"), N("b"), K("Assign"), One>>),
     Semi(<<K("Var")>> \o Paren(<<N("b"), K("Comma"), K("Comma"), N("c")>>) \o <<K("Assign"), a>>),
     Semi(<<K("Return")>>), Semi(<<K("Return"), a>>), Semi(<<K("Throw")>>), Semi(<<N("_")>>),
     <<K("Assembly"), K("AssemblyBlock")>>}
Jumps == {Semi(<<K("Break")>>), Semi(<<K("Continue")>>)}
Wrapped1(code) ==
    {Brace(code), <<K("If")>> \o Paren(<<a>>) \o code, <<K("While")>> \o Paren(<<a>>) \o code,
     <<K("If")>> \o Paren(<<a>>) \o code \o <<K("Else")>> \o code,
     <<K("For")>> \o Paren(<<K("Semicolon"), K("Semicolon")>>) \o code,
     <<K("For")>> \o Paren(Semi(<<K("UInt"), N("i"), K("Assign"), One>>) \o Semi(<<N("i")>>) \o <<N("i"), K("Inc")>>)
     \o code}
Code == Statements \cup Jumps \cup UNION {Wrapped1(code) : code \in Statements \cup Jumps}

Uint(n) == <<K("UInt"), N(n)>>
Functions1 ==
    {<<K("Function")>> \o Paren(<<>>) \o Brace(<<>>),
     <<K("Function"), N("g")>> \o Paren(Uint("x") \o <<K("Comma"), K("UInt")>>)
       \o <<K("Const"), K("Public"), N("m")>> \o Paren(<<One>>) \o <<K("Returns")>> \o Paren(Uint("y"))
       \o Brace(<<>>),
     Semi(<<K("Function"), N("h")>> \o Paren(<<>>)), InModifier(Semi(<<N("_")>>)), InModifier(<<>>)}
Parts ==
    Functions1
    \cup {Semi(<<a, K("Public"), N("v")>>), Semi(<<K("UInt"), K("Const"), N("w"), K("Assign"), One, K("Add"), One>>),
          <<K("Struct"), N("S")>> \o Brace(Semi(Uint("x")) \o Semi(<<a, N("y")>>)),
          <<K("Enum"), N("E")>> \o Brace(<<N("x"), K("Comma"), N("y")>>),
          Semi(<<K("Event"), N("V")>> \o Paren(<<K("UInt"), K("Indexed"), N("x")>>) \o <<K("Anonymous")>>),
          Semi(<<K("Event"), N("W")>>), Semi(<<K("Using"), N("L"), K("For"), K("Mul")>>),
          Semi(<<K("Using"), N("L"), K("Period"), N("M"), K("For"), a>> \o Brack(<<>>))}
MCGlobals == <<"now", "x">>
MCVersion == <<"0", ".", "4", ".", "4">>
Version(tokens) == Semi(<<K("Pragma"), N("solidity")>> \o tokens)
Units ==
    {Version(<<K("BitXor"), Chars(<<"0", ".", "4">>, "Number"), Chars(<<".", "1">>, "Number")>>),
     Version(<<Chars(<<"0", ".", "3">>, "Number")>>),
     Semi(<<K("Import"), [t |-> "StringLiteral", lit |-> "f", doc |-> ""], K("As"), N("F")>>),
     Semi(<<K("Import")>> \o Brace(<<N("x"), K("As"), N("y"), K("Comma"), N("z")>>)
          \o <<N("from"), [t |-> "StringLiteral", lit |-> "f", doc |-> ""]>>),
     <<K("Contract"), N("D"), K("Is"), N("A")>> \o Paren(<<One>>) \o <<K("Comma"), N("B"), K("Period"), N("C")>>
       \o Brace(<<>>),
     <<K("Library"), N("L")>> \o Brace(InModifier(<<K("While")>> \o Paren(<<a>>) \o Semi(<<N("_")>>)))}

Programs ==
    {InContract(InFunction(Semi(e))) : e \in Expressions}
    \cup {InContract(InFunction(c \o d)) : c \in Code, d \in Jumps \cup Statements}
    \cup {InContract(InModifier(c) \o InFunction(d)) : c \in Code, d \in Jumps \cup {Semi(<<N("_")>>)}}
    \cup {InContract(p \o q) : p, q \in Parts}
    \cup {p \o q \o r : p, q, r \in Units}

\* Anything at all where a statement is expected.
Loose == {a, One, K("LBrack"), K("RBrack"), K("Period"), K("Memory"), K("Assign"), K("UInt")}

\* Hierarchies of up to MaxContracts contracts: the bases of contract c are
\* contracts before it, in any order, or it names one twice, or itself.
MaxContracts == 5
BaseLists(c) ==
    {list \in UNION {[1..n -> 1..(c - 1)] : n \in 0..(c - 1)} : IsInjective(list)}
    \cup {<<b, b>> : b \in 1..(c - 1)} \cup {<<c>>}

\* Programs in which f of contract C refers to x: what x is in each of the
\* contracts A, B and C, which of them inherits from which, and how the
\* names of A and B come into the unit of C.
XFunction(parameters, visibility) == <<K("Function"), N("x")>> \o Paren(parameters) \o <<K(visibility)>> \o Brace(<<>>)
XDeclarations ==
    {<<>>, Semi(<<K("UInt"), K("Private"), N("x")>>), Semi(<<K("UInt"), N("x")>>),
     Semi(<<K("Event"), N("x")>> \o Paren(<<>>)),
     XFunction(<<>>, "Public"), XFunction(<<>>, "Private"), XFunction(<<>>, "External"),
     XFunction(<<K("UInt")>>, "Public"),
     XFunction(<<>>, "Public") \o XFunction(<<K("UInt")>>, "Private"),
     XFunction(<<>>, "External") \o XFunction(<<K("UInt")>>, "Internal")}
FewXDeclarations == {<<>>, Semi(<<K("UInt"), N("x")>>), XFunction(<<>>, "Public"), XFunction(<<>>, "External")}
UsesX == {[parameters |-> <<>>, code |-> <<>>], [parameters |-> <<K("UInt"), N("x")>>, code |-> <<>>],
          [parameters |-> <<>>, code |-> Brace(Semi(<<K("UInt"), N("x")>>))]}
PlainUse == [parameters |-> <<>>, code |-> <<>>]
Imports == {"none", "all", "symbols", "alias"}
Bases == {<<<<>>, <<"B">>>>, <<<<"A">>, <<"B">>>>, <<<<"A">>, <<"A", "B">>>>, <<<<>>, <<"A", "B">>>>,
          <<<<>>, <<"B", "A">>>>, <<<<"A">>, <<"B", "A">>>>}
NamePrograms ==
    {[x |-> <<i, j, k>>, use |-> PlainUse, bases |-> bases, import |-> "none"] :
        i, j, k \in XDeclarations, bases \in {<<<<"A">>, <<"B">>>>, <<<<>>, <<"A", "B">>>>}}
    \cup [x : {<<i, j, k>> : i, j, k \in FewXDeclarations}, use : UsesX, bases : Bases, import : Imports]

\* Version pragmas: alternatives of ranges of components, each with a prefix
\* and up to three levels, a wildcard only in the last one.
Level == {<<"0">>, <<"1">>, <<"2">>}
Dotted(levels) == FlattenSeq([i \in DOMAIN levels |-> IF i = 1 THEN levels[i] ELSE <<".">> \o levels[i]])
Levels == {<<x>> : x \in Level} \cup {<<x, y>> : x, y \in Level} \cup {<<x, y, z>> : x, y, z \in Level}
          \cup {<<<<"x">>>>, <<<<"*">>>>} \cup {<<x, <<"*">>>> : x \in Level}
          \cup {<<x, y, <<w>>>> : x, y \in Level, w \in {"x", "*"}}
          \cup {<<<<"1">>, <<"1", "2">>>>, <<<<"0">>, <<"1">>, <<"1", "2">>>>}
PrefixText == ("none" :> <<>>) @@ ("Assign" :> <<"=">>) @@ ("LessThan" :> <<"<">>) @@ ("GreaterThan" :> <<">">>)
              @@ ("LessThanOrEqual" :> <<"<", "=">>) @@ ("GreaterThanOrEqual" :> <<">", "=">>)
              @@ ("BitXor" :> <<"^">>) @@ ("BitNot" :> <<"~">>)
AComponent(prefix, levels) == [prefix |-> prefix, levels |-> levels]
AllComponents == {AComponent(prefix, levels) : prefix \in DOMAIN PrefixText, levels \in Levels}
FewComponents ==
    {c \in AllComponents : c.prefix \in {"none", "LessThan", "GreaterThanOrEqual", "BitXor"}
                        /\ c.levels \in {<<<<"1">>>>, <<<<"0">>, <<"1">>>>, <<<<"1">>, <<"0">>, <<"2">>>>,
                                        <<<<"2">>, <<"*">>>>}}
Plain == {c \in AllComponents : c.prefix = "none" /\ Len(c.levels) # 2}
Conjunction(parts) == [kind |-> "all", parts |-> parts]
Span(first, last) == [kind |-> "span", parts |-> <<first, last>>]
Pragmas ==
    {<<Conjunction(<<c>>)>> : c \in AllComponents}
    \cup {<<Conjunction(<<c, d>>)>> : c, d \in FewComponents}
    \cup {<<Conjunction(<<c>>), Conjunction(<<d>>)>> : c, d \in FewComponents}
    \cup {<<Span(c, d)>> : c, d \in Plain}
    \cup {<<Span(c, d), Conjunction(<<e, f>>)>> :
             c, d \in {AComponent("none", l) : l \in {<<<<"1">>>>, <<<<"1">>, <<"1">>, <<"1">>>>}},
             e, f \in FewComponents}

\* Pieces of texts: all that matters to tokens.
MCPieces == {<<"/", "/">>, <<"/", "*">>, <<"*", "/">>, <<"/">>, <<"*">>, <<"\n">>, <<" ">>, <<"a">>, <<"0", "x">>,
             <<"1">>, <<".">>, <<"e">>, <<"=">>, <<">">>, <<"\"">>, <<"\\">>}

-----------------------------------------------------------------------------
(* The specification: one input of one kind.                               *)

None == [kind |-> "none", value |-> <<>>]
Given(value) == input' = [kind |-> topic, value |-> value] /\ UNCHANGED <<topic, linearisationVars>>
GivenSource(value, source) == Given(value) /\ parsed' = Parse(source)
Init == topic \in Topics /\ input = None /\ parsed = None /\ LinearisationInit

GivenProgram == topic = "program" /\ input = None /\ \E p \in Programs : GivenSource(p, p)
\* A statement grows token by token.
GivenToken ==
    /\ topic = "statement" /\ Len(input.value) < 4
    /\ \E t \in Loose :
          GivenSource(Append(input.value, t), InContract(InFunction(Semi(Append(input.value, t)))))
\* A text grows piece by piece.
GivenPiece ==
    /\ topic = "text"
    /\ \E piece \in Pieces : Len(input.value \o piece) <= MaxText /\ Given(input.value \o piece)
    /\ UNCHANGED parsed
GivenPragma == topic = "pragma" /\ input = None /\ (\E p \in Pragmas : Given(p)) /\ UNCHANGED parsed
\* A hierarchy grows contract by contract.
GivenContract ==
    /\ topic = "hierarchy" /\ Len(hierarchy) < MaxContracts
    /\ \E directBases \in BaseLists(Len(hierarchy) + 1) : ResolveContract(directBases)
    /\ UNCHANGED <<topic, input, parsed>>
GivenNames == topic = "names" /\ input = None /\ (\E p \in NamePrograms : Given(p)) /\ UNCHANGED parsed
Next == GivenProgram \/ GivenToken \/ GivenPiece \/ GivenPragma \/ GivenContract \/ GivenNames
Spec == Init /\ [][Next]_vars

-----------------------------------------------------------------------------
(* Properties.                                                             *)

Source == IF input.kind = "statement" THEN InContract(InFunction(Semi(input.value))) ELSE input.value
IsSource == input.kind \in {"program", "statement"}
\* The parser accepts (a b) for (a, b).
Unseparated(n) ==
    /\ n.type = "TupleExpression"
    /\ \E i \in 1..(Len(n.kids.components) - 1) :
          ~Missing(n.kids.components[i]) /\ n.kids.components[i].to = n.kids.components[i + 1].from
\* Every tree the parser makes without an error.
ForEveryTree(Holds(_)) ==
    IsSource => \/ parsed.failed \/ parsed.errors > 0
                \/ \E n \in Range(Descendants(parsed.out)) : Unseparated(n)
                \/ Holds(parsed.out)

\* Where the code takes another end than that of the text: the end of the
\* next token, or that of the type.
RECURSIVE OwnEnd(_)
OwnEnd(n) ==
    \/ n.type = "VariableDeclarationStatement" /\ n.kids.initialValue = <<>>
    \/ n.type = "Return" /\ n.kids.expression = <<>>
    \/ n.type = "VariableDeclaration" /\ n.attr.name = ""
    \/ n.type = "InlineAssembly"
    \/ n.type \in {"IfStatement", "WhileStatement", "ForStatement"} /\ OwnEnd(Body(n))

\* The tree holds every token of the text once and in its place, and the
\* location of each node is exactly the text of that node.
LocationsHoldText ==
    ForEveryTree(LAMBDA tree :
        LET nodes == Descendants(tree)
            text == NoDocs(Source) IN
        \A i \in DOMAIN nodes :
           OwnEnd(nodes[i]) \/ Spell(nodes[i]) = SubSeq(text, nodes[i].from + 1, nodes[i].to))

\* Operators bind as the table of precedences says, from left to right.
PrecedenceRespected ==
    ForEveryTree(LAMBDA tree : LET nodes == Descendants(tree) IN \A i \in DOMAIN nodes : OperandsBind(nodes[i]))

\* The stack of ASTJsonConverter follows the tree: each object is added to
\* the children of its parent, and in the end nothing is left open.
JsonMirrorsTree ==
    ForEveryTree(LAMBDA tree :
        LET json == Json(tree)
            visits == SelectSeq(Walk(tree), LAMBDA e : e.kind = "visit") IN
        /\ json.pointers = <<>>
        /\ Len(json.objects) = Len(visits)
        /\ \A i \in DOMAIN visits : \A j \in DOMAIN visits :
              json.objects[i].parent = j <=> visits[i].path # <<>> /\ Front(visits[i].path) = visits[j].path)

\* Units and using-for directives have no line.
Unprinted == {"SourceUnit", "UsingForDirective"}
\* ASTPrinter indents a node by the number of printed nodes around it.
IndentationIsDepth ==
    ForEveryTree(LAMBDA tree :
        LET printed == PrintLines(tree)
            visits == SelectSeq(Walk(tree), LAMBDA e : e.kind = "visit" /\ e.node.type \notin Unprinted) IN
        /\ printed.indentation = 0
        /\ Len(printed.lines) = Len(visits)
        /\ \A i \in DOMAIN visits :
              printed.lines[i].indentation
                = Cardinality({p \in Above(visits[i].path) : NodeAt(tree, p).type \notin Unprinted}))

\* SyntaxChecker complains of exactly the jumps outside of loops, modifiers
\* without a placeholder, and missing or wrong versions.
SyntaxErrorsExact == ForEveryTree(LAMBDA tree : CheckSyntax(tree) = SyntaxErrors(tree))

-----------------------------------------------------------------------------
(* Texts and their tokens.                                                 *)

\* What may stand between two tokens: blanks, and comments that end with
\* their line or at the first "*/".
StartsWith(text, word) == Len(word) <= Len(text) /\ SubSeq(text, 1, Len(word)) = word
RECURSIVE OnlyBlank(_)
OnlyBlank(gap) ==
    \/ gap = <<>>
    \/ gap[1] \in WhiteSpace /\ OnlyBlank(Tail(gap))
    \/ /\ StartsWith(gap, <<"/", "/">>)
       /\ LET ends == {i \in DOMAIN gap : gap[i] = "\n"} IN
          ends = {} \/ OnlyBlank(Drop(gap, Min(ends)))
    \/ /\ StartsWith(gap, <<"/", "*">>)
       /\ LET ends == {i \in 4..Len(gap) : gap[i - 1] = "*" /\ gap[i] = "/"} IN
          ends # {} /\ OnlyBlank(Drop(gap, Min(ends)))

\* The kind of token that a word spells, "" if it spells none.
IsNumber(word) ==
    LET plain(w) == w # <<>> /\ \A i \in DOMAIN w : w[i] \in Digit
        fixed(w) == plain(w) \/ \E i \in DOMAIN w :
                      /\ w[i] = "." /\ Len(w) > 1
                      /\ \A j \in DOMAIN w \ {i} : w[j] \in Digit IN
    \/ fixed(word)
    \/ \E i \in DOMAIN word : word[i] = "e" /\ fixed(SubSeq(word, 1, i - 1)) /\ plain(Drop(word, i))
    \/ /\ StartsWith(word, <<"0", "x">>) /\ Len(word) > 2
       /\ \A i \in 3..Len(word) : word[i] \in HexDigit
IsString(word) ==
    /\ Len(word) >= 2 /\ word[1] \in Quote /\ Last(word) = word[1]
    /\ LET escaped(i) == LET run == {k \in 1..(i - 1) : \A j \in k..(i - 1) : word[j] = "\\"} IN
                         Cardinality(run) % 2 = 1 IN
       \A i \in 2..Len(word) : ~escaped(i) => (word[i] # word[1] \/ i = Len(word)) /\ word[i] # "\n"
OperatorNames ==
    ("=" :> "Assign") @@ ("==" :> "Equal") @@ ("=>" :> "Arrow") @@ (">" :> "GreaterThan")
    @@ (">=" :> "GreaterThanOrEqual") @@ (">>" :> "SAR") @@ (">>=" :> "AssignSar") @@ (">>>" :> "SHR")
    @@ (">>>=" :> "AssignShr") @@ ("*" :> "Mul") @@ ("**" :> "Exp") @@ ("*=" :> "AssignMul")
    @@ ("/" :> "Div") @@ ("/=" :> "AssignDiv") @@ ("." :> "Period")
Spelled(word) ==
    CASE word[1] \in IdentifierStart /\ (\A i \in DOMAIN word : word[i] \in IdentifierPart) -> "Identifier"
      [] IsNumber(word) -> "Number"
      [] IsString(word) -> "StringLiteral"
      [] Text(word) \in DOMAIN OperatorNames -> OperatorNames[Text(word)]
      [] OTHER -> ""

LongestSpelled(text, t) ==
    /\ Spelled(SubSeq(text, t.from + 1, t.to)) = t.token
    /\ \A end \in (t.to + 1)..Len(text) : Spelled(SubSeq(text, t.from + 1, end)) = ""
NothingSkipped(text, tokens) ==
    \A i \in 1..(Len(tokens) + 1) :
       LET from == IF i = 1 THEN 0 ELSE tokens[i - 1].to
           to == IF i > Len(tokens) THEN Len(text) ELSE tokens[i].from IN
       from <= to /\ OnlyBlank(SubSeq(text, from + 1, to))

\* What the scanner takes for a comment although it is none: a comment
\* that is not closed, "/** /", and the line below an empty line of "///".
TakenForComment(text) ==
    \E i \in DOMAIN text :
       LET rest == Drop(text, i - 1)
           word == SelectSeq(rest, LAMBDA c : c # " ") IN
       \/ StartsWith(rest, <<"/", "*">>) /\ \A j \in 4..Len(rest) : SubSeq(rest, j - 1, j) # <<"*", "/">>
       \/ StartsWith(rest, <<"/", "*", "*", " ">>) /\ StartsWith(word, <<"/", "*", "*", "/">>)
       \/ StartsWith(rest, <<"/", "/", "/", "\n">>)

\* The scanner's tokens are the text: every token is the longest that is
\* spelled at its place, and only blanks and comments are left out.
TextIsTokens ==
    input.kind = "text" =>
      \A tokens \in {Scan(input.value)} :
         /\ NothingSkipped(input.value, tokens) \/ TakenForComment(input.value)
         /\ \A i \in DOMAIN tokens : tokens[i].token # "Illegal" => LongestSpelled(input.value, tokens[i])

-----------------------------------------------------------------------------
(* Version pragmas and the versions they are for.                          *)

ComponentText(c) == PrefixText[c.prefix] \o Dotted(c.levels)
RangeText(range) ==
    Joined([i \in DOMAIN range.parts |-> ComponentText(range.parts[i])],
           IF range.kind = "span" THEN <<" ", "-", " ">> ELSE <<" ">>)
PragmaText(ranges) ==
    <<"p", "r", "a", "g", "m", "a", " ", "s", "o", "l", "i", "d", "i", "t", "y", " ">>
    \o Joined([i \in DOMAIN ranges |-> RangeText(ranges[i])], <<" ", "|", "|", " ">>) \o <<";">>
ParserTokens(scanned) ==
    [i \in DOMAIN scanned |->
        [t |-> scanned[i].token, doc |-> "",
         lit |-> IF Text(scanned[i].literal) = "solidity" THEN "solidity" ELSE scanned[i].literal]]
ParsedVersions(ranges) == ParseMatch(PragmaVersion(Parse(ParserTokens(Scan(PragmaText(ranges)))).out.kids.nodes[1]))

\* Versions as numbers: a release is an odd number, the one before it stands
\* for its pre-releases.
Place(x, y, z) == 2 * (400 * x + 20 * y + z) + 1
Known(c) == {i \in DOMAIN c.levels : c.levels[i] \notin {<<"x">>, <<"*">>}}
NumberAt(c, i) == IF i \in Known(c) THEN NumberIn(c.levels[i], 1, Len(c.levels[i]) + 1) ELSE 0
\* The first release that has the given levels, and the first version after
\* all those that agree with it in some of them.
From(c) == Place(NumberAt(c, 1), NumberAt(c, 2), NumberAt(c, 3))
Past(c, levels) ==
    CASE levels = 0 -> Place(20, 0, 0) - 1
      [] levels = 1 -> Place(NumberAt(c, 1) + 1, 0, 0) - 1
      [] levels = 2 -> Place(NumberAt(c, 1), NumberAt(c, 2) + 1, 0) - 1
      [] levels = 3 -> Place(NumberAt(c, 1), NumberAt(c, 2), NumberAt(c, 3)) + 1
Least(m, n) == IF m <= n THEN m ELSE n
Allows(c, prefix, v) ==
    LET known == Cardinality(Known(c)) IN
    CASE prefix \in {"none", "Assign"} -> From(c) <= v /\ v < Past(c, known)
      [] prefix = "LessThan" -> v < From(c)
      [] prefix = "GreaterThanOrEqual" -> v >= From(c)
      [] prefix = "LessThanOrEqual" -> v < Past(c, known)
      [] prefix = "GreaterThan" -> v >= Past(c, known)
      [] prefix = "BitNot" -> From(c) <= v /\ v < Past(c, Least(known, 2))
      [] prefix = "BitXor" -> From(c) <= v /\ v < Past(c, Least(known, IF NumberAt(c, 1) = 0 THEN 2 ELSE 1))
AllowsRange(range, v) ==
    IF range.kind = "span"
    THEN Allows(range.parts[1], "GreaterThanOrEqual", v) /\ Allows(range.parts[2], "LessThanOrEqual", v)
    ELSE \A i \in DOMAIN range.parts : Allows(range.parts[i], range.parts[i].prefix, v)

ComponentsOf(ranges) == UNION {Range(ranges[i].parts) : i \in DOMAIN ranges}
\* ^0 allows only 0.0, not everything below 1.0.
CaretZero(c) == c.prefix = "BitXor" /\ Len(c.levels) = 1 /\ NumberAt(c, 1) = 0 /\ Known(c) # {}
\* A pragma, scanned and parsed, allows exactly the versions that its parts
\* describe as intervals of versions.
PragmaAllowsVersions ==
    input.kind = "pragma" =>
      \A expression \in {ParsedVersions(input.value)} : \A x, y, z \in 0..2 : \A pre \in BOOLEAN :
         LET v == Place(x, y, z) - (IF pre THEN 1 ELSE 0)
             complete == \A c \in ComponentsOf(input.value) : Cardinality(Known(c)) = 3 IN
         \/ \E c \in ComponentsOf(input.value) : CaretZero(c)
         \/ pre /\ ~complete
         \/ Matches(expression, [numbers |-> <<x, y, z>>, prerelease |-> pre])
              <=> \E i \in DOMAIN input.value : AllowsRange(input.value[i], v)

-----------------------------------------------------------------------------
(* Inheritance and names.                                                  *)

Inherits(bases, prefix) ==
    IF bases = <<>> THEN <<>> ELSE <<K("Is")>> \o Joined([i \in DOMAIN bases |-> prefix \o <<N(bases[i])>>], <<K("Comma")>>)
XContract(name, bases, prefix, parts) == <<K("Contract"), N(name)>> \o Inherits(bases, prefix) \o Brace(parts)
XUse(use) == <<K("Function"), N("f")>> \o Paren(use.parameters) \o Brace(Semi(<<N("x")>>) \o use.code)
File(name) == [t |-> "StringLiteral", lit |-> name, doc |-> ""]
ImportTokens(import) ==
    CASE import = "all" -> Semi(<<K("Import"), File("ab")>>)
      [] import = "alias" -> Semi(<<K("Import"), File("ab"), K("As"), N("F")>>)
      [] import = "symbols" -> Semi(<<K("Import")>> \o Brace(<<N("A"), K("Comma"), N("B"), K("As"), N("D")>>)
                                    \o <<N("from"), File("ab")>>)
\* The units of a program, that of C last.
UnitTokens(p) ==
    LET prefix == IF p.import = "alias" THEN <<N("F"), K("Period")>> ELSE <<>>
        bases == IF p.import = "symbols" THEN [i \in DOMAIN p.bases[2] |-> IF p.bases[2][i] = "B" THEN "D" ELSE "A"]
                 ELSE p.bases[2]
        ab == XContract("A", <<>>, <<>>, p.x[1]) \o XContract("B", p.bases[1], <<>>, p.x[2])
        c == XContract("C", bases, prefix, p.x[3] \o XUse(p.use)) IN
    IF p.import = "none" THEN <<ab \o c>> ELSE <<ab, ImportTokens(p.import) \o c>>

-----------------------------------------------------------------------------
(* What name resolution promises, independent of how it is done: the       *)
(* declarations that a name stands for.                                    *)

DeclaredIn(r, contract, name) ==
    LET kids == Children(r.at[contract]) IN
    SelectSeq([k \in DOMAIN kids |-> Append(contract, k)],
              LAMBDA p : r.at[p].type \in Declares /\ NameOf(r.at[p]) = name)
\* The declarations of a name, from the contract up to its bases.
ByContract(r, contract, name) ==
    [i \in DOMAIN r.lin[contract] |->
        IF i = 1 THEN DeclaredIn(r, contract, name)
        ELSE SelectSeq(DeclaredIn(r, r.lin[contract][i], name), LAMBDA p : IsVisibleInDerivedContracts(r.at[p]))]
MostDerived(r, decls) ==
    {decls[i] : i \in {i \in DOMAIN decls :
                         \A j \in 1..(i - 1) : ParameterTypes(r, decls[j]) # ParameterTypes(r, decls[i])}}
\* The nearest declaration, if it is no function; otherwise all functions
\* of that name, the most derived one for each list of parameters.
MeantInContract(r, contract, name) ==
    LET levels == SelectSeq(ByContract(r, contract, name), LAMBDA list : list # <<>>)
        functions == SelectSeq(FlattenSeq(levels), LAMBDA p : IsFunction(r, p) /\ IsVisibleInContract(r.at[p])) IN
    IF levels = <<>> THEN {}
    ELSE IF ~IsFunction(r, levels[1][1]) THEN {levels[1][1]}
    ELSE MostDerived(r, functions)
\* Names of the function itself come first, the global ones last.
Meant(r, contract, function, name) ==
    LET own == {p \in DOMAIN r.at : /\ r.at[p].type = "VariableDeclaration" /\ r.at[p].attr.name = name
                                    /\ Len(p) > Len(function) /\ SubSeq(p, 1, Len(function)) = function}
        inContract == MeantInContract(r, contract, name)
        global == {<<0, i>> : i \in {i \in DOMAIN Globals : Globals[i] = name}} IN
    IF own # {} THEN own ELSE IF inContract # {} THEN inContract ELSE global

\* A name in a function refers to the declaration in the function, else to
\* that of the nearest contract in the linearisation that shows it (of
\* functions to all that are not overridden), else to the global one.
NamesReferToNearest ==
    input.kind = "names" =>
      \A units \in {UnitTokens(input.value)} :
      \A trees \in {[u \in DOMAIN units |-> Parse(units[u]).out]} :
      \A r \in {Resolved(trees, "ab" :> 1)} :
      \A contract \in {Last(ContractsOf(trees))} :
         LET function == Append(contract, Len(Children(r.at[contract])))
             use == CHOOSE p \in DOMAIN r.at : r.at[p].type = "Identifier" IN
         \/ contract \notin DOMAIN r.lin
         \/ use \notin DOMAIN r.refs /\ Meant(r, contract, function, "x") = {}
         \/ use \in DOMAIN r.refs /\ Range(r.refs[use]) = Meant(r, contract, function, "x")
=============================================================================
