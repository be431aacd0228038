------------------------------ MODULE MCCodegen ------------------------------
(***************************************************************************)
(* CompilerStack with texts that differ in what their contracts inherit    *)
(* and create, in the names their imports declare, and in the analysis     *)
(* phase that objects to them; two paths, the second call of parse(),      *)
(* recompilation.                                                          *)
(***************************************************************************)
EXTENDS CompilerStack

Def(n, bs, cs) == [name |-> n, library |-> FALSE, abstract |-> FALSE, bases |-> bs,
                   creates |-> cs, resolves |-> TRUE, checks |-> TRUE]
Lib(n) == [Def(n, {}, {}) EXCEPT !.library = TRUE]
Abstract(d) == [d EXCEPT !.abstract = TRUE]
All(spec) == [spec |-> spec, aliases |-> EmptyMap, unit |-> NoAlias]
As(spec, n) == [All(spec) EXCEPT !.unit = n]
Other == <<All("other")>>
OtherA == <<[All("other") EXCEPT !.aliases = [B |-> "A"]]>>
Good(imports, defs) == [parse |-> "ok", syntaxOk |-> TRUE, docStringsOk |-> TRUE,
                        imports |-> imports, contracts |-> defs]

MCUnit == [
    a       |-> Good(<<>>, <<Def("A", {}, {})>>),
    \* creation against the order of declaration
    chain   |-> Good(<<>>, <<Def("A", {}, {"B"}), Def("B", {}, {})>>),
    \* creation and inheritance form a cycle
    loop    |-> Good(<<>>, <<Def("A", {}, {"B"}), Def("B", {"A"}, {})>>),
    user    |-> Good(Other, <<Def("D", {"A"}, {"A"})>>),
    alias   |-> Good(OtherA, <<Def("D", {}, {"B"})>>),
    lib     |-> Good(Other, <<Lib("L")>>),
    iface   |-> Good(Other, <<Abstract(Def("D", {}, {})), Def("C", {"D"}, {})>>),
    \* an abstract contract creates C in a function that B inherits
    inherit |-> Good(<<>>, <<Abstract(Def("A", {}, {"C"})), Def("B", {"A"}, {}),
                             Def("C", {}, {})>>),
    \* A creates B, which turns out to be abstract further down
    later   |-> Good(<<>>, <<Def("A", {}, {"B"}), Abstract(Def("B", {}, {}))>>),
    twice   |-> Good(<<>>, <<Def("A", {}, {}), Def("A", {}, {})>>),
    \* names of imports: declared twice, like a contract, used like a contract
    twins   |-> Good(<<As("other", "D"), As("other", "D")>>, <<>>),
    clash   |-> Good(<<As("other", "A")>>, <<Def("A", {}, {})>>),
    unit    |-> Good(<<As("other", "D")>>, <<Def("C", {}, {"D"})>>),
    broken  |-> [Good(<<>>, <<>>) EXCEPT !.parse = "fatal"],
    lexed   |-> [Good(<<>>, <<>>) EXCEPT !.parse = "error"],
    syntax  |-> [Good(<<>>, <<>>) EXCEPT !.syntaxOk = FALSE],
    docs    |-> [Good(<<>>, <<>>) EXCEPT !.docStringsOk = FALSE],
    unbound |-> Good(<<>>, <<Def("C", {}, {}), [Def("D", {}, {}) EXCEPT !.resolves = FALSE]>>),
    untyped |-> Good(<<>>, <<[Def("C", {}, {}) EXCEPT !.checks = FALSE]>>)]
MCName == {"A", "B", "C", "D", "L"}
MCRemapping == {"none", "self"}
MCResolve == [r \in MCRemapping |->
                [other |-> [p \in Path |-> IF r = "self" \/ p > 2 THEN p ELSE 3 - p]]]
\* ContractsLive needs that the remappings do not change between two calls.
OneRemapping == {"none"}

CodegenText == {"a", "chain", "loop", "user", "iface", "broken"}
=============================================================================
