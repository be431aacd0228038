------------------------- MODULE ExpressionClasses -------------------------
(***************************************************************************)
(* libevmasm/ExpressionClasses: classes of expressions that are known to   *)
(* have the same value, and the rules that simplify an expression.         *)
(*                                                                         *)
(* The classes are a record cl: cl.reps[id] is the representative of the   *)
(* class id, cl.table maps every known expression (m_expressions) to its   *)
(* class.  A method that can add classes returns [cl, id].                 *)
(***************************************************************************)
EXTENDS Evm, Bitwise, FiniteSetsExt

\* The elements of a finite set in ascending order, as a std::map or std::set
\* lists them.
SortedBy(S, Less(_, _)) ==
    [i \in 1..Cardinality(S) |->
        CHOOSE x \in S : Cardinality({y \in S : Less(y, x)}) = i - 1]
Sorted(S) == SortedBy(S, <)

NoClasses == [reps |-> <<>>, table |-> [k \in {} |-> 0]]

Commutative == {"ADD", "MUL", "EQ", "AND", "OR", "XOR"}
NonDeterministic == {"CREATE", "GAS"}
Operation(item) == item.op \notin NonOperation
Deterministic(item) == item.op \notin NonDeterministic

-----------------------------------------------------------------------------
(* Patterns and rules.  A pattern matches any expression, any constant, a  *)
(* given constant or an operation; a group name stands for the class that  *)
(* was matched.  The right-hand side is a pattern too, in which Computed   *)
(* is a constant calculated from the constants that were matched.          *)

Pattern(kind, group, item, args) ==
    [kind |-> kind, group |-> group, item |-> item, args |-> args]
Anything(g) == Pattern("any", g, Op("STOP"), <<>>)
Constant(g) == Pattern("constant", g, Op("STOP"), <<>>)
Number(n) == Pattern("exact", "", Push(n), <<>>)
Apply(op, args) == Pattern("exact", "", Op(op), args)
Computed(op, groups) == Pattern("computed", "", Op(op), groups)
Rule(lhs, rhs) == [lhs |-> lhs, rhs |-> rhs]

A == Constant("A")
B == Constant("B")
C == Constant("C")
X == Anything("X")
Y == Anything("Y")
Ones == Size - 1

\* The arithmetic of the rules on constants, on u256, s256 and bigint.
Fold(op, a) ==
    CASE op = "ADD" -> (a[1] + a[2]) % Size
      [] op = "MUL" -> (a[1] * a[2]) % Size
      [] op = "SUB" -> (a[1] - a[2]) % Size
      [] op = "DIV" -> IF a[2] = 0 THEN 0 ELSE a[1] \div a[2]
      [] op = "SDIV" -> IF a[2] = 0 THEN 0 ELSE Quotient(Signed(a[1]), Signed(a[2])) % Size
      [] op = "MOD" -> IF a[2] = 0 THEN 0 ELSE a[1] % a[2]
      [] op = "SMOD" -> IF a[2] = 0 THEN 0 ELSE Remainder(Signed(a[1]), Signed(a[2])) % Size
      [] op = "EXP" -> Accumulated(LAMBDA p, i : (p * a[1]) % Size, 1, [i \in 1..a[2] |-> 1])
      [] op = "NOT" -> Ones ^^ a[1]
      [] op = "LT" -> Bool(a[1] < a[2])
      [] op = "GT" -> Bool(a[1] > a[2])
      [] op = "SLT" -> Bool(Signed(a[1]) < Signed(a[2]))
      [] op = "SGT" -> Bool(Signed(a[1]) > Signed(a[2]))
      [] op = "EQ" -> Bool(a[1] = a[2])
      [] op = "ISZERO" -> Bool(a[1] = 0)
      [] op = "AND" -> a[1] & a[2]
      [] op = "OR" -> a[1] | a[2]
      [] op = "XOR" -> a[1] ^^ a[2]
      [] op = "BYTE" -> IF a[1] >= WordBytes THEN 0
                        ELSE (a[2] \div 2 ^ (ByteBits * (WordBytes - 1 - a[1]))) & (Base - 1)
      [] op = "ADDMOD" -> IF a[3] = 0 THEN 0 ELSE (a[1] + a[2]) % a[3]
      [] op = "MULMOD" -> IF a[3] = 0 THEN 0 ELSE (a[1] * a[2]) % a[3]
      [] op = "SIGNEXTEND" ->
           IF a[1] >= WordBytes - 1 THEN a[2]
           ELSE LET testBit == a[1] * ByteBits + ByteBits - 1
                    mask == 2 ^ testBit - 1 IN
                IF Bit(a[2], testBit) = 1 THEN a[2] | (Ones ^^ mask) ELSE a[2] & mask
      [] op = "NEGATE" -> (0 - a[1]) % Size

\* Arithmetic on constants.  (The second rule for MULMOD in the list is never
\* reached and left out.)
Folded(op) ==
    LET args == SubSeq(<<A, B, C>>, 1, Info(op).args)
        groups == SubSeq(<<"A", "B", "C">>, 1, Info(op).args) IN
    Rule(Apply(op, args), Computed(op, groups))

IdentityRules == <<
    Rule(Apply("ADD", <<X, Number(0)>>), X),
    Rule(Apply("MUL", <<X, Number(1)>>), X),
    Rule(Apply("DIV", <<X, Number(1)>>), X),
    Rule(Apply("SDIV", <<X, Number(1)>>), X),
    Rule(Apply("OR", <<X, Number(0)>>), X),
    Rule(Apply("XOR", <<X, Number(0)>>), X),
    Rule(Apply("AND", <<X, Number(Ones)>>), X),
    Rule(Apply("MUL", <<X, Number(0)>>), Number(0)),
    Rule(Apply("DIV", <<X, Number(0)>>), Number(0)),
    Rule(Apply("MOD", <<X, Number(0)>>), Number(0)),
    Rule(Apply("MOD", <<Number(0), X>>), Number(0)),
    Rule(Apply("AND", <<X, Number(0)>>), Number(0)),
    Rule(Apply("OR", <<X, Number(Ones)>>), Number(Ones)),
    Rule(Apply("AND", <<X, X>>), X),
    Rule(Apply("OR", <<X, X>>), X),
    Rule(Apply("SUB", <<X, X>>), Number(0)),
    Rule(Apply("EQ", <<X, X>>), Number(1)),
    Rule(Apply("LT", <<X, X>>), Number(0)),
    Rule(Apply("SLT", <<X, X>>), Number(0)),
    Rule(Apply("GT", <<X, X>>), Number(0)),
    Rule(Apply("SGT", <<X, X>>), Number(0)),
    Rule(Apply("MOD", <<X, X>>), Number(0)),
    Rule(Apply("NOT", <<Apply("NOT", <<X>>)>>), X)>>

IsZero(p) == Apply("ISZERO", <<p>>)
NegationRules ==
    [i \in 1..5 |-> LET p == Apply(<<"EQ", "LT", "SLT", "GT", "SGT">>[i], <<X, Y>>) IN
                    Rule(IsZero(IsZero(p)), p)]
    \o <<Rule(IsZero(IsZero(IsZero(X))), IsZero(X))>>

\* Moving constants to the outside; the order matters.
Associative(op) == <<
    Rule(Apply(op, <<Apply(op, <<X, A>>), B>>), Apply(op, <<X, Computed(op, <<"A", "B">>)>>)),
    Rule(Apply(op, <<Apply(op, <<X, A>>), Y>>), Apply(op, <<Apply(op, <<X, Y>>), A>>)),
    Rule(Apply(op, <<Apply(op, <<A, X>>), B>>), Apply(op, <<X, Computed(op, <<"A", "B">>)>>)),
    Rule(Apply(op, <<Apply(op, <<A, X>>), Y>>), Apply(op, <<Apply(op, <<X, Y>>), A>>))>>
AssociativeRules == FlattenSeq(
    [i \in 1..5 |-> Associative(<<"ADD", "MUL", "AND", "OR", "XOR">>[i])])

Plus(p, q) == Apply("ADD", <<p, q>>)
Minus(p, q) == Apply("SUB", <<p, q>>)
\* Mutant: the complement instead of the negation.
Complemented == Computed("NOT", <<"A">>)
Negated == Computed("NEGATE", <<"A">>)
SubtractionRules == <<
    Rule(Minus(X, A), Plus(X, Negated)),
    Rule(Minus(Plus(X, A), Y), Plus(Minus(X, Y), A)),
    Rule(Minus(Plus(A, X), Y), Plus(Minus(X, Y), A)),
    Rule(Minus(X, Plus(Y, A)), Plus(Minus(X, Y), Negated)),
    Rule(Minus(X, Plus(A, Y)), Plus(Minus(X, Y), Negated))>>

\* The rules for one operation, in their order.
RulesFor ==
    [op \in Pure |->
       <<Folded(op)>> \o SelectSeq(
           IdentityRules \o NegationRules \o AssociativeRules \o SubtractionRules,
           LAMBDA r : r.lhs.item.op = op)]

MatchesBaseItem(p, item) ==
    \/ p.kind = "any"
    \/ p.kind = "constant" /\ item.op = "PUSH"
    \/ p.kind = "exact" /\ p.item = item

\* The bindings of the groups if p matches the expression e, as a set with
\* at most one element; g are the bindings so far.
RECURSIVE Matches(_, _, _, _), MatchArgs(_, _, _, _)
Matches(cl, p, e, g) ==
    IF \/ ~MatchesBaseItem(p, e.item)
       \/ p.group \in DOMAIN g /\ g[p.group].id # e.id
    THEN {}
    ELSE MatchArgs(cl, p.args, e.args, IF p.group = "" THEN g ELSE g @@ (p.group :> e))
MatchArgs(cl, ps, ids, g) ==
    IF ps = <<>> THEN {g}
    ELSE UNION {MatchArgs(cl, Tail(ps), Tail(ids), h) :
                   h \in Matches(cl, Head(ps), cl.reps[Head(ids)], g)}

-----------------------------------------------------------------------------
(* Methods.                                                                *)

NoBindings == [g \in {} |-> 0]
NoId == 0

\* The number of the first rule whose left side matches; 0 if none does.
FirstMatch(cl, rules, e) ==
    SelectInSeq(rules, LAMBDA r : Matches(cl, r.lhs, e, NoBindings) # {})

\* What the first rule that matches makes of the expression; NoId if none
\* does, with the arguments in either order.
RECURSIVE Find(_, _, _, _), Simplify(_, _, _), Rebuild(_, _, _)
AddArg(acc, r) == [cl |-> r.cl, ids |-> Append(acc.ids, r.id)]
FindArgs(acc, item) == Find(acc.cl, item, acc.ids, 0)
TryToSimplify(cl, e) ==
    IF e.item.op \in Pure THEN Simplify(cl, RulesFor[e.item.op], e)
    ELSE [cl |-> cl, id |-> NoId]
Simplify(cl, rules, e) ==
    LET swapped == [e EXCEPT !.args = Reverse(e.args)]
        commutes == Len(e.args) = 2 /\ e.item.op \in Commutative
        i == FirstMatch(cl, rules, e)
        j == FirstMatch(cl, rules, swapped)
        applied(rule, f) ==
            Rebuild(cl, rule.rhs, CHOOSE g \in Matches(cl, rule.lhs, f, NoBindings) : TRUE) IN
    IF i # 0 THEN applied(rules[i], e)
    ELSE IF commutes /\ j # 0 THEN applied(rules[j], swapped)
    ELSE [cl |-> cl, id |-> NoId]

Rebuild(cl, p, g) ==
    IF p.group # "" THEN [cl |-> cl, id |-> g[p.group].id]
    ELSE IF p.kind = "computed"
    THEN Find(cl, Push(Fold(p.item.op, [i \in DOMAIN p.args |-> g[p.args[i]].item.n])), <<>>, 0)
    ELSE FindArgs(Accumulated(LAMBDA acc, q : AddArg(acc, Rebuild(acc.cl, q, g)),
                           [cl |-> cl, ids |-> <<>>], p.args), p.item)

Expression(key, id) == [item |-> key.item, args |-> key.args, seq |-> key.seq, id |-> id]

\* The class of an expression: the one it is known to be in, the one its
\* simplified form r is in, or a new one.
Enter(r, key) ==
    IF r.id # NoId THEN [r EXCEPT !.cl.table = @ @@ (key :> r.id)]
    ELSE LET id == Len(r.cl.reps) + 1 IN
         [cl |-> [reps |-> Append(r.cl.reps, Expression(key, id)),
                  table |-> r.cl.table @@ (key :> id)],
          id |-> id]
Lookup(cl, key) ==
    IF Deterministic(key.item) /\ key \in DOMAIN cl.table
    THEN [cl |-> cl, id |-> cl.table[key]]
    ELSE Enter(IF Operation(key.item) /\ Deterministic(key.item)
               THEN TryToSimplify(cl, Expression(key, NoId)) ELSE [cl |-> cl, id |-> NoId],
               key)
Find(cl, item, args, seq) ==
    Lookup(cl, [item |-> item, seq |-> seq,
                args |-> IF item.op \in Commutative THEN SortSeq(args, <) ELSE args])

\* A class of an expression that nothing is known of.
NewClass(cl) ==
    Enter([cl |-> cl, id |-> NoId],
          [item |-> Item("UNDEFINED", Size + Len(cl.reps) + 1), seq |-> 0, args |-> <<>>])

IsZeroConstant(cl, id) == cl.reps[id].item = Push(0)
KnownZero(cl, id) == IsZeroConstant(cl, id)
FoundZero(r) == [cl |-> r.cl, holds |-> IsZeroConstant(r.cl, r.id)]
KnownNonZero(cl, id) == FoundZero(Find(cl, Op("ISZERO"), <<id>>, 0))

\* The value of a class that is a constant, as a set with at most one element.
KnownConstant(cl, id) == IF cl.reps[id].item.op = "PUSH" THEN {cl.reps[id].item.n} ELSE {}

KnownToBeDifferent(cl, a, b) ==
    FoundZero(FindArgs(AddArg([ids |-> <<>>], Find(cl, Op("SUB"), <<a, b>>, 0)),
                       Op("ISZERO")))

\* The forbidden interval is ["-31", 31], written for words of WordBytes.
FoundFar(r) ==
    [cl |-> r.cl,
     holds |-> \E v \in KnownConstant(r.cl, r.id) :
                  Wrap(v + WordBytes - 1) > 2 * (WordBytes - 1)]
KnownToBeDifferentBy32(cl, a, b) == FoundFar(Find(cl, Op("SUB"), <<a, b>>, 0))
=============================================================================
