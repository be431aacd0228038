--------------------------- MODULE SyntaxChecker ----------------------------
(***************************************************************************)
(* libsolidity/analysis/SyntaxChecker: a visitor with a loop depth and two *)
(* flags that outlive the nodes that set them.  An error is the kind of    *)
(* the complaint and the path of the node.                                 *)
(***************************************************************************)
EXTENDS Ast, SemVerHandler

CONSTANT VersionString       \* the compiler's own version, as characters

Complaint(c, kind, path) == [c EXCEPT !.errors = @ \cup {[kind |-> kind, path |-> path]}]
PragmaVersion(node) ==
    [i \in 1..(Len(node.attr.tokens) - 1) |->
        [token |-> node.attr.tokens[i + 1].t, literal |-> node.attr.tokens[i + 1].lit]]
VersionMatches(node) ==
    \E expression \in {ParseMatch(PragmaVersion(node))}, version \in {SemVerVersion(VersionString)} :
       Matches(expression, version)

VisitPragma(c, node, path) ==
    IF node.attr.tokens[1].t # "Identifier" /\ node.attr.tokens[1].lit # "solidity"
    THEN Complaint(c, "unknown pragma", path)
    ELSE LET found == [c EXCEPT !.versionPragmaFound = TRUE] IN
         IF VersionMatches(node) THEN found ELSE Complaint(found, "wrong version", path)

CheckerVisit(c, node, path) ==
    CASE node.type = "SourceUnit" -> [c EXCEPT !.versionPragmaFound = FALSE]
      [] node.type = "PragmaDirective" -> VisitPragma(c, node, path)
      [] node.type = "ModifierDefinition" -> [c EXCEPT !.placeholderFound = FALSE]
      [] node.type \in {"WhileStatement", "ForStatement"} -> [c EXCEPT !.inLoopDepth = @ + 1]
      [] node.type \in {"Continue", "Break"} /\ c.inLoopDepth <= 0 -> Complaint(c, "not in a loop", path)
      [] node.type = "PlaceholderStatement" -> [c EXCEPT !.placeholderFound = TRUE]
      [] OTHER -> c

\* Mutant: the end of a for loop does not count.
CheckerEndVisitWhile(c, node, path) ==
    CASE node.type = "SourceUnit" /\ ~c.versionPragmaFound -> Complaint(c, "no version", path)
      [] node.type = "ModifierDefinition" ->
           [(IF c.placeholderFound THEN c ELSE Complaint(c, "no placeholder", path))
              EXCEPT !.placeholderFound = FALSE]
      [] node.type = "WhileStatement" -> [c EXCEPT !.inLoopDepth = @ - 1]
      [] OTHER -> c

CheckerEndVisit(c, node, path) ==
    CASE node.type = "SourceUnit" /\ ~c.versionPragmaFound -> Complaint(c, "no version", path)
      [] node.type = "ModifierDefinition" ->
           [(IF c.placeholderFound THEN c ELSE Complaint(c, "no placeholder", path))
              EXCEPT !.placeholderFound = FALSE]
      [] node.type \in {"WhileStatement", "ForStatement"} -> [c EXCEPT !.inLoopDepth = @ - 1]
      [] OTHER -> c

CheckSyntax(root) ==
    Accumulated(LAMBDA c, event : IF event.kind = "visit" THEN CheckerVisit(c, event.node, event.path)
                               ELSE CheckerEndVisit(c, event.node, event.path),
             [versionPragmaFound |-> FALSE, placeholderFound |-> FALSE, inLoopDepth |-> 0, errors |-> {}],
             Walk(root)).errors

-----------------------------------------------------------------------------
(* What there is to complain about.                                        *)

\* The path of the parent and all other ancestors.
Above(path) == {SubSeq(path, 1, n) : n \in 0..(Len(path) - 1)}
RECURSIVE NodeAt(_, _)
NodeAt(root, path) == IF path = <<>> THEN root ELSE NodeAt(Children(root)[Head(path)], Tail(path))
NodesAt(root) ==
    LET visits == SelectSeq(Walk(root), LAMBDA e : e.kind = "visit") IN
    [p \in {visits[i].path : i \in DOMAIN visits} |-> NodeAt(root, p)]
SyntaxErrors(root) ==
    LET at == NodesAt(root)
        of(types) == {p \in DOMAIN at : at[p].type \in types} IN
    {[kind |-> "not in a loop", path |-> p] :
       p \in {p \in of({"Break", "Continue"}) :
                Above(p) \cap of({"WhileStatement", "ForStatement"}) = {}}}
    \cup {[kind |-> "no placeholder", path |-> p] :
            p \in {p \in of({"ModifierDefinition"}) :
                     \A q \in of({"PlaceholderStatement"}) : p \notin Above(q)}}
    \cup {[kind |-> "no version", path |-> p] :
            p \in {p \in of({"SourceUnit"}) : of({"PragmaDirective"}) = {}}}
    \cup {[kind |-> "wrong version", path |-> p] :
            p \in {p \in of({"PragmaDirective"}) : ~VersionMatches(at[p])}}
=============================================================================
