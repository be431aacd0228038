------------------------ MODULE NameAndTypeResolver -------------------------
(***************************************************************************)
(* libsolidity/analysis/NameAndTypeResolver with DeclarationContainer and  *)
(* the names of ReferencesResolver: which declaration a name refers to.    *)
(*                                                                         *)
(* A node is known by its path: the number of its source unit followed by  *)
(* its path in the tree.  The global scope is <<0>>, its declarations are  *)
(* <<0, 1>>, <<0, 2>> ...  The state of the resolver is                    *)
(*   at       the node at each path                                        *)
(*   scopes   m_scopes: a container for each node that opens a scope       *)
(*   shared   the importing directive's scope is that of the imported unit *)
(*   current  m_currentScope, while declarations are registered            *)
(*   lin      linearizedBaseContracts                                      *)
(*   refs     the declarations that names were found to refer to           *)
(*   errors   the places of the declaration and type errors                *)
(***************************************************************************)
EXTENDS Ast, Linearisation, TLC

CONSTANT Globals             \* the names of the global declarations

-----------------------------------------------------------------------------
(* Declarations.                                                           *)

Declares == {"ImportDirective", "ContractDefinition", "StructDefinition", "EnumDefinition", "EnumValue",
             "FunctionDefinition", "ModifierDefinition", "VariableDeclaration", "EventDefinition"}
OpensScope == Declares \ {"ImportDirective", "EnumValue", "VariableDeclaration"}
NameOf(node) == IF node.type = "ImportDirective" THEN node.attr.unitAlias ELSE node.attr.name
Visibility(node) ==
    CASE node.type = "FunctionDefinition" ->
           IF node.attr.visibility = "Default" THEN "Public" ELSE node.attr.visibility
      [] node.type = "VariableDeclaration" ->
           IF node.attr.spec.visibility = "Default" THEN "Internal" ELSE node.attr.spec.visibility
      [] OTHER -> "Public"
IsVisibleInContract(node) ==
    /\ Visibility(node) # "External"
    /\ node.type = "FunctionDefinition" => ~node.attr.isConstructor /\ node.attr.name # ""
IsVisibleInDerivedContracts(node) == IsVisibleInContract(node) /\ Visibility(node) # "Private"

IsFunction(r, decl) == decl \in DOMAIN r.at /\ r.at[decl].type = "FunctionDefinition"

-----------------------------------------------------------------------------
(* DeclarationContainer.                                                   *)

Container(enclosing) == [enclosing |-> enclosing, visible |-> <<>>, invisible |-> <<>>]
\* The declarations of a name, in the order of their registration.
DeclarationsOf(list, name) ==
    LET entries == SelectSeq(list, LAMBDA e : e.name = name) IN
    [i \in DOMAIN entries |-> entries[i].decl]
ConflictingDeclaration(r, container, decl, name) ==
    LET others == DeclarationsOf(container.visible, name) \o DeclarationsOf(container.invisible, name) IN
    IF IsFunction(r, decl) THEN \E i \in DOMAIN others : ~IsFunction(r, others[i])
    ELSE others # <<>> /\ others # <<decl>>
\* [ok, container]: whether it could be registered, and the container then.
RegisterIn(r, container, decl, name, invisible) ==
    LET list == IF invisible THEN container.invisible ELSE container.visible
        entry == [name |-> name, decl |-> decl]
        now == IF Contains(list, entry) THEN list ELSE Append(list, entry) IN
    IF name = "" THEN [ok |-> TRUE, container |-> container]
    ELSE IF ConflictingDeclaration(r, container, decl, name) THEN [ok |-> FALSE, container |-> container]
    ELSE [ok |-> TRUE, container |-> IF invisible THEN [container EXCEPT !.invisible = now]
                                     ELSE [container EXCEPT !.visible = now]]

NoScope == <<>>
ScopeOf(r, path) == IF path \in DOMAIN r.shared THEN r.shared[path] ELSE path
RECURSIVE ResolveName(_, _, _, _)
ResolveName(r, scope, name, recursive) ==
    LET container == r.scopes[scope]
        found == DeclarationsOf(container.visible, name) IN
    IF found # <<>> THEN found
    ELSE IF recursive /\ container.enclosing # NoScope THEN ResolveName(r, container.enclosing, name, TRUE)
    ELSE <<>>

-----------------------------------------------------------------------------
(* DeclarationRegistrationHelper.                                          *)

DeclError(r, path) == [r EXCEPT !.errors = @ \cup {path}]
Register(r, scope, decl, name, invisible) ==
    LET done == RegisterIn(r, r.scopes[scope], decl, name, invisible) IN
    IF done.ok THEN [r EXCEPT !.scopes[scope] = done.container] ELSE DeclError(r, decl)
NewScope(r, scope, enclosing) ==
    IF scope \in DOMAIN r.scopes THEN r ELSE [r EXCEPT !.scopes = @ @@ (scope :> Container(enclosing))]

RegisterDeclaration(r, node, path) ==
    LET known == Register(r, r.current, path, NameOf(node), ~IsVisibleInContract(node)) IN
    IF node.type \in OpensScope THEN [NewScope(known, path, r.current) EXCEPT !.current = path] ELSE known
RegistrationVisit(r, node, path, unitOf) ==
    CASE node.type = "ImportDirective" ->
           LET importee == <<unitOf[node.attr.path]>> IN
           RegisterDeclaration([NewScope(r, importee, <<0>>) EXCEPT !.shared = @ @@ (path :> importee)],
                               node, path)
      [] node.type \in Declares \ {"ImportDirective"} -> RegisterDeclaration(r, node, path)
      [] OTHER -> r
RegistrationEnd(r, node) ==
    IF node.type \in OpensScope THEN [r EXCEPT !.current = r.scopes[@].enclosing] ELSE r
RegisterDeclarations(r, unit, tree, unitOf) ==
    Accumulated(LAMBDA acc, e : IF e.kind = "visit" THEN RegistrationVisit(acc, e.node, e.path, unitOf)
                             ELSE RegistrationEnd(acc, e.node),
             [NewScope(r, <<unit>>, <<0>>) EXCEPT !.current = <<unit>>], Events(tree, <<unit>>))

-----------------------------------------------------------------------------
(* Imports.                                                                *)

RegisterImported(r, target, decls, names, import) ==
    Accumulated(LAMBDA acc, i : LET done == RegisterIn(acc, acc.scopes[target], decls[i], names[i], FALSE) IN
                             IF done.ok THEN [acc EXCEPT !.scopes[target] = done.container]
                             ELSE DeclError(acc, import),
             r, [i \in DOMAIN decls |-> i])
ImportSymbol(r, target, scope, symbol, import) ==
    LET decls == ResolveName(r, scope, symbol.symbol, FALSE)
        name == IF symbol.alias = "" THEN symbol.symbol ELSE symbol.alias IN
    IF decls = <<>> THEN DeclError(r, import)
    ELSE RegisterImported(r, target, decls, [i \in DOMAIN decls |-> name], import)
ImportInto(r, target, path) ==
    LET import == r.at[path].attr
        scope == r.shared[path]
        all == r.scopes[scope].visible IN
    IF import.symbolAliases # <<>>
    THEN Accumulated(LAMBDA acc, s : ImportSymbol(acc, target, scope, s, path), r, import.symbolAliases)
    ELSE IF import.unitAlias # "" THEN r
    ELSE RegisterImported(r, target, [i \in DOMAIN all |-> all[i].decl], [i \in DOMAIN all |-> all[i].name], path)
PerformImports(r, unit, tree) ==
    Accumulated(LAMBDA acc, i : IF tree.kids.nodes[i].type = "ImportDirective"
                             THEN ImportInto(acc, <<unit>>, <<unit, i>>) ELSE acc,
             r, [i \in DOMAIN tree.kids.nodes |-> i])

-----------------------------------------------------------------------------
(* References.                                                             *)

RECURSIVE PathIn(_, _, _)
PathIn(r, candidates, rest) ==
    IF Len(candidates) # 1 THEN NoScope
    ELSE IF rest = <<>> THEN candidates[1]
    ELSE IF ScopeOf(r, candidates[1]) \notin DOMAIN r.scopes THEN NoScope
    ELSE PathIn(r, ResolveName(r, ScopeOf(r, candidates[1]), Head(rest), FALSE), Tail(rest))
PathFromScope(r, scope, path) == PathIn(r, ResolveName(r, scope, Head(path), TRUE), Tail(path))

\* The types of the parameters; they are elementary or a name here.
ParameterTypes(r, decl) ==
    LET params == r.at[decl].kids.parameters[1].kids.parameters IN
    [i \in DOMAIN params |-> params[i].kids.typeName[1].attr]

\* Mutant: of two functions with the same parameters the last one stays.
CleanedDeclarationsLast(r, decls) ==
    SelectSeq(decls, LAMBDA d : \A j \in DOMAIN decls :
                (\E i \in 1..(j - 1) : decls[i] = d) => ParameterTypes(r, decls[j]) # ParameterTypes(r, d))

CleanedDeclarations(r, decls) ==
    Accumulated(LAMBDA unique, d :
               IF \E i \in DOMAIN unique : ParameterTypes(r, unique[i]) = ParameterTypes(r, d)
               THEN unique ELSE Append(unique, d), <<>>, decls)

Refers(r, path, decls) == [r EXCEPT !.refs = (path :> decls) @@ @]
\* One visit of ReferencesResolver; failed is the exception that ends resolve().
Reference(r, scope, node, path) ==
    LET decls == ResolveName(r, scope, node.attr.name, TRUE)
        type == PathFromScope(r, scope, node.attr.path) IN
    CASE node.type = "Identifier" ->
           IF decls = <<>> THEN [DeclError(r, path) EXCEPT !.failed = TRUE]
           ELSE Refers(r, path, IF Len(decls) = 1 THEN decls ELSE CleanedDeclarations(r, decls))
      [] node.type = "UserDefinedTypeName" ->
           IF \/ type = NoScope
              \/ type \notin DOMAIN r.at
              \/ r.at[type].type \notin {"StructDefinition", "EnumDefinition", "ContractDefinition"}
           THEN [DeclError(r, path) EXCEPT !.failed = TRUE]
           ELSE Refers(r, path, <<type>>)
      [] OTHER -> r

\* The nodes below one, code only if asked for.
RECURSIVE Visited(_, _, _)
Visited(node, path, insideCode) ==
    LET kids == Children(node) IN
    <<[node |-> node, path |-> path]>>
    \o (IF node.type = "Block" /\ ~insideCode THEN <<>>
        ELSE FlattenSeq([k \in DOMAIN kids |-> Visited(kids[k], Append(path, k), insideCode)]))
Resolve(r, scope, path, insideCode) ==
    LET done == Accumulated(LAMBDA acc, v : IF acc.failed THEN acc ELSE Reference(acc, scope, v.node, v.path),
                         r, Visited(r.at[path], path, insideCode)) IN
    [done EXCEPT !.failed = FALSE, !.success = @ /\ ~done.failed]

\* What a base contract declares and derived contracts may see.
ImportInheritedScope(r, contract, base) ==
    Accumulated(LAMBDA acc, e :
               LET done == RegisterIn(acc, acc.scopes[contract], e.decl, NameOf(acc.at[e.decl]), FALSE) IN
               IF /\ e.decl \in DOMAIN acc.at
                  /\ Front(e.decl) = base /\ IsVisibleInDerivedContracts(acc.at[e.decl])
               THEN [acc EXCEPT !.scopes[contract] = done.container] ELSE acc,
             r, r.scopes[base].visible)
WithBases(r, contract) ==
    LET specifiers == r.at[contract].kids.baseContracts
        bases == [i \in DOMAIN specifiers |-> r.refs[contract \o <<i, 1>>][1]]
        lin == LinearizeBaseContracts(contract, bases, r.lin) IN
    IF \/ \E i \in DOMAIN bases : bases[i] \notin DOMAIN r.lin
       \/ lin = <<>>
    THEN [DeclError(r, contract) EXCEPT !.success = FALSE, !.fatal = TRUE]
    ELSE Accumulated(LAMBDA acc, base : ImportInheritedScope(acc, contract, base),
                  [r EXCEPT !.lin = @ @@ (contract :> lin)], Tail(lin))

ResolveAll(r, paths, insideCode, contract) ==
    Accumulated(LAMBDA acc, p : Resolve(acc, IF p \in DOMAIN acc.scopes THEN p ELSE contract, p, insideCode), r, paths)
ResolveNamesAndTypes(r, contract) ==
    LET kids == Children(r.at[contract])
        paths(Test(_)) == SelectSeq([k \in DOMAIN kids |-> Append(contract, k)], LAMBDA p : Test(r.at[p].type))
        bases == ResolveAll([r EXCEPT !.success = TRUE, !.fatal = FALSE],
                            paths(LAMBDA t : t = "InheritanceSpecifier"), FALSE, Front(contract))
        inherited == IF bases.success THEN WithBases(bases, contract) ELSE bases
        interface == ResolveAll(inherited, paths(LAMBDA t : t # "InheritanceSpecifier"), FALSE, contract)
        code == ResolveAll(interface, paths(LAMBDA t : t = "ModifierDefinition")
                                      \o paths(LAMBDA t : t = "FunctionDefinition"), TRUE, contract) IN
    IF inherited.fatal THEN inherited ELSE IF ~interface.success THEN interface ELSE code

-----------------------------------------------------------------------------
(* All of it for some source units, as CompilerStack::parse() goes about   *)
(* it: trees[u] is unit u, unitOf the number of the unit of a path; a unit *)
(* comes after the ones it imports.                                        *)

NodesOf(trees) ==
    LET visits(u) == SelectSeq(Events(trees[u], <<u>>), LAMBDA e : e.kind = "visit")
        all == FlattenSeq([u \in DOMAIN trees |-> visits(u)]) IN
    [p \in {all[i].path : i \in DOMAIN all} |-> all[CHOOSE i \in DOMAIN all : all[i].path = p].node]
GlobalScope ==
    [Container(NoScope) EXCEPT !.visible = [i \in DOMAIN Globals |-> [name |-> Globals[i], decl |-> <<0, i>>]]]
InitialResolver(trees) ==
    [at |-> NodesOf(trees), scopes |-> (<<0>> :> GlobalScope), shared |-> [p \in {} |-> 0], current |-> <<0>>,
     lin |-> [p \in {} |-> 0], refs |-> [p \in {} |-> 0], errors |-> {}, failed |-> FALSE, success |-> TRUE,
     fatal |-> FALSE]
ContractsOf(trees) ==
    FlattenSeq([u \in DOMAIN trees |->
        LET nodes == trees[u].kids.nodes IN
        SelectSeq([i \in DOMAIN nodes |-> <<u, i>>], LAMBDA p : nodes[p[2]].type = "ContractDefinition")])
Resolved(trees, unitOf) ==
    LET units == [u \in DOMAIN trees |-> u]
        registered == Accumulated(LAMBDA r, u : RegisterDeclarations(r, u, trees[u], unitOf), InitialResolver(trees), units)
        imported == Accumulated(LAMBDA r, u : PerformImports(r, u, trees[u]), registered, units) IN
    IF imported.errors # registered.errors THEN imported
    ELSE Accumulated(LAMBDA r, c : ResolveNamesAndTypes(r, c), imported, ContractsOf(trees))
=============================================================================
