-------------------------- MODULE StateVariables --------------------------
(***************************************************************************)
(* What a contract's source text promises about its state variables,       *)
(* whatever their layout in storage: the value of a variable is a word     *)
(* (value types), the sequence of its elements (arrays), the tuple of its  *)
(* members (structs) or a function of the keys (mappings), and a write to  *)
(* one place changes that place only.  Module Storage has the generated    *)
(* code; its properties compare the two.                                   *)
(*                                                                         *)
(* A type is a record: "uint", "int" and "fixedbytes" have a width in      *)
(* bytes; "array" has a base type, a flag for dynamic size, a length (of a *)
(* dynamic array: the bound up to which the contract grows it) and a flag  *)
(* for bytes/string; "struct" has its members' types; "mapping" has a      *)
(* value type.                                                             *)
(***************************************************************************)
EXTENDS StorageItem

CONSTANT
  Keys            \* the mapping keys in use

ValueType(t) == t.category \in {"uint", "int", "fixedbytes"}

(* The initial value of a type: zero in all its parts. *)
RECURSIVE Initial(_)
Initial(t) ==
  CASE ValueType(t) -> ZeroWord
    [] t.category = "array" -> [i \in 1 .. (IF t.dynamic THEN 0 ELSE t.length) |-> Initial(t.base)]
    [] t.category = "struct" -> [i \in DOMAIN t.members |-> Initial(t.members[i])]
    [] t.category = "mapping" -> [k \in Keys |-> Initial(t.base)]

(* What "delete" leaves of a value: its initial value, mappings apart. *)
RECURSIVE Deleted(_, _)
Deleted(t, old) ==
  CASE t.category = "mapping" -> old
    [] t.category = "struct" -> [i \in DOMAIN t.members |-> Deleted(t.members[i], old[i])]
    [] t.category = "array" /\ ~t.dynamic -> [i \in 1 .. t.length |-> Deleted(t.base, old[i])]
    [] OTHER -> Initial(t)

(* What an assignment of value new (of a type convertible to t) leaves of  *)
(* the value old: all elements, the rest of a longer static array reset.   *)
(* Mappings, in structs and in static arrays, keep their entries.          *)
RECURSIVE Assigned(_, _, _)
Assigned(t, old, new) ==
  CASE t.category = "struct" ->
         [i \in DOMAIN t.members |->
            IF t.members[i].category = "mapping" THEN old[i]
            ELSE Assigned(t.members[i], old[i], new[i])]
    [] t.category = "array" /\ t.base.category = "mapping" -> old
    [] t.category = "array" /\ t.base.category # "mapping" ->
         [i \in 1 .. (IF t.dynamic THEN Len(new) ELSE t.length) |->
            IF i <= Len(new) THEN Assigned(t.base, Initial(t.base), new[i]) ELSE Initial(t.base)]
    [] OTHER -> new

(* The part of value v at a path of indices, member numbers and keys, and  *)
(* v with that part replaced.                                              *)
RECURSIVE At(_, _)
At(v, path) == IF path = <<>> THEN v ELSE At(v[Head(path)], Tail(path))

RECURSIVE Put(_, _, _)
Put(v, path, part) ==
  IF path = <<>> THEN part
  ELSE [v EXCEPT ![Head(path)] = Put(@, Tail(path), part)]

(* Every path into a value of type t. *)
RECURSIVE Paths(_, _)
Paths(t, v) ==
  {<<>>} \cup
  UNION {{<<i>> \o p : p \in Paths(IF t.category = "struct" THEN t.members[i] ELSE t.base, v[i])} :
         i \in IF ValueType(t) THEN {} ELSE DOMAIN v}

RECURSIVE TypeAt(_, _)
TypeAt(t, path) ==
  IF path = <<>> THEN t
  ELSE TypeAt(IF t.category = "struct" THEN t.members[Head(path)] ELSE t.base, Tail(path))
===========================================================================
