----------------------------- MODULE MCStorage -----------------------------
(* The contracts whose state variables the runs of Storage use, on slots   *)
(* of four bytes.                                                          *)
EXTENDS Storage, Bitwise

BitOr(x, y) == x | y

Unsigned(n) == [category |-> "uint", bytes |-> n]
Signed(n) == [category |-> "int", bytes |-> n]
Fixed(n) == [category |-> "fixedbytes", bytes |-> n]
Dynamic(t, bound) == [category |-> "array", base |-> t, dynamic |-> TRUE, length |-> bound, byteArray |-> FALSE]
Static(t, n) == [category |-> "array", base |-> t, dynamic |-> FALSE, length |-> n, byteArray |-> FALSE]
Bytes(bound) == [category |-> "array", base |-> Fixed(1), dynamic |-> TRUE, length |-> bound, byteArray |-> TRUE]
Mapping(t) == [category |-> "mapping", base |-> t]
Struct(members) == [category |-> "struct", members |-> members]

(* Byte arrays; arrays of one-slot items; arrays of arrays, of structs and *)
(* of static arrays of several slots; packed values of all kinds around    *)
(* structs with mappings; arrays of mappings; static arrays of different   *)
(* length; static packed arrays of different length and width; packed      *)
(* arrays, static and dynamic, with widening.                              *)
Member == Struct(<<Unsigned(1), Signed(2), Mapping(Unsigned(4))>>)

MCContracts ==
  {Struct(<<Bytes(4), Bytes(4)>>),
   Struct(<<Bytes(6)>>),
   Struct(<<Dynamic(Uint256, 3), Dynamic(Uint256, 3)>>),
   Struct(<<Dynamic(Dynamic(Uint256, 1), 2), Dynamic(Dynamic(Uint256, 1), 2)>>),
   Struct(<<Dynamic(Struct(<<Unsigned(1), Dynamic(Uint256, 1)>>), 2)>>),
   Struct(<<Dynamic(Static(Unsigned(2), 3), 2)>>),
   Struct(<<Dynamic(Static(Unsigned(2), 3), 1), Static(Static(Unsigned(2), 3), 1)>>),
   Struct(<<Dynamic(Static(Uint256, 2), 2), Static(Static(Uint256, 2), 1)>>),
   Struct(<<Unsigned(1), Member, Member, Fixed(2)>>),
   Struct(<<Static(Mapping(Uint256), 1), Static(Mapping(Uint256), 2)>>),
   Struct(<<Static(Uint256, 1), Static(Uint256, 2)>>),
   Struct(<<Static(Unsigned(2), 1), Static(Unsigned(2), 4)>>),
   Struct(<<Static(Unsigned(1), 1), Static(Unsigned(2), 1), Uint256>>),
   Struct(<<Static(Unsigned(2), 3), Dynamic(Unsigned(2), 3), Unsigned(3)>>),
   Struct(<<Static(Signed(1), 3), Dynamic(Signed(2), 4), Unsigned(1)>>)}

MCKeys == {"k"}
===========================================================================
