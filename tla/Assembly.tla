------------------------------ MODULE Assembly ------------------------------
(***************************************************************************)
(* libevmasm/Assembly: from assembly items to bytecode.                    *)
(*                                                                         *)
(* An assembly is a record a: a.items, a.usedTags, a.data (bytes by id),   *)
(* a.subs (assemblies).  A byte of the bytecode is an instruction or a     *)
(* digit of a number to the base Base, so that sizes and positions need    *)
(* another byte as soon as they reach Base, Base^2, ...  The bytes of the  *)
(* data are digits.                                                        *)
(***************************************************************************)
EXTENDS Evm, LinkerObject

Instr(name) == [op |-> name, v |-> 0]
PushInstr(width) == [op |-> "PUSH", v |-> width]
Digit(d) == [op |-> "digit", v |-> d]

\* dev::bytesRequired, toBigEndian (which keeps the last digits only).
MaxWidth == 8
Width(n) == Min({k \in 0..MaxWidth : n < Base ^ k})
ToBigEndian(n, width) == [i \in 1..width |-> Digit((n \div Base ^ (width - i)) % Base)]
Blank(width) == [i \in 1..width |-> Digit(0)]

\* AssemblyItem::bytesRequired.
ItemBytes(item, addressLength) ==
    CASE item.op = "PUSH" -> 1 + Max({1, Width(item.n)})
      [] item.op \in {"PUSHSUBSIZE", "PUSHPROGRAMSIZE"} -> 4
      [] item.op \in {"PUSHTAG", "PUSHDATA", "PUSHSUB"} -> 1 + addressLength
      [] item.op = "PUSHSTRING" -> 1 + WordBytes
      [] item.op = "PUSHLIB" -> 1 + AddressBytes
      [] OTHER -> 1

\* An upper bound of the size of items and data, for the smallest width of
\* addresses that is sufficient for it.
BytesWith(a, br) ==
    1 + SumFunction([d \in DOMAIN a.data |-> Len(a.data[d])])
      + SumFunction([i \in DOMAIN a.items |-> ItemBytes(a.items[i], br)])
\* Mutant: references are counted as one byte, however long the code is.
BytesRequiredNarrow(a) == BytesWith(a, 1)

BytesRequired(a) ==
    BytesWith(a, Min({br \in 1..MaxWidth : Width(BytesWith(a, br)) <= br}))

-----------------------------------------------------------------------------
(* append(Assembly).                                                       *)

Shifted(item, a) ==
    CASE item.op \in {"TAG", "PUSHTAG"} -> [item EXCEPT !.n = @ + a.usedTags]
      [] item.op \in {"PUSHSUB", "PUSHSUBSIZE"} -> [item EXCEPT !.n = @ + Len(a.subs)]
      [] OTHER -> item
AppendAssembly(a, b) ==
    [items |-> a.items \o [i \in DOMAIN b.items |-> Shifted(b.items[i], a)],
     usedTags |-> a.usedTags + b.usedTags,
     data |-> a.data @@ b.data,
     subs |-> a.subs \o b.subs]

-----------------------------------------------------------------------------
(* assemble().                                                             *)

\* The loop over the items: r.code is the bytecode so far, r.refs the link
\* references, r.tagPos the positions of the tags; r.open are the places
\* where a number is still missing: [pos, kind, n].
Patch(code, pos, n, width) ==
    [i \in DOMAIN code |->
        IF pos < i /\ i <= pos + width THEN ToBigEndian(n, width)[i - pos] ELSE code[i]]
Opening(r, item, width) ==
    [r EXCEPT !.code = Append(@, PushInstr(width)) \o Blank(width),
              !.open = Append(@, [pos |-> Len(r.code) + 1, kind |-> item.op, n |-> item.n])]
PushNumber(r, n) ==
    LET width == Max({1, Width(n)}) IN
    [r EXCEPT !.code = Append(@, PushInstr(width)) \o ToBigEndian(n, width)]

\* w.tag and w.data are the widths of references, subCode the code of the
\* sub-assemblies.
AssembleItem(r0, item, w, subCode) ==
    LET r == IF item.op # "TAG" /\ r0.tagPos[0] = 0
             THEN [r0 EXCEPT !.tagPos[0] = Len(r0.code)] ELSE r0 IN
    CASE item.op = "PUSH" -> PushNumber(r, item.n)
      [] item.op = "PUSHTAG" -> Opening(r, item, w.tag)
      [] item.op \in {"PUSHDATA", "PUSHSUB", "PUSHPROGRAMSIZE"} -> Opening(r, item, w.data)
      [] item.op = "PUSHSUBSIZE" -> PushNumber(r, Len(subCode[item.n + 1].code))
      [] item.op = "PUSHSTRING" -> [r EXCEPT !.code = Append(@, PushInstr(WordBytes)) \o Blank(WordBytes)]
      [] item.op = "PUSHLIB" ->
           [r EXCEPT !.code = Append(@, PushInstr(AddressBytes)) \o Blank(AddressBytes),
                     !.refs = ((Len(r.code) + 1) :> item.n) @@ @]
      [] item.op = "TAG" -> [r EXCEPT !.tagPos[item.n] = Len(r.code),
                                      !.code = Append(@, Instr("JUMPDEST"))]
      [] OTHER -> [r EXCEPT !.code = Append(@, Instr(item.op))]

\* All places of one kind that wait for the number n are filled.
FillIn(r, kind, n, value, width) ==
    [r EXCEPT !.code = FoldLeft(LAMBDA code, o : IF o.kind = kind /\ o.n = n
                                                 THEN Patch(code, o.pos, value, width) ELSE code,
                                r.code, r.open)]
References(r, kind) == {o.n : o \in {p \in ToSet(r.open) : p.kind = kind}}

\* A tag that does not exist stands for an invalid destination.
FillTags(r, w) ==
    FoldLeft(LAMBDA s, t : FillIn(s, "PUSHTAG", t,
                                  s.tagPos[IF t \in DOMAIN s.tagPos THEN t ELSE 0], w.tag),
             r, SetToSeq(References(r, "PUSHTAG")))
\* Sub-assemblies and data that are referred to follow the code.
PlaceSub(r, i, w, subCode) ==
    IF i - 1 \notin References(r, "PUSHSUB") THEN r
    ELSE LET filled == FillIn(r, "PUSHSUB", i - 1, Len(r.code), w.data)
             joined == AppendObject([code |-> filled.code, refs |-> r.refs], subCode[i]) IN
         [filled EXCEPT !.code = joined.code, !.refs = joined.refs]
PlaceData(r, d, w, bytes) ==
    IF d \notin References(r, "PUSHDATA") THEN r
    ELSE [FillIn(r, "PUSHDATA", d, Len(r.code), w.data) EXCEPT !.code = @ \o bytes]
Separated(r) ==
    IF References(r, "PUSHDATA") # {} /\ References(r, "PUSHSUB") # {}
    THEN [r EXCEPT !.code = Append(@, Digit(0))] ELSE r

Layout(a, w, subCode) ==
    LET items == FoldLeft(LAMBDA r, item : AssembleItem(r, item, w, subCode),
                          [code |-> <<>>, refs |-> NoObject.refs, open |-> <<>>,
                           tagPos |-> [t \in 0..(a.usedTags - 1) |-> 0]], a.items)
        subs == FoldLeft(LAMBDA r, i : PlaceSub(r, i, w, subCode), Separated(FillTags(items, w)),
                         [i \in DOMAIN a.subs |-> i])
        all == FoldLeft(LAMBDA r, d : PlaceData(r, d, w, a.data[d]), subs,
                        SetToSortSeq(DOMAIN a.data, <)) IN
    FillIn(all, "PUSHPROGRAMSIZE", 0, Len(all.code), w.data)

RECURSIVE Assemble(_)
Assemble(a) ==
    LET subCode == [i \in DOMAIN a.subs |-> Assemble(a.subs[i])]
        total == BytesRequired(a)
        w == [tag |-> Width(total),
              data |-> Width(total + SumFunction([i \in DOMAIN a.subs |-> Len(subCode[i].code)]))]
        r == Layout(a, w, subCode) IN
    [code |-> r.code, refs |-> r.refs]

-----------------------------------------------------------------------------
(* What the bytecode must be.  Positions are counted from 0.               *)

ValueOf(digits) == FoldLeft(LAMBDA s, d : Base * s + d.v, 0, digits)
SizeAt(code, pos) == IF code[pos + 1].op = "PUSH" THEN 1 + code[pos + 1].v ELSE 1
NumberAt(code, pos) == ValueOf(SubSeq(code, pos + 2, pos + SizeAt(code, pos)))
Holds(code, pos, bytes) == SubSeq(code, pos + 1, pos + Len(bytes)) = bytes

\* The position of each item, found by reading the bytecode.
PositionOf(code, i) == FoldLeft(LAMBDA pos, k : pos + SizeAt(code, pos), 0, [k \in 1..(i - 1) |-> k])

\* The item at position pos of obj means what it means in the assembly a.
MeansItem(a, obj, item, pos) ==
    LET n == NumberAt(obj.code, pos)
        tags == {k \in DOMAIN a.items : a.items[k] = Item("TAG", item.n)} IN
    CASE item.op = "PUSH" -> n = item.n
      [] item.op = "TAG" -> obj.code[pos + 1] = Instr("JUMPDEST")
      [] item.op = "PUSHTAG" ->
           IF tags = {} THEN obj.code[n + 1] # Instr("JUMPDEST")
           ELSE n = PositionOf(obj.code, Max(tags))
      [] item.op = "PUSHDATA" -> Holds(obj.code, n, a.data[item.n])
      [] item.op = "PUSHSUB" -> Holds(obj.code, n, Assemble(a.subs[item.n + 1]).code)
      [] item.op = "PUSHSUBSIZE" -> n = Len(Assemble(a.subs[item.n + 1]).code)
      [] item.op = "PUSHPROGRAMSIZE" -> n = Len(obj.code)
      [] item.op = "PUSHLIB" -> pos + 1 \in DOMAIN obj.refs /\ obj.refs[pos + 1] = item.n
      [] OTHER -> obj.code[pos + 1] = Instr(item.op)
ReferencesResolve(a) ==
    LET obj == Assemble(a) IN
    \A i \in DOMAIN a.items : MeansItem(a, obj, a.items[i], PositionOf(obj.code, i))
=============================================================================
