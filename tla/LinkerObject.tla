---------------------------- MODULE LinkerObject ----------------------------
(***************************************************************************)
(* libevmasm/LinkerObject: bytecode in which some addresses of libraries   *)
(* are still missing.  An object is [code, refs]; refs maps the positions  *)
(* where an address is missing (counted from 0) to libraries.              *)
(***************************************************************************)
EXTENDS Integers, Sequences, FiniteSetsExt, SequenceTheorems, TLAPS

CONSTANT AddressBytes             \* bytes of a library's address (20)

ASSUME AddressBytesAssumption == AddressBytes \in Nat \ {0}

NoObject == [code |-> <<>>, refs |-> [p \in {} |-> ""]]

\* f, and g where f says nothing.
Over(f, g) == [x \in DOMAIN f \cup DOMAIN g |-> IF x \in DOMAIN f THEN f[x] ELSE g[x]]
Moved(refs, distance) ==
    [p \in {distance + q : q \in DOMAIN refs} |-> refs[p - distance]]

\* Mutant: the references of the appended object are not moved.
AppendUnmoved(obj, other) ==
    [code |-> obj.code \o other.code, refs |-> Over(other.refs, obj.refs)]

AppendObject(obj, other) ==
    [code |-> obj.code \o other.code,
     refs |-> Over(Moved(other.refs, Len(obj.code)), obj.refs)]

\* The addresses of the known libraries are filled in, in the order of their
\* positions; addresses maps a library to its bytes.
KnownRefs(obj, addresses) == {p \in DOMAIN obj.refs : obj.refs[p] \in DOMAIN addresses}
Covering(positions, i) == {p \in positions : p < i /\ i <= p + AddressBytes}
LinkedByte(obj, addresses, i) ==
    LET at == Covering(KnownRefs(obj, addresses), i) IN
    IF at = {} THEN obj.code[i] ELSE addresses[obj.refs[Max(at)]][i - Max(at)]
Link(obj, addresses) ==
    [code |-> [i \in DOMAIN obj.code |-> LinkedByte(obj, addresses, i)],
     refs |-> [p \in DOMAIN obj.refs \ KnownRefs(obj, addresses) |-> obj.refs[p]]]

-----------------------------------------------------------------------------
(* What append and link rely on.                                           *)

\* Every missing address has its place inside the code, and no two places
\* overlap.
WellPlaced(obj) ==
    /\ DOMAIN obj.refs \subseteq Nat
    /\ \A p \in DOMAIN obj.refs : p + AddressBytes <= Len(obj.code)
    /\ \A p, q \in DOMAIN obj.refs : p < q => p + AddressBytes <= q
\* After linking, the address of the library is at pos and no reference, or,
\* if it is not known, a reference.
LinkedAt(obj, addresses, lib, pos) ==
    IF lib \in DOMAIN addresses
    THEN /\ \A i \in 1..AddressBytes : obj.code[pos + i] = addresses[lib][i]
         /\ pos \notin DOMAIN obj.refs
    ELSE pos \in DOMAIN obj.refs /\ obj.refs[pos] = lib
\* Objects whose bytes are in Bytes and whose libraries are in Libs.
Objects(Bytes, Libs) ==
    {obj \in [code : Seq(Bytes), refs : UNION {[P -> Libs] : P \in SUBSET Nat}] : WellPlaced(obj)}
\* Maps from some libraries to addresses.
AddressMaps(Bytes, Libs) ==
    UNION {[known -> [1..AddressBytes -> Bytes]] : known \in SUBSET Libs}

LEMMA ObjectParts ==
    ASSUME NEW Bytes, NEW Libs, NEW obj \in Objects(Bytes, Libs)
    PROVE  /\ obj = [code |-> obj.code, refs |-> obj.refs]
           /\ obj.code \in Seq(Bytes)
           /\ Len(obj.code) \in Nat
           /\ DOMAIN obj.code = 1..Len(obj.code)
           /\ obj.refs \in [DOMAIN obj.refs -> Libs]
           /\ DOMAIN obj.refs \subseteq Nat
           /\ WellPlaced(obj)
<1>1. obj \in [code : Seq(Bytes), refs : UNION {[P -> Libs] : P \in SUBSET Nat}] /\ WellPlaced(obj)
  BY DEF Objects
<1>2. PICK P \in SUBSET Nat : obj.refs \in [P -> Libs]
  BY <1>1
<1>3. obj = [code |-> obj.code, refs |-> obj.refs] /\ obj.code \in Seq(Bytes)
  BY <1>1
<1> QED
  BY <1>1, <1>2, <1>3, LenProperties

LEMMA MakeObject ==
    ASSUME NEW Bytes, NEW Libs, NEW code \in Seq(Bytes), NEW P \in SUBSET Nat, NEW refs \in [P -> Libs],
           WellPlaced([code |-> code, refs |-> refs])
    PROVE  [code |-> code, refs |-> refs] \in Objects(Bytes, Libs)
BY DEF Objects

LEMMA AddressParts ==
    ASSUME NEW Bytes, NEW Libs, NEW m \in AddressMaps(Bytes, Libs)
    PROVE  /\ DOMAIN m \subseteq Libs
           /\ m \in [DOMAIN m -> [1..AddressBytes -> Bytes]]
BY DEF AddressMaps

\* Two objects with the same bytes and the same references are equal.
LEMMA SameObject ==
    ASSUME NEW Bytes, NEW Libs, NEW a \in Objects(Bytes, Libs), NEW b \in Objects(Bytes, Libs),
           Len(a.code) = Len(b.code), \A i \in 1..Len(a.code) : a.code[i] = b.code[i],
           DOMAIN a.refs = DOMAIN b.refs, \A p \in DOMAIN a.refs : a.refs[p] = b.refs[p]
    PROVE  a = b
<1>1. a.code = b.code
  BY ObjectParts, SeqEqual
<1>2. a.refs = b.refs
  <2>1. a.refs \in [DOMAIN a.refs -> Libs] /\ b.refs \in [DOMAIN a.refs -> Libs]
    BY ObjectParts
  <2> QED
    BY <2>1
<1>3. a = [code |-> a.code, refs |-> a.refs] /\ b = [code |-> b.code, refs |-> b.refs]
  BY ObjectParts
<1> QED
  BY <1>1, <1>2, <1>3

\* A byte belongs to the place of at most one address, so that the order in
\* which link() fills them in does not matter.
LEMMA OnePlace ==
    ASSUME NEW obj, WellPlaced(obj), NEW P \in SUBSET DOMAIN obj.refs, NEW i \in Nat,
           NEW p \in Covering(P, i)
    PROVE  Covering(P, i) = {p} /\ Max(Covering(P, i)) = p
<1>1. Covering(P, i) = {p}
  BY AddressBytesAssumption DEF WellPlaced, Covering
<1>2. p \in Int
  BY DEF WellPlaced, Covering
<1> QED
  BY <1>1, <1>2 DEF Max

-----------------------------------------------------------------------------
(* append                                                                  *)

LEMMA MovedParts ==
    ASSUME NEW refs, DOMAIN refs \subseteq Nat, NEW d \in Nat
    PROVE  /\ DOMAIN Moved(refs, d) = {d + q : q \in DOMAIN refs}
           /\ \A q \in DOMAIN refs : Moved(refs, d)[d + q] = refs[q]
           /\ \A p \in DOMAIN Moved(refs, d) : p >= d /\ p \in Nat
<1>1. DOMAIN Moved(refs, d) = {d + q : q \in DOMAIN refs}
  BY DEF Moved
<1>2. \A p \in {d + q : q \in DOMAIN refs} : Moved(refs, d)[p] = refs[p - d]
  BY DEF Moved
<1>3. ASSUME NEW q \in DOMAIN refs PROVE Moved(refs, d)[d + q] = refs[q]
  <2>1. d + q \in {d + r : r \in DOMAIN refs}
    OBVIOUS
  <2>2. (d + q) - d = q
    OBVIOUS
  <2> QED
    BY <1>2, <2>1, <2>2
<1>4. \A p \in {d + q : q \in DOMAIN refs} : p >= d /\ p \in Nat
  OBVIOUS
<1> QED
  BY <1>1, <1>3, <1>4

IsOver(h, f, g) ==
    /\ DOMAIN h = DOMAIN f \cup DOMAIN g
    /\ \A x \in DOMAIN f : h[x] = f[x]
    /\ \A x \in DOMAIN g \ DOMAIN f : h[x] = g[x]
    /\ h = [x \in DOMAIN h |-> h[x]]
LEMMA OverParts ==
    ASSUME NEW f, NEW g
    PROVE  IsOver(Over(f, g), f, g)
BY DEF Over, IsOver

\* s followed by t, by positions.
IsConcat(u, s, t) ==
    /\ Len(u) = Len(s) + Len(t)
    /\ \A i \in 1..Len(s) : u[i] = s[i]
    /\ \A i \in 1..Len(t) : u[Len(s) + i] = t[i]
LEMMA ConcatParts ==
    ASSUME NEW S, NEW s \in Seq(S), NEW t \in Seq(S)
    PROVE  s \o t \in Seq(S) /\ IsConcat(s \o t, s, t)
<1>1. PICK n, m, u : n = Len(s) /\ m = Len(t) /\ u = s \o t
  OBVIOUS
<1>2. n \in Nat /\ m \in Nat
  BY <1>1, LenProperties
<1>3. /\ u \in Seq(S) /\ Len(u) = n + m
      /\ \A i \in 1..(n + m) : u[i] = IF i <= n THEN s[i] ELSE t[i - n]
  BY <1>1, ConcatProperties
<1>4. ASSUME NEW i \in 1..n PROVE u[i] = s[i]
  <2>1. i \in 1..(n + m) /\ i <= n
    BY <1>2
  <2> QED
    BY <1>3, <2>1
<1>5. ASSUME NEW i \in 1..m PROVE u[n + i] = t[i]
  <2>1. n + i \in 1..(n + m) /\ ~(n + i <= n) /\ (n + i) - n = i
    BY <1>2
  <2> QED
    BY <1>3, <2>1
<1> QED
  BY <1>1, <1>3, <1>4, <1>5 DEF IsConcat

\* The appended object's references, and the bytes in their places, move
\* together; those already there stay.
Appended(r, a, b, n) ==
    /\ IsConcat(r.code, a.code, b.code)
    /\ DOMAIN r.refs = DOMAIN a.refs \cup {n + q : q \in DOMAIN b.refs}
    /\ \A p \in DOMAIN a.refs : r.refs[p] = a.refs[p]
    /\ \A q \in DOMAIN b.refs : r.refs[n + q] = b.refs[q]
    /\ r = [code |-> r.code, refs |-> r.refs]
    /\ r.refs = [p \in DOMAIN r.refs |-> r.refs[p]]
LEMMA AppendParts ==
    ASSUME NEW Bytes, NEW Libs, NEW a \in Objects(Bytes, Libs), NEW b \in Objects(Bytes, Libs)
    PROVE  AppendObject(a, b).code \in Seq(Bytes) /\ Appended(AppendObject(a, b), a, b, Len(a.code))
<1>0. PICK r, n : r = AppendObject(a, b) /\ n = Len(a.code)
  OBVIOUS
<1>1. /\ a.code \in Seq(Bytes) /\ b.code \in Seq(Bytes) /\ n \in Nat
      /\ DOMAIN a.refs \subseteq Nat /\ DOMAIN b.refs \subseteq Nat
      /\ \A p \in DOMAIN a.refs : p + AddressBytes <= n
  BY <1>0, ObjectParts DEF WellPlaced
<1>2. /\ r.code = a.code \o b.code /\ r.refs = Over(Moved(b.refs, n), a.refs)
      /\ r = [code |-> r.code, refs |-> r.refs]
  BY <1>0 DEF AppendObject
<1>3. r.code \in Seq(Bytes) /\ IsConcat(r.code, a.code, b.code)
  BY <1>1, <1>2, ConcatParts
<1>4. PICK moved : moved = Moved(b.refs, n)
  OBVIOUS
<1>5. /\ DOMAIN moved = {n + q : q \in DOMAIN b.refs}
      /\ \A q \in DOMAIN b.refs : moved[n + q] = b.refs[q]
      /\ \A p \in DOMAIN moved : p >= n /\ p \in Nat
  BY <1>1, <1>4, MovedParts
<1>6. \A p \in DOMAIN a.refs : p \notin DOMAIN moved
  BY <1>1, <1>5, AddressBytesAssumption
<1>7. IsOver(r.refs, moved, a.refs)
  BY <1>2, <1>4, OverParts
<1>8. /\ DOMAIN r.refs = DOMAIN moved \cup DOMAIN a.refs
      /\ \A p \in DOMAIN moved : r.refs[p] = moved[p]
      /\ \A p \in DOMAIN a.refs \ DOMAIN moved : r.refs[p] = a.refs[p]
      /\ r.refs = [p \in DOMAIN r.refs |-> r.refs[p]]
  BY <1>7 DEF IsOver
<1>9. ASSUME NEW q \in DOMAIN b.refs PROVE r.refs[n + q] = b.refs[q]
  <2>1. n + q \in DOMAIN moved
    BY <1>5
  <2> QED
    BY <1>5, <1>8, <2>1
<1>10. Appended(r, a, b, n)
  <2>1. \A p \in DOMAIN a.refs : r.refs[p] = a.refs[p]
    BY <1>6, <1>8
  <2> QED
    BY <1>2, <1>3, <1>5, <1>8, <1>9, <2>1, Zenon DEF Appended
<1> QED
  BY <1>0, <1>3, <1>10

\* append() makes an object of two objects: no two places overlap.
THEOREM AppendKeepsPlaces ==
    ASSUME NEW Bytes, NEW Libs, NEW a \in Objects(Bytes, Libs), NEW b \in Objects(Bytes, Libs)
    PROVE  AppendObject(a, b) \in Objects(Bytes, Libs)
<1>0. PICK r, n : r = AppendObject(a, b) /\ n = Len(a.code)
  OBVIOUS
<1>1. /\ n \in Nat /\ Len(b.code) \in Nat
      /\ a.refs \in [DOMAIN a.refs -> Libs] /\ b.refs \in [DOMAIN b.refs -> Libs]
      /\ WellPlaced(a) /\ WellPlaced(b)
  BY <1>0, ObjectParts
<1>a. r.code \in Seq(Bytes) /\ Appended(r, a, b, n)
  BY <1>0, AppendParts
<1>2. /\ r.code \in Seq(Bytes) /\ Len(r.code) = n + Len(b.code)
      /\ DOMAIN r.refs = DOMAIN a.refs \cup {n + q : q \in DOMAIN b.refs}
      /\ \A p \in DOMAIN a.refs : r.refs[p] = a.refs[p]
      /\ \A q \in DOMAIN b.refs : r.refs[n + q] = b.refs[q]
      /\ r = [code |-> r.code, refs |-> r.refs]
      /\ r.refs = [p \in DOMAIN r.refs |-> r.refs[p]]
  BY <1>0, <1>a, Zenon DEF Appended, IsConcat
<1>3. DOMAIN r.refs \in SUBSET Nat
  BY <1>1, <1>2 DEF WellPlaced
<1>4. r.refs \in [DOMAIN r.refs -> Libs]
  <2>1. ASSUME NEW p \in DOMAIN r.refs PROVE r.refs[p] \in Libs
    BY <1>1, <1>2
  <2> QED
    BY <1>2, <2>1
<1>e. PICK m \in Nat : m = Len(b.code)
  BY <1>1
<1>f. \A p \in DOMAIN r.refs : \/ p \in DOMAIN a.refs /\ p \in Nat /\ p + AddressBytes <= n
                               \/ \E q \in DOMAIN b.refs : p = n + q /\ q \in Nat /\ q + AddressBytes <= m
  BY <1>0, <1>1, <1>2, <1>e DEF WellPlaced
<1>5. \A p \in DOMAIN r.refs : p + AddressBytes <= Len(r.code)
  BY <1>1, <1>2, <1>e, <1>f, AddressBytesAssumption
<1>6. ASSUME NEW p \in DOMAIN r.refs, NEW q \in DOMAIN r.refs, p < q PROVE p + AddressBytes <= q
  <2>1. CASE p \in DOMAIN a.refs /\ q \in DOMAIN a.refs
    BY <1>1, <1>6, <2>1 DEF WellPlaced
  <2>2. CASE p \notin DOMAIN a.refs
    <3>1. PICK s \in DOMAIN b.refs : p = n + s /\ s \in Nat
      BY <1>f, <2>2
    <3>2. \/ q \in Nat /\ q + AddressBytes <= n
          \/ \E t \in DOMAIN b.refs : q = n + t /\ t \in Nat
      BY <1>f
    <3>3. PICK t \in DOMAIN b.refs : q = n + t /\ t \in Nat
      BY <1>1, <1>6, <3>1, <3>2, AddressBytesAssumption
    <3>4. s < t
      BY <1>1, <1>6, <3>1, <3>3
    <3>5. s + AddressBytes <= t
      BY <1>1, <3>4 DEF WellPlaced
    <3> QED
      BY <1>1, <3>1, <3>3, <3>5, AddressBytesAssumption
  <2>3. CASE p \in DOMAIN a.refs /\ q \notin DOMAIN a.refs
    <3>1. PICK t \in DOMAIN b.refs : q = n + t /\ t \in Nat
      BY <1>f, <2>3
    <3>2. p \in Nat /\ p + AddressBytes <= n
      BY <1>0, <1>1, <2>3 DEF WellPlaced
    <3> QED
      BY <1>1, <3>1, <3>2, AddressBytesAssumption
  <2> QED
    BY <2>1, <2>2, <2>3
<1>7. WellPlaced(r)
  BY <1>3, <1>5, <1>6 DEF WellPlaced
<1>8. r = [code |-> r.code, refs |-> r.refs]
  BY <1>2
<1>9. [code |-> r.code, refs |-> r.refs] \in Objects(Bytes, Libs)
  <2>1. WellPlaced([code |-> r.code, refs |-> r.refs]) /\ r.code \in Seq(Bytes)
    BY <1>2, <1>7, <1>8
  <2> QED
    BY <1>3, <1>4, <2>1, MakeObject, Zenon
<1> QED
  BY <1>0, <1>8, <1>9

-----------------------------------------------------------------------------
(* link                                                                    *)

Covers(p, i) == p < i /\ i <= p + AddressBytes

\* A byte in the place of a known library is that byte of its address, and
\* no other byte changes.
LEMMA LinkBytes ==
    ASSUME NEW Bytes, NEW Libs, NEW obj \in Objects(Bytes, Libs), NEW m \in AddressMaps(Bytes, Libs),
           NEW i \in 1..Len(obj.code)
    PROVE  /\ \A p \in KnownRefs(obj, m) : Covers(p, i) => LinkedByte(obj, m, i) = m[obj.refs[p]][i - p]
           /\ (\A p \in KnownRefs(obj, m) : ~Covers(p, i)) => LinkedByte(obj, m, i) = obj.code[i]
           /\ LinkedByte(obj, m, i) \in Bytes
<1>1. PICK K : K = KnownRefs(obj, m)
  OBVIOUS
<1>2. /\ K \in SUBSET DOMAIN obj.refs /\ WellPlaced(obj) /\ i \in Nat
      /\ obj.code \in Seq(Bytes) /\ DOMAIN obj.refs \subseteq Nat
  BY <1>1, ObjectParts DEF KnownRefs
<1>3. ASSUME NEW p \in K, Covers(p, i)
      PROVE  LinkedByte(obj, m, i) = m[obj.refs[p]][i - p] /\ LinkedByte(obj, m, i) \in Bytes
  <2>1. p \in Covering(K, i)
    BY <1>3 DEF Covering, Covers
  <2>2. Covering(K, i) # {} /\ Max(Covering(K, i)) = p
    BY <1>2, <2>1, OnePlace
  <2>3. LinkedByte(obj, m, i) = m[obj.refs[p]][i - p]
    BY <1>1, <2>2 DEF LinkedByte
  <2>4. i - p \in 1..AddressBytes
    BY <1>2, <1>3, AddressBytesAssumption DEF Covers
  <2>5. m[obj.refs[p]] \in [1..AddressBytes -> Bytes]
    BY <1>1, AddressParts DEF KnownRefs
  <2> QED
    BY <2>3, <2>4, <2>5
<1>4. ASSUME \A p \in K : ~Covers(p, i)
      PROVE  LinkedByte(obj, m, i) = obj.code[i] /\ LinkedByte(obj, m, i) \in Bytes
  <2>1. Covering(K, i) = {}
    BY <1>4 DEF Covering, Covers
  <2>2. LinkedByte(obj, m, i) = obj.code[i]
    BY <1>1, <2>1 DEF LinkedByte
  <2> QED
    BY <1>2, <2>2, ElementOfSeq
<1> QED
  BY <1>1, <1>3, <1>4

\* r is obj with the addresses m filled in, by bytes and references.
IsLinked(r, obj, m) ==
    /\ Len(r.code) = Len(obj.code)
    /\ \A i \in 1..Len(obj.code) : r.code[i] = LinkedByte(obj, m, i)
    /\ DOMAIN r.refs = DOMAIN obj.refs \ KnownRefs(obj, m)
    /\ \A p \in DOMAIN r.refs : r.refs[p] = obj.refs[p]
LEMMA LinkParts ==
    ASSUME NEW Bytes, NEW Libs, NEW obj \in Objects(Bytes, Libs), NEW m \in AddressMaps(Bytes, Libs)
    PROVE  Link(obj, m) \in Objects(Bytes, Libs) /\ IsLinked(Link(obj, m), obj, m)
<1>1. PICK n : n = Len(obj.code)
  OBVIOUS
<1>2. /\ n \in Nat /\ DOMAIN obj.code = 1..n /\ WellPlaced(obj)
      /\ obj.refs \in [DOMAIN obj.refs -> Libs] /\ DOMAIN obj.refs \subseteq Nat
  BY <1>1, ObjectParts
<1>3. PICK c, f : c = Link(obj, m).code /\ f = Link(obj, m).refs
  OBVIOUS
<1>4. /\ c = [i \in 1..n |-> LinkedByte(obj, m, i)]
      /\ f = [p \in DOMAIN obj.refs \ KnownRefs(obj, m) |-> obj.refs[p]]
      /\ Link(obj, m) = [code |-> c, refs |-> f]
  BY <1>2, <1>3 DEF Link
<1>5. \A i \in 1..n : LinkedByte(obj, m, i) \in Bytes
  BY <1>1, LinkBytes
<1>6. c \in Seq(Bytes) /\ Len(c) = n
  BY <1>2, <1>4, <1>5
<1>7. /\ DOMAIN f \in SUBSET Nat /\ DOMAIN f \subseteq DOMAIN obj.refs
      /\ f \in [DOMAIN f -> Libs]
  BY <1>2, <1>4
<1>8. WellPlaced([code |-> c, refs |-> f])
  BY <1>1, <1>2, <1>6, <1>7 DEF WellPlaced
<1>9. Link(obj, m) \in Objects(Bytes, Libs)
  <2>1. Link(obj, m) = [code |-> c, refs |-> f]
    BY <1>4
  <2> QED
    BY <1>6, <1>7, <1>8, <2>1, MakeObject
<1>10. IsLinked([code |-> c, refs |-> f], obj, m)
  BY <1>1, <1>4, <1>6 DEF IsLinked
<1> QED
  BY <1>4, <1>9, <1>10

\* link() puts the address of every known library into its place, leaves
\* the other references, and does not disturb an address already there.
THEOREM LinkFillsIn ==
    ASSUME NEW Bytes, NEW Libs, NEW obj \in Objects(Bytes, Libs), NEW m \in AddressMaps(Bytes, Libs),
           NEW p \in DOMAIN obj.refs
    PROVE  LinkedAt(Link(obj, m), m, obj.refs[p], p)
<1>1. PICK r, n : r = Link(obj, m) /\ n = Len(obj.code)
  OBVIOUS
<1>2. /\ \A i \in 1..n : r.code[i] = LinkedByte(obj, m, i)
      /\ DOMAIN r.refs = DOMAIN obj.refs \ KnownRefs(obj, m)
      /\ \A q \in DOMAIN r.refs : r.refs[q] = obj.refs[q]
  <2>1. IsLinked(r, obj, m)
    BY <1>1, LinkParts
  <2> QED
    BY <1>1, <2>1 DEF IsLinked
<1>3. n \in Nat /\ p \in Nat /\ p + AddressBytes <= n
  BY <1>1, ObjectParts DEF WellPlaced
<1>4. CASE obj.refs[p] \in DOMAIN m
  <2>1. p \in KnownRefs(obj, m)
    BY <1>4 DEF KnownRefs
  <2>2. ASSUME NEW i \in 1..AddressBytes PROVE r.code[p + i] = m[obj.refs[p]][i]
    <3>1. p + i \in 1..n /\ Covers(p, p + i) /\ (p + i) - p = i
      BY <1>3, AddressBytesAssumption DEF Covers
    <3>2. LinkedByte(obj, m, p + i) = m[obj.refs[p]][(p + i) - p]
      BY <1>1, <2>1, <3>1, LinkBytes
    <3> QED
      BY <1>2, <3>1, <3>2
  <2> QED
    BY <1>1, <1>2, <1>4, <2>1, <2>2 DEF LinkedAt
<1>5. CASE obj.refs[p] \notin DOMAIN m
  BY <1>1, <1>2, <1>5 DEF LinkedAt, KnownRefs
<1> QED
  BY <1>4, <1>5

\* Outside the places of known libraries link() changes nothing: neither
\* code nor the places of libraries that are not known yet.
THEOREM LinkKeepsTheRest ==
    ASSUME NEW Bytes, NEW Libs, NEW obj \in Objects(Bytes, Libs), NEW m \in AddressMaps(Bytes, Libs),
           NEW i \in 1..Len(obj.code),
           \A p \in DOMAIN obj.refs : Covers(p, i) => obj.refs[p] \notin DOMAIN m
    PROVE  Link(obj, m).code[i] = obj.code[i]
<1>1. \A p \in KnownRefs(obj, m) : ~Covers(p, i)
  BY DEF KnownRefs
<1>2. IsLinked(Link(obj, m), obj, m)
  BY LinkParts
<1>3. Link(obj, m).code[i] = LinkedByte(obj, m, i)
  BY <1>2 DEF IsLinked
<1> QED
  BY <1>1, <1>3, LinkBytes

LEMMA OverMaps ==
    ASSUME NEW Bytes, NEW Libs, NEW m \in AddressMaps(Bytes, Libs), NEW n \in AddressMaps(Bytes, Libs)
    PROVE  Over(m, n) \in AddressMaps(Bytes, Libs)
<1>1. PICK h : h = Over(m, n)
  OBVIOUS
<1>2. IsOver(h, m, n)
  BY <1>1, OverParts
<1>3. DOMAIN h \in SUBSET Libs /\ h = [x \in DOMAIN h |-> h[x]]
  BY <1>2, AddressParts DEF IsOver
<1>4. \A x \in DOMAIN h : h[x] \in [1..AddressBytes -> Bytes]
  BY <1>2, AddressParts DEF IsOver
<1>5. h \in [DOMAIN h -> [1..AddressBytes -> Bytes]]
  BY <1>3, <1>4
<1> QED
  BY <1>1, <1>3, <1>5 DEF AddressMaps

\* Linking in two steps is linking at once: link() may be called whenever
\* addresses become known, and the second call finds what the first left.
THEOREM LinkTwice ==
    ASSUME NEW Bytes, NEW Libs, NEW obj \in Objects(Bytes, Libs),
           NEW m \in AddressMaps(Bytes, Libs), NEW n \in AddressMaps(Bytes, Libs)
    PROVE  Link(Link(obj, m), n) = Link(obj, Over(m, n))
<1>1. PICK mn, once, twice, both :
        mn = Over(m, n) /\ once = Link(obj, m) /\ twice = Link(once, n) /\ both = Link(obj, mn)
  OBVIOUS
<1>2. mn \in AddressMaps(Bytes, Libs)
  BY <1>1, OverMaps
<1>3. /\ DOMAIN mn = DOMAIN m \cup DOMAIN n
      /\ \A x \in DOMAIN m : mn[x] = m[x]
      /\ \A x \in DOMAIN n \ DOMAIN m : mn[x] = n[x]
  <2>1. IsOver(mn, m, n)
    BY <1>1, OverParts
  <2> QED
    BY <2>1 DEF IsOver
<1>4. PICK L : L = Len(obj.code)
  OBVIOUS
<1>5. /\ once \in Objects(Bytes, Libs) /\ Len(once.code) = L
      /\ \A i \in 1..L : once.code[i] = LinkedByte(obj, m, i)
      /\ DOMAIN once.refs = DOMAIN obj.refs \ KnownRefs(obj, m)
      /\ \A p \in DOMAIN once.refs : once.refs[p] = obj.refs[p]
  <2>1. once \in Objects(Bytes, Libs) /\ IsLinked(once, obj, m)
    BY <1>1, LinkParts
  <2> QED
    BY <1>4, <2>1 DEF IsLinked
<1>6. /\ twice \in Objects(Bytes, Libs) /\ Len(twice.code) = L
      /\ \A i \in 1..L : twice.code[i] = LinkedByte(once, n, i)
      /\ DOMAIN twice.refs = DOMAIN once.refs \ KnownRefs(once, n)
      /\ \A p \in DOMAIN twice.refs : twice.refs[p] = once.refs[p]
  <2>1. twice \in Objects(Bytes, Libs) /\ IsLinked(twice, once, n)
    BY <1>1, <1>5, LinkParts
  <2> QED
    BY <1>5, <2>1 DEF IsLinked
<1>7. /\ both \in Objects(Bytes, Libs) /\ Len(both.code) = L
      /\ \A i \in 1..L : both.code[i] = LinkedByte(obj, mn, i)
      /\ DOMAIN both.refs = DOMAIN obj.refs \ KnownRefs(obj, mn)
      /\ \A p \in DOMAIN both.refs : both.refs[p] = obj.refs[p]
  <2>1. both \in Objects(Bytes, Libs) /\ IsLinked(both, obj, mn)
    BY <1>1, <1>2, LinkParts
  <2> QED
    BY <1>4, <2>1 DEF IsLinked
<1>8. /\ KnownRefs(obj, mn) = KnownRefs(obj, m) \cup KnownRefs(once, n)
      /\ \A p \in KnownRefs(once, n) : obj.refs[p] \in DOMAIN n \ DOMAIN m /\ once.refs[p] = obj.refs[p]
  BY <1>3, <1>5 DEF KnownRefs
<1>9. ASSUME NEW i \in 1..L PROVE twice.code[i] = both.code[i]
  <2>1. /\ \A p \in KnownRefs(obj, m) : Covers(p, i) => LinkedByte(obj, m, i) = m[obj.refs[p]][i - p]
        /\ (\A p \in KnownRefs(obj, m) : ~Covers(p, i)) => LinkedByte(obj, m, i) = obj.code[i]
    BY <1>4, LinkBytes
  <2>2. /\ \A p \in KnownRefs(once, n) : Covers(p, i) => LinkedByte(once, n, i) = n[once.refs[p]][i - p]
        /\ (\A p \in KnownRefs(once, n) : ~Covers(p, i)) => LinkedByte(once, n, i) = once.code[i]
    BY <1>5, LinkBytes
  <2>3. /\ \A p \in KnownRefs(obj, mn) : Covers(p, i) => LinkedByte(obj, mn, i) = mn[obj.refs[p]][i - p]
        /\ (\A p \in KnownRefs(obj, mn) : ~Covers(p, i)) => LinkedByte(obj, mn, i) = obj.code[i]
    BY <1>2, <1>4, LinkBytes
  <2>4. CASE \E p \in KnownRefs(obj, m) : Covers(p, i)
    <3>1. PICK p \in KnownRefs(obj, m) : Covers(p, i)
      BY <2>4
    <3>2. \A q \in KnownRefs(once, n) : ~Covers(q, i)
      <4> SUFFICES ASSUME NEW q \in KnownRefs(once, n), Covers(q, i) PROVE FALSE
        OBVIOUS
      <4>1. q \in DOMAIN obj.refs /\ p \in DOMAIN obj.refs /\ q # p
        BY <1>5 DEF KnownRefs
      <4>2. p \in Covering(DOMAIN obj.refs, i) /\ q \in Covering(DOMAIN obj.refs, i)
        BY <3>1, <4>1 DEF Covers, Covering
      <4>3. WellPlaced(obj) /\ i \in Nat
        BY <1>4, ObjectParts
      <4> QED
        BY <4>1, <4>2, <4>3, OnePlace
    <3>3. obj.refs[p] \in DOMAIN m
      BY DEF KnownRefs
    <3>4. twice.code[i] = m[obj.refs[p]][i - p]
      BY <1>5, <1>6, <2>1, <2>2, <3>1, <3>2
    <3>5. both.code[i] = mn[obj.refs[p]][i - p]
      BY <1>7, <1>8, <2>3, <3>1
    <3> QED
      BY <1>3, <3>3, <3>4, <3>5
  <2>5. CASE \E p \in KnownRefs(once, n) : Covers(p, i)
    <3>1. PICK p \in KnownRefs(once, n) : Covers(p, i)
      BY <2>5
    <3>2. twice.code[i] = n[obj.refs[p]][i - p]
      BY <1>6, <1>8, <2>2, <3>1
    <3>3. both.code[i] = mn[obj.refs[p]][i - p]
      BY <1>7, <1>8, <2>3, <3>1
    <3> QED
      BY <1>3, <1>8, <3>2, <3>3
  <2>6. CASE \A p \in KnownRefs(obj, mn) : ~Covers(p, i)
    BY <1>5, <1>6, <1>7, <1>8, <2>1, <2>2, <2>3, <2>6
  <2> QED
    BY <1>8, <2>4, <2>5, <2>6
<1>10. DOMAIN twice.refs = DOMAIN both.refs
  BY <1>5, <1>6, <1>7, <1>8
<1>11. \A p \in DOMAIN twice.refs : twice.refs[p] = both.refs[p]
  BY <1>5, <1>6, <1>7, <1>10
<1>12. twice = both
  <2>1. /\ twice \in Objects(Bytes, Libs) /\ both \in Objects(Bytes, Libs)
        /\ Len(twice.code) = Len(both.code)
        /\ \A i \in 1..Len(twice.code) : twice.code[i] = both.code[i]
    BY <1>6, <1>7, <1>9
  <2> QED
    BY <2>1, <1>10, <1>11, SameObject, Zenon
<1> QED
  BY <1>1, <1>12

LEMMA KnownAppended ==
    ASSUME NEW Bytes, NEW Libs, NEW a \in Objects(Bytes, Libs), NEW b \in Objects(Bytes, Libs),
           NEW m, NEW r, NEW n, Appended(r, a, b, n)
    PROVE  KnownRefs(r, m) = KnownRefs(a, m) \cup {n + q : q \in KnownRefs(b, m)}
<1>1. /\ DOMAIN r.refs = DOMAIN a.refs \cup {n + q : q \in DOMAIN b.refs}
      /\ \A p \in DOMAIN a.refs : r.refs[p] = a.refs[p]
      /\ \A q \in DOMAIN b.refs : r.refs[n + q] = b.refs[q]
  BY DEF Appended
<1>2. ASSUME NEW p \in KnownRefs(r, m) PROVE p \in KnownRefs(a, m) \cup {n + q : q \in KnownRefs(b, m)}
  BY <1>1 DEF KnownRefs
<1>3. ASSUME NEW p \in KnownRefs(a, m) PROVE p \in KnownRefs(r, m)
  BY <1>1 DEF KnownRefs
<1>4. ASSUME NEW q \in KnownRefs(b, m) PROVE n + q \in KnownRefs(r, m)
  BY <1>1 DEF KnownRefs
<1> QED
  BY <1>2, <1>3, <1>4

\* It does not matter whether a sub-assembly's object is linked before or
\* after it is appended to the code that contains it.
THEOREM LinkOfAppended ==
    ASSUME NEW Bytes, NEW Libs, NEW a \in Objects(Bytes, Libs), NEW b \in Objects(Bytes, Libs),
           NEW m \in AddressMaps(Bytes, Libs)
    PROVE  Link(AppendObject(a, b), m) = AppendObject(Link(a, m), Link(b, m))
<1>1. PICK r, la, lb, linked, joined :
        /\ r = AppendObject(a, b) /\ la = Link(a, m) /\ lb = Link(b, m)
        /\ linked = Link(r, m) /\ joined = AppendObject(la, lb)
  OBVIOUS
<1>2. PICK n, k : n = Len(a.code) /\ k = Len(b.code)
  OBVIOUS
<1>3. /\ n \in Nat /\ k \in Nat
      /\ \A p \in DOMAIN a.refs : p \in Nat /\ p + AddressBytes <= n
      /\ \A q \in DOMAIN b.refs : q \in Nat /\ q + AddressBytes <= k
  BY <1>2, ObjectParts DEF WellPlaced
<1>4. r \in Objects(Bytes, Libs) /\ Appended(r, a, b, n)
  BY <1>1, <1>2, AppendParts, AppendKeepsPlaces
<1>5. /\ la \in Objects(Bytes, Libs) /\ Len(la.code) = n
      /\ \A i \in 1..n : la.code[i] = LinkedByte(a, m, i)
      /\ DOMAIN la.refs = DOMAIN a.refs \ KnownRefs(a, m)
      /\ \A p \in DOMAIN la.refs : la.refs[p] = a.refs[p]
  <2>1. la \in Objects(Bytes, Libs) /\ IsLinked(la, a, m)
    BY <1>1, LinkParts
  <2> QED
    BY <1>2, <2>1 DEF IsLinked
<1>6. /\ lb \in Objects(Bytes, Libs) /\ Len(lb.code) = k
      /\ \A i \in 1..k : lb.code[i] = LinkedByte(b, m, i)
      /\ DOMAIN lb.refs = DOMAIN b.refs \ KnownRefs(b, m)
      /\ \A p \in DOMAIN lb.refs : lb.refs[p] = b.refs[p]
  <2>1. lb \in Objects(Bytes, Libs) /\ IsLinked(lb, b, m)
    BY <1>1, LinkParts
  <2> QED
    BY <1>2, <2>1 DEF IsLinked
<1>7. joined \in Objects(Bytes, Libs) /\ Appended(joined, la, lb, n)
  BY <1>1, <1>5, <1>6, AppendParts, AppendKeepsPlaces
<1>8. /\ Len(r.code) = n + k
      /\ \A i \in 1..n : r.code[i] = a.code[i]
      /\ \A i \in 1..k : r.code[n + i] = b.code[i]
      /\ DOMAIN r.refs = DOMAIN a.refs \cup {n + q : q \in DOMAIN b.refs}
      /\ \A p \in DOMAIN a.refs : r.refs[p] = a.refs[p]
      /\ \A q \in DOMAIN b.refs : r.refs[n + q] = b.refs[q]
  BY <1>2, <1>4 DEF Appended, IsConcat
<1>9. /\ Len(joined.code) = n + k
      /\ \A i \in 1..n : joined.code[i] = la.code[i]
      /\ \A i \in 1..k : joined.code[n + i] = lb.code[i]
      /\ DOMAIN joined.refs = DOMAIN la.refs \cup {n + q : q \in DOMAIN lb.refs}
      /\ \A p \in DOMAIN la.refs : joined.refs[p] = la.refs[p]
      /\ \A q \in DOMAIN lb.refs : joined.refs[n + q] = lb.refs[q]
  BY <1>5, <1>6, <1>7 DEF Appended, IsConcat
<1>10. /\ linked \in Objects(Bytes, Libs) /\ Len(linked.code) = n + k
       /\ \A i \in 1..(n + k) : linked.code[i] = LinkedByte(r, m, i)
       /\ DOMAIN linked.refs = DOMAIN r.refs \ KnownRefs(r, m)
       /\ \A p \in DOMAIN linked.refs : linked.refs[p] = r.refs[p]
  <2>1. linked \in Objects(Bytes, Libs) /\ IsLinked(linked, r, m)
    BY <1>1, <1>4, LinkParts
  <2> QED
    BY <1>8, <2>1 DEF IsLinked
<1>11. /\ KnownRefs(r, m) = KnownRefs(a, m) \cup {n + q : q \in KnownRefs(b, m)}
       /\ KnownRefs(a, m) \subseteq DOMAIN a.refs /\ KnownRefs(b, m) \subseteq DOMAIN b.refs
  <2>1. KnownRefs(a, m) \subseteq DOMAIN a.refs /\ KnownRefs(b, m) \subseteq DOMAIN b.refs
    BY DEF KnownRefs
  <2> QED
    BY <1>4, <2>1, KnownAppended
<1>12. \A p \in DOMAIN a.refs, q \in DOMAIN b.refs : p # n + q
  BY <1>3, AddressBytesAssumption
<1>13. \A p, q \in DOMAIN b.refs : n + p = n + q => p = q
  BY <1>3
<1>14. DOMAIN linked.refs = DOMAIN joined.refs
  <2>1. ASSUME NEW p \in DOMAIN linked.refs PROVE p \in DOMAIN joined.refs
    BY <1>5, <1>6, <1>8, <1>9, <1>10, <1>11
  <2>2. ASSUME NEW p \in DOMAIN joined.refs PROVE p \in DOMAIN linked.refs
    <3>1. CASE p \in DOMAIN la.refs
      BY <1>5, <1>8, <1>10, <1>11, <1>12, <3>1
    <3>2. CASE p \notin DOMAIN la.refs
      <4>1. PICK q \in DOMAIN lb.refs : p = n + q
        BY <1>9, <3>2
      <4>2. q \in DOMAIN b.refs /\ q \notin KnownRefs(b, m)
        BY <1>6
      <4>3. p \notin KnownRefs(r, m)
        BY <1>11, <1>12, <1>13, <4>1, <4>2
      <4> QED
        BY <1>8, <1>10, <4>1, <4>2, <4>3
    <3> QED
      BY <3>1, <3>2
  <2> QED
    BY <2>1, <2>2
<1>15. ASSUME NEW p \in DOMAIN joined.refs PROVE linked.refs[p] = joined.refs[p]
  BY <1>5, <1>6, <1>8, <1>9, <1>10, <1>14
<1>16. ASSUME NEW i \in 1..n PROVE linked.code[i] = joined.code[i]
  <2>1. \A q \in KnownRefs(b, m) : ~Covers(n + q, i)
    BY <1>3, <1>11 DEF Covers
  <2>2. i \in 1..(n + k)
    BY <1>3
  <2>3. /\ \A p \in KnownRefs(a, m) : Covers(p, i) => LinkedByte(a, m, i) = m[a.refs[p]][i - p]
        /\ (\A p \in KnownRefs(a, m) : ~Covers(p, i)) => LinkedByte(a, m, i) = a.code[i]
    BY <1>2, LinkBytes
  <2>4. /\ \A p \in KnownRefs(r, m) : Covers(p, i) => LinkedByte(r, m, i) = m[r.refs[p]][i - p]
        /\ (\A p \in KnownRefs(r, m) : ~Covers(p, i)) => LinkedByte(r, m, i) = r.code[i]
    BY <1>4, <1>8, <2>2, LinkBytes
  <2>5. CASE \E p \in KnownRefs(a, m) : Covers(p, i)
    <3>1. PICK p \in KnownRefs(a, m) : Covers(p, i)
      BY <2>5
    <3>2. p \in KnownRefs(r, m) /\ r.refs[p] = a.refs[p]
      BY <1>8, <1>11
    <3> QED
      BY <1>5, <1>9, <1>10, <2>2, <2>3, <2>4, <3>1, <3>2
  <2>6. CASE \A p \in KnownRefs(a, m) : ~Covers(p, i)
    <3>1. \A p \in KnownRefs(r, m) : ~Covers(p, i)
      BY <1>11, <2>1, <2>6
    <3> QED
      BY <1>5, <1>8, <1>9, <1>10, <2>2, <2>3, <2>4, <2>6, <3>1
  <2> QED
    BY <2>5, <2>6
<1>17. ASSUME NEW i \in 1..k PROVE linked.code[n + i] = joined.code[n + i]
  <2>1. \A p \in KnownRefs(a, m) : ~Covers(p, n + i)
    BY <1>3, <1>11, AddressBytesAssumption DEF Covers
  <2>2. n + i \in 1..(n + k)
    BY <1>3
  <2>3. /\ \A q \in KnownRefs(b, m) : Covers(q, i) => LinkedByte(b, m, i) = m[b.refs[q]][i - q]
        /\ (\A q \in KnownRefs(b, m) : ~Covers(q, i)) => LinkedByte(b, m, i) = b.code[i]
    BY <1>2, LinkBytes
  <2>4. /\ \A p \in KnownRefs(r, m) : Covers(p, n + i) => LinkedByte(r, m, n + i) = m[r.refs[p]][(n + i) - p]
        /\ (\A p \in KnownRefs(r, m) : ~Covers(p, n + i)) => LinkedByte(r, m, n + i) = r.code[n + i]
    BY <1>4, <1>8, <2>2, LinkBytes
  <2>5. \A q \in KnownRefs(b, m) : (Covers(n + q, n + i) <=> Covers(q, i)) /\ (n + i) - (n + q) = i - q
    BY <1>3, <1>11, AddressBytesAssumption DEF Covers
  <2>6. CASE \E q \in KnownRefs(b, m) : Covers(q, i)
    <3>1. PICK q \in KnownRefs(b, m) : Covers(q, i)
      BY <2>6
    <3>2. n + q \in KnownRefs(r, m) /\ r.refs[n + q] = b.refs[q]
      BY <1>8, <1>11
    <3>3. LinkedByte(r, m, n + i) = m[b.refs[q]][i - q]
      BY <2>4, <2>5, <3>1, <3>2
    <3> QED
      BY <1>6, <1>9, <1>10, <2>2, <2>3, <3>1, <3>3
  <2>7. CASE \A q \in KnownRefs(b, m) : ~Covers(q, i)
    <3>1. \A p \in KnownRefs(r, m) : ~Covers(p, n + i)
      BY <1>11, <2>1, <2>5, <2>7
    <3> QED
      BY <1>6, <1>8, <1>9, <1>10, <2>2, <2>3, <2>4, <2>7, <3>1
  <2> QED
    BY <2>6, <2>7
<1>18. ASSUME NEW i \in 1..(n + k) PROVE linked.code[i] = joined.code[i]
  <2>1. CASE i <= n
    BY <1>3, <1>16, <2>1
  <2>2. CASE ~(i <= n)
    <3>1. i - n \in 1..k /\ n + (i - n) = i
      BY <1>3, <2>2
    <3> QED
      BY <1>17, <3>1
  <2> QED
    BY <2>1, <2>2
<1>19. linked = joined
  <2>1. /\ linked \in Objects(Bytes, Libs) /\ joined \in Objects(Bytes, Libs)
        /\ Len(linked.code) = Len(joined.code)
        /\ \A i \in 1..Len(linked.code) : linked.code[i] = joined.code[i]
    BY <1>7, <1>9, <1>10, <1>18
  <2>2. \A p \in DOMAIN linked.refs : linked.refs[p] = joined.refs[p]
    BY <1>14, <1>15
  <2> QED
    BY <2>1, <2>2, <1>14, SameObject, Zenon
<1> QED
  BY <1>1, <1>19
=============================================================================
