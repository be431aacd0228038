--------------------------- MODULE Storage_proofs ---------------------------
(***************************************************************************)
(* Storage: what is written to a place is read back from it, and no place  *)
(* that the layout gives out overlaps another.  First the values inside a  *)
(* slot, then the elements of packed arrays, then the members of structs.  *)
(***************************************************************************)
EXTENDS StorageItem, SequenceTheorems, WellFoundedInduction, TLAPS

---------------------------------------------------------------------------
(* What items are. *)

IsStorage(st) == \A a \in DOMAIN st : st[a] \in Word

(* A value type, and a place for it in a slot. *)
IsItem(t, offset) ==
  /\ t.category \in {"uint", "int", "fixedbytes"} /\ t.bytes \in 1 .. SlotBytes
  /\ offset \in Nat /\ offset + t.bytes <= SlotBytes

ItemBytes(t, offset) == offset .. offset + t.bytes - 1

(* A word on the stack leaves the other items of a slot alone if its bytes *)
(* beyond the width of the type are cut off or clean.                      *)
Contained(t, v) == t.category # "uint" \/ v = Cleaned(t, v)

LEMMA Sizes == SlotBytes \in Nat /\ SlotBytes > 1 /\ Radix \in Nat /\ Radix > 1
BY StorageSizesAssumption

LEMMA ZeroIsWord == ZeroWord \in Word
BY Sizes DEF ZeroWord, Word, ByteNumbers

LEMMA LoadIsWord ==
  ASSUME NEW st, IsStorage(st), NEW a
  PROVE  SLOAD(st, a) \in Word
BY ZeroIsWord DEF IsStorage, SLOAD

LEMMA LoadStored ==
  ASSUME NEW st, NEW a, NEW w, NEW b
  PROVE  SLOAD(SSTORE(st, a, w), b) = IF b = a THEN w ELSE SLOAD(st, b)
<1>1. PICK s2, D : /\ D = (IF w = ZeroWord THEN DOMAIN st \ {a} ELSE DOMAIN st \cup {a})
                   /\ s2 = [x \in D |-> IF x = a THEN w ELSE st[x]]
  OBVIOUS
<1>2. s2 = SSTORE(st, a, w)
  BY <1>1 DEF SSTORE
<1>3. DOMAIN s2 = D /\ \A x \in D : s2[x] = IF x = a THEN w ELSE st[x]
  BY <1>1
<1>4. SLOAD(s2, b) = IF b = a THEN w ELSE SLOAD(st, b)
  BY <1>1, <1>3 DEF SLOAD
<1> QED
  BY <1>2, <1>4

LEMMA StoredIsStorage ==
  ASSUME NEW st, IsStorage(st), NEW a, NEW w \in Word
  PROVE  IsStorage(SSTORE(st, a, w))
<1>1. PICK s2, D : /\ D = (IF w = ZeroWord THEN DOMAIN st \ {a} ELSE DOMAIN st \cup {a})
                   /\ s2 = [x \in D |-> IF x = a THEN w ELSE st[x]]
  OBVIOUS
<1>2. s2 = SSTORE(st, a, w)
  BY <1>1 DEF SSTORE
<1>3. IsStorage(s2)
  BY <1>1 DEF IsStorage
<1> QED
  BY <1>2, <1>3

---------------------------------------------------------------------------
(* Words, byte by byte. *)

LEMMA WordByBytes ==
  ASSUME NEW v \in Word, NEW w \in Word, \A i \in ByteNumbers : v[i] = w[i]
  PROVE  v = w
BY DEF Word

LEMMA ByteIn ==
  ASSUME NEW w \in Word, NEW i, i \in Nat, i < SlotBytes
  PROVE  i \in ByteNumbers /\ w[i] \in 0 .. Radix - 1 /\ 0 \in 0 .. Radix - 1
BY Sizes DEF Word, ByteNumbers

LEMMA ShiftRightAt ==
  ASSUME NEW w \in Word, NEW n \in Nat
  PROVE  /\ ShiftRight(w, n) \in Word
         /\ \A i \in ByteNumbers : ShiftRight(w, n)[i] = IF i + n < SlotBytes THEN w[i + n] ELSE 0
<1>1. ASSUME NEW i \in ByteNumbers PROVE (IF i + n < SlotBytes THEN w[i + n] ELSE 0) \in 0 .. Radix - 1
  <2>1. i \in Nat /\ i + n \in Nat
    BY Sizes DEF ByteNumbers
  <2>2. CASE i + n < SlotBytes
    BY <2>1, <2>2, ByteIn
  <2>3. CASE ~(i + n < SlotBytes)
    BY <2>3, Sizes
  <2> QED
    BY <2>2, <2>3
<1> QED
  BY <1>1 DEF ShiftRight, Word

LEMMA ShiftLeftAt ==
  ASSUME NEW w \in Word, NEW n \in Nat
  PROVE  /\ ShiftLeft(w, n) \in Word
         /\ \A i \in ByteNumbers : ShiftLeft(w, n)[i] = IF i >= n THEN w[i - n] ELSE 0
<1>1. ASSUME NEW i \in ByteNumbers PROVE (IF i >= n THEN w[i - n] ELSE 0) \in 0 .. Radix - 1
  <2>1. i \in Nat /\ i < SlotBytes
    BY Sizes DEF ByteNumbers
  <2>2. CASE i >= n
    <3>1. i - n \in Nat /\ i - n < SlotBytes
      BY <2>1, <2>2, Sizes
    <3> QED
      BY <2>2, <3>1, ByteIn
  <2>3. CASE ~(i >= n)
    BY <2>3, Sizes
  <2> QED
    BY <2>2, <2>3
<1> QED
  BY <1>1 DEF ShiftLeft, Word

LEMMA LowBytesAt ==
  ASSUME NEW w \in Word, NEW n \in Nat
  PROVE  /\ LowBytes(w, n) \in Word
         /\ \A i \in ByteNumbers : LowBytes(w, n)[i] = IF i < n THEN w[i] ELSE 0
BY Sizes DEF LowBytes, Word, ByteNumbers

LEMMA SignExtendAt ==
  ASSUME NEW w \in Word, NEW n \in Nat
  PROVE  /\ SignExtend(w, n) \in Word
         /\ \A i \in ByteNumbers :
              SignExtend(w, n)[i] = IF i < n THEN w[i] ELSE IF w[n - 1] >= Radix \div 2 THEN Radix - 1 ELSE 0
BY Sizes DEF SignExtend, Word, ByteNumbers

LEMMA ClearBytesAt ==
  ASSUME NEW w \in Word, NEW from \in Nat, NEW to \in Nat
  PROVE  /\ ClearBytes(w, from, to) \in Word
         /\ \A i \in ByteNumbers : ClearBytes(w, from, to)[i] = IF i \in from .. to - 1 THEN 0 ELSE w[i]
BY Sizes DEF ClearBytes, Word, ByteNumbers

(* OR of words, where at most one of them has the byte. *)
LEMMA BytesOrAt ==
  ASSUME NEW u \in Word, NEW v \in Word
  PROVE  /\ BytesOr(u, v) \in Word
         /\ \A i \in ByteNumbers :
              /\ v[i] = 0 => BytesOr(u, v)[i] = u[i]
              /\ u[i] = 0 => BytesOr(u, v)[i] = v[i]
<1>1. ASSUME NEW i \in ByteNumbers
      PROVE  /\ v[i] = 0 => OR(u[i], v[i]) = u[i]
             /\ u[i] = 0 => OR(u[i], v[i]) = v[i]
             /\ OR(u[i], v[i]) \in 0 .. Radix - 1
  <2>1. u[i] \in 0 .. Radix - 1 /\ v[i] \in 0 .. Radix - 1
    BY DEF Word
  <2> QED
    BY <2>1, OrAssumption
<1>2. BytesOr(u, v) = [i \in ByteNumbers |-> OR(u[i], v[i])]
  BY DEF BytesOr
<1> QED
  BY <1>1, <1>2 DEF Word

(* The value of a word byte by byte. *)
LEMMA CleanedAt ==
  ASSUME NEW t, NEW offset, IsItem(t, offset), NEW v \in Word
  PROVE  /\ Cleaned(t, v) \in Word
         /\ t.category = "uint" =>
              \A i \in ByteNumbers : Cleaned(t, v)[i] = IF i < t.bytes THEN v[i] ELSE 0
         /\ t.category = "int" =>
              \A i \in ByteNumbers :
                 Cleaned(t, v)[i] =
                   IF i < t.bytes THEN v[i] ELSE IF v[t.bytes - 1] >= Radix \div 2 THEN Radix - 1 ELSE 0
         /\ t.category = "fixedbytes" =>
              \A i \in ByteNumbers : Cleaned(t, v)[i] = IF i >= SlotBytes - t.bytes THEN v[i] ELSE 0
         /\ t.bytes = SlotBytes => Cleaned(t, v) = v
<1>1. PICK n, c : n = t.bytes /\ c = Cleaned(t, v)
  OBVIOUS
<1>2. n \in 1 .. SlotBytes /\ n \in Nat /\ \A i \in ByteNumbers : i \in Nat /\ i < SlotBytes
  BY <1>1, Sizes DEF IsItem, ByteNumbers
<1>3. CASE t.category = "uint"
  <2>1. c = LowBytes(v, n)
    BY <1>1, <1>3 DEF Cleaned
  <2>2. c \in Word /\ \A i \in ByteNumbers : c[i] = IF i < n THEN v[i] ELSE 0
    BY <1>2, <2>1, LowBytesAt
  <2>3. n = SlotBytes => c = v
    BY <1>2, <2>2, WordByBytes
  <2> QED
    BY <1>1, <1>3, <2>2, <2>3
<1>4. CASE t.category = "int"
  <2>1. c = SignExtend(v, n)
    BY <1>1, <1>4 DEF Cleaned
  <2>2. /\ c \in Word
        /\ \A i \in ByteNumbers :
             c[i] = IF i < n THEN v[i] ELSE IF v[n - 1] >= Radix \div 2 THEN Radix - 1 ELSE 0
    BY <1>2, <2>1, SignExtendAt
  <2>3. n = SlotBytes => c = v
    BY <1>2, <2>2, WordByBytes
  <2> QED
    BY <1>1, <1>4, <2>2, <2>3
<1>5. CASE t.category = "fixedbytes"
  <2>1. c = [i \in ByteNumbers |-> IF i >= SlotBytes - n THEN v[i] ELSE 0]
    BY <1>1, <1>5 DEF Cleaned
  <2>2. c \in Word /\ \A i \in ByteNumbers : c[i] = IF i >= SlotBytes - n THEN v[i] ELSE 0
    BY <2>1, Sizes DEF Word, ByteNumbers
  <2>3. n = SlotBytes => c = v
    BY <1>2, <2>2, Sizes, WordByBytes
  <2> QED
    BY <1>1, <1>5, <2>2, <2>3
<1> QED
  BY <1>3, <1>4, <1>5 DEF IsItem

---------------------------------------------------------------------------
(* The bytes of a slot before and after. *)

(* What is put into the place of a contained word has no byte outside.     *)
LEMMA StoredBytesFit ==
  ASSUME NEW t, NEW offset, IsItem(t, offset), t.bytes < SlotBytes, NEW v \in Word
  PROVE  /\ StoredBytes(t, v) \in Word
         /\ Contained(t, v) => \A j \in t.bytes .. SlotBytes - 1 : StoredBytes(t, v)[j] = 0
<1>1. PICK n : n = t.bytes
  OBVIOUS
<1>2. n \in 1 .. SlotBytes /\ n \in Nat /\ SlotBytes - n \in Nat
  BY <1>1, Sizes DEF IsItem
<1>3. CASE t.category = "uint"
  <2>1. StoredBytes(t, v) = v
    BY <1>3 DEF StoredBytes
  <2>2. ASSUME Contained(t, v), NEW j \in n .. SlotBytes - 1 PROVE v[j] = 0
    <3>1. v = LowBytes(v, n)
      BY <1>1, <1>3, <2>2 DEF Contained, Cleaned
    <3>2. \A i \in ByteNumbers : LowBytes(v, n)[i] = IF i < n THEN v[i] ELSE 0
      BY <1>2, LowBytesAt
    <3>3. j \in ByteNumbers /\ ~(j < n)
      BY <1>2, Sizes DEF ByteNumbers
    <3> QED
      BY <3>1, <3>2, <3>3
  <2> QED
    BY <1>1, <2>1, <2>2
<1>4. CASE t.category = "int"
  <2>1. StoredBytes(t, v) = LowBytes(v, n)
    BY <1>1, <1>4 DEF StoredBytes
  <2>2. LowBytes(v, n) \in Word /\ \A i \in ByteNumbers : LowBytes(v, n)[i] = IF i < n THEN v[i] ELSE 0
    BY <1>2, LowBytesAt
  <2>3. ASSUME NEW j \in n .. SlotBytes - 1 PROVE j \in ByteNumbers /\ ~(j < n)
    BY <1>2, Sizes DEF ByteNumbers
  <2> QED
    BY <1>1, <2>1, <2>2, <2>3
<1>5. CASE t.category = "fixedbytes"
  <2>1. StoredBytes(t, v) = ShiftRight(v, SlotBytes - n)
    BY <1>1, <1>5 DEF StoredBytes
  <2>2. /\ ShiftRight(v, SlotBytes - n) \in Word
        /\ \A i \in ByteNumbers :
             ShiftRight(v, SlotBytes - n)[i] = IF i + (SlotBytes - n) < SlotBytes THEN v[i + (SlotBytes - n)] ELSE 0
    BY <1>2, ShiftRightAt
  <2>3. ASSUME NEW j \in n .. SlotBytes - 1 PROVE j \in ByteNumbers /\ ~(j + (SlotBytes - n) < SlotBytes)
    BY <1>2, Sizes DEF ByteNumbers
  <2> QED
    BY <1>1, <2>1, <2>2, <2>3
<1> QED
  BY <1>3, <1>4, <1>5 DEF IsItem

(* The word that storeValue writes: the value in its place, the bytes below *)
(* it as before, and those above too if the word is contained.              *)
StoredWord(st, t, a, offset, v) ==
  BytesOr(ClearBytes(SLOAD(st, a), offset, offset + t.bytes), ShiftLeft(StoredBytes(t, v), offset))

IsStored(w, old, new, t, offset, contained) ==
  /\ w \in Word
  /\ \A i \in ByteNumbers :
       /\ i \in ItemBytes(t, offset) => w[i] = new[i - offset]
       /\ i < offset \/ (contained /\ i \notin ItemBytes(t, offset)) => w[i] = old[i]

LEMMA StoredWordAt ==
  ASSUME NEW st, IsStorage(st), NEW t, NEW a, NEW offset, IsItem(t, offset), t.bytes < SlotBytes,
         NEW v \in Word
  PROVE  IsStored(StoredWord(st, t, a, offset, v), SLOAD(st, a), StoredBytes(t, v), t, offset, Contained(t, v))
<1>1. PICK n, old, new : n = t.bytes /\ old = SLOAD(st, a) /\ new = StoredBytes(t, v)
  OBVIOUS
<1>2. n \in 1 .. SlotBytes /\ offset \in Nat /\ offset + n <= SlotBytes /\ n \in Nat /\ offset + n \in Nat
  BY <1>1, Sizes DEF IsItem
<1>3. old \in Word
  BY <1>1, LoadIsWord
<1>4. new \in Word /\ (Contained(t, v) => \A j \in n .. SlotBytes - 1 : new[j] = 0)
  BY <1>1, StoredBytesFit
<1>5. PICK left, put : left = ClearBytes(old, offset, offset + n) /\ put = ShiftLeft(new, offset)
  OBVIOUS
<1>6. left \in Word /\ \A i \in ByteNumbers : left[i] = IF i \in offset .. offset + n - 1 THEN 0 ELSE old[i]
  <2>1. PICK end : end = offset + n
    OBVIOUS
  <2>2. ClearBytes(old, offset, end) \in Word
        /\ \A i \in ByteNumbers : ClearBytes(old, offset, end)[i] = IF i \in offset .. end - 1 THEN 0 ELSE old[i]
    BY <1>2, <1>3, <2>1, ClearBytesAt
  <2>3. left = ClearBytes(old, offset, end)
    BY <1>5, <2>1
  <2>4. offset .. end - 1 = offset .. offset + n - 1
    BY <1>2, <2>1
  <2> QED
    BY <2>2, <2>3, <2>4
<1>7. put \in Word /\ \A i \in ByteNumbers : put[i] = IF i >= offset THEN new[i - offset] ELSE 0
  BY <1>2, <1>4, <1>5, ShiftLeftAt
<1>8. ASSUME NEW i \in ByteNumbers, i < offset \/ (Contained(t, v) /\ i \notin offset .. offset + n - 1)
      PROVE  put[i] = 0
  <2>1. CASE i >= offset
    <3>1. Contained(t, v) /\ i - offset \in n .. SlotBytes - 1
      BY <1>2, <1>8, <2>1, Sizes DEF ByteNumbers
    <3> QED
      BY <1>4, <1>7, <2>1, <3>1
  <2>2. CASE ~(i >= offset)
    BY <1>7, <2>2
  <2> QED
    BY <2>1, <2>2
<1>9. PICK both : both = BytesOr(left, put)
  OBVIOUS
<1>10. /\ both \in Word
       /\ \A i \in ByteNumbers : (put[i] = 0 => both[i] = left[i]) /\ (left[i] = 0 => both[i] = put[i])
  BY <1>6, <1>7, <1>9, BytesOrAt
<1>11. ASSUME NEW i \in ByteNumbers
       PROVE  /\ i \in offset .. offset + n - 1 => both[i] = new[i - offset]
              /\ i < offset \/ (Contained(t, v) /\ i \notin offset .. offset + n - 1) => both[i] = old[i]
  <2>1. ASSUME i \in offset .. offset + n - 1 PROVE both[i] = new[i - offset]
    <3>1. left[i] = 0 /\ put[i] = new[i - offset]
      BY <1>2, <1>6, <1>7, <2>1
    <3> QED
      BY <1>10, <3>1
  <2>2. ASSUME i < offset \/ (Contained(t, v) /\ i \notin offset .. offset + n - 1) PROVE both[i] = old[i]
    <3>1. i \notin offset .. offset + n - 1
      BY <1>2, <2>2, Sizes DEF ByteNumbers
    <3>2. put[i] = 0
      BY <1>8, <2>2
    <3> QED
      BY <1>6, <1>10, <3>1, <3>2
  <2> QED
    BY <2>1, <2>2
<1>12. both = StoredWord(st, t, a, offset, v)
  BY <1>1, <1>5, <1>9 DEF StoredWord
<1>13. IsStored(both, old, new, t, offset, Contained(t, v))
  BY <1>1, <1>10, <1>11 DEF IsStored, ItemBytes
<1> QED
  BY <1>1, <1>12, <1>13

---------------------------------------------------------------------------
(* Values read back. *)

(* What retrieveValue makes of the slot shifted to the value's place. *)
Extracted(t, r) ==
  CASE t.category = "fixedbytes" -> ShiftLeft(r, SlotBytes - t.bytes)
    [] t.category = "int" -> SignExtend(r, t.bytes)
    [] OTHER -> LowBytes(r, t.bytes)

LEMMA RetrieveIsExtracted ==
  ASSUME NEW st, NEW t, NEW a, NEW offset, IsItem(t, offset), t.bytes < SlotBytes
  PROVE  RetrieveValue(st, t, a, offset) = Extracted(t, ShiftRight(SLOAD(st, a), offset))
<1>1. PICK n : n = t.bytes
  OBVIOUS
<1>2. n # SlotBytes /\ n < SlotBytes
  BY <1>1, Sizes DEF IsItem
<1>3. CASE t.category = "uint"
  BY <1>1, <1>2, <1>3 DEF RetrieveValue, Extracted
<1>4. CASE t.category = "int"
  BY <1>1, <1>2, <1>4 DEF RetrieveValue, Extracted
<1>5. CASE t.category = "fixedbytes"
  BY <1>1, <1>2, <1>5 DEF RetrieveValue, Extracted
<1> QED
  BY <1>3, <1>4, <1>5 DEF IsItem

(* What is extracted byte by byte: it is a value of the type and depends on *)
(* the lowest bytes alone.                                                  *)
LEMMA ExtractedAt ==
  ASSUME NEW t, NEW offset, IsItem(t, offset), t.bytes < SlotBytes, NEW r \in Word
  PROVE  /\ Extracted(t, r) \in Word
         /\ t.category = "uint" =>
              \A i \in ByteNumbers : Extracted(t, r)[i] = IF i < t.bytes THEN r[i] ELSE 0
         /\ t.category = "int" =>
              \A i \in ByteNumbers :
                 Extracted(t, r)[i] =
                   IF i < t.bytes THEN r[i] ELSE IF r[t.bytes - 1] >= Radix \div 2 THEN Radix - 1 ELSE 0
         /\ t.category = "fixedbytes" =>
              \A i \in ByteNumbers :
                 Extracted(t, r)[i] = IF i >= SlotBytes - t.bytes THEN r[i - (SlotBytes - t.bytes)] ELSE 0
<1>1. PICK n : n = t.bytes
  OBVIOUS
<1>2. n \in Nat /\ SlotBytes - n \in Nat
  BY <1>1, Sizes DEF IsItem
<1>3. CASE t.category = "uint"
  <2>1. Extracted(t, r) = LowBytes(r, n)
    BY <1>1, <1>3 DEF Extracted
  <2>2. LowBytes(r, n) \in Word /\ \A i \in ByteNumbers : LowBytes(r, n)[i] = IF i < n THEN r[i] ELSE 0
    BY <1>2, LowBytesAt
  <2> QED
    BY <1>1, <1>3, <2>1, <2>2
<1>4. CASE t.category = "int"
  <2>1. Extracted(t, r) = SignExtend(r, n)
    BY <1>1, <1>4 DEF Extracted
  <2>2. /\ SignExtend(r, n) \in Word
        /\ \A i \in ByteNumbers :
             SignExtend(r, n)[i] = IF i < n THEN r[i] ELSE IF r[n - 1] >= Radix \div 2 THEN Radix - 1 ELSE 0
    BY <1>2, SignExtendAt
  <2> QED
    BY <1>1, <1>4, <2>1, <2>2
<1>5. CASE t.category = "fixedbytes"
  <2>1. Extracted(t, r) = ShiftLeft(r, SlotBytes - n)
    BY <1>1, <1>5 DEF Extracted
  <2>2. /\ ShiftLeft(r, SlotBytes - n) \in Word
        /\ \A i \in ByteNumbers :
             ShiftLeft(r, SlotBytes - n)[i] = IF i >= SlotBytes - n THEN r[i - (SlotBytes - n)] ELSE 0
    BY <1>2, ShiftLeftAt
  <2> QED
    BY <1>1, <1>5, <2>1, <2>2
<1> QED
  BY <1>3, <1>4, <1>5 DEF IsItem

LEMMA ExtractedLocal ==
  ASSUME NEW t, NEW offset, IsItem(t, offset), t.bytes < SlotBytes, NEW r \in Word, NEW q \in Word,
         \A i \in 0 .. t.bytes - 1 : r[i] = q[i]
  PROVE  Extracted(t, r) = Extracted(t, q)
<1>1. PICK n, u, w : n = t.bytes /\ u = Extracted(t, r) /\ w = Extracted(t, q)
  OBVIOUS
<1>2. n \in 1 .. SlotBytes /\ n < SlotBytes
  BY <1>1 DEF IsItem
<1>3. u \in Word /\ w \in Word
  BY <1>1, ExtractedAt
<1>4. ASSUME NEW i \in ByteNumbers PROVE u[i] = w[i]
  <2>1. i \in Nat /\ i < SlotBytes
    BY Sizes DEF ByteNumbers
  <2>2. CASE t.category = "uint"
    <3>1. u[i] = (IF i < n THEN r[i] ELSE 0) /\ w[i] = (IF i < n THEN q[i] ELSE 0)
      BY <1>1, <2>2, ExtractedAt
    <3>2. i < n => i \in 0 .. n - 1
      BY <1>2, <2>1, Sizes
    <3> QED
      BY <1>1, <3>1, <3>2
  <2>3. CASE t.category = "int"
    <3>1. /\ u[i] = (IF i < n THEN r[i] ELSE IF r[n - 1] >= Radix \div 2 THEN Radix - 1 ELSE 0)
          /\ w[i] = (IF i < n THEN q[i] ELSE IF q[n - 1] >= Radix \div 2 THEN Radix - 1 ELSE 0)
      BY <1>1, <2>3, ExtractedAt
    <3>2. (i < n => i \in 0 .. n - 1) /\ n - 1 \in 0 .. n - 1
      BY <1>2, <2>1, Sizes
    <3> QED
      BY <1>1, <3>1, <3>2
  <2>4. CASE t.category = "fixedbytes"
    <3>1. PICK k : k = SlotBytes - n
      OBVIOUS
    <3>2. /\ u[i] = (IF i >= k THEN r[i - k] ELSE 0)
          /\ w[i] = (IF i >= k THEN q[i - k] ELSE 0)
      BY <1>1, <2>4, <3>1, ExtractedAt
    <3>3. i >= k => i - k \in 0 .. n - 1
      BY <1>2, <2>1, <3>1, Sizes
    <3> QED
      BY <1>1, <3>2, <3>3
  <2> QED
    BY <2>2, <2>3, <2>4 DEF IsItem
<1> QED
  BY <1>1, <1>3, <1>4, WordByBytes

LEMMA ExtractStored ==
  ASSUME NEW t, NEW offset, IsItem(t, offset), t.bytes < SlotBytes, NEW v \in Word
  PROVE  Extracted(t, StoredBytes(t, v)) = Cleaned(t, v)
<1>1. PICK n, r, w, c : n = t.bytes /\ r = StoredBytes(t, v) /\ w = Extracted(t, r) /\ c = Cleaned(t, v)
  OBVIOUS
<1>2. n \in 1 .. SlotBytes /\ n < SlotBytes /\ n \in Nat /\ SlotBytes - n \in Nat
  BY <1>1, Sizes DEF IsItem
<1>3. r \in Word
  BY <1>1, StoredBytesFit
<1>4. w \in Word /\ c \in Word
  BY <1>1, <1>3, ExtractedAt, CleanedAt
<1>5. ASSUME NEW i \in ByteNumbers PROVE w[i] = c[i]
  <2>1. i \in Nat /\ i < SlotBytes
    BY Sizes DEF ByteNumbers
  <2>2. CASE t.category = "uint"
    <3>1. r = v
      BY <1>1, <2>2 DEF StoredBytes
    <3>2. w[i] = (IF i < n THEN r[i] ELSE 0)
      BY <1>1, <1>3, <2>2, ExtractedAt
    <3>3. c[i] = (IF i < n THEN v[i] ELSE 0)
      BY <1>1, <2>2, CleanedAt
    <3> QED
      BY <3>1, <3>2, <3>3
  <2>3. CASE t.category = "int"
    <3>1. r = LowBytes(v, n)
      BY <1>1, <2>3 DEF StoredBytes
    <3>2. \A j \in ByteNumbers : r[j] = IF j < n THEN v[j] ELSE 0
      BY <1>2, <1>3, <3>1, LowBytesAt
    <3>3. n - 1 \in ByteNumbers /\ n - 1 < n
      BY <1>2, Sizes DEF ByteNumbers
    <3>4. r[n - 1] = v[n - 1]
      BY <3>2, <3>3
    <3>5. w[i] = (IF i < n THEN r[i] ELSE IF r[n - 1] >= Radix \div 2 THEN Radix - 1 ELSE 0)
      BY <1>1, <1>3, <2>3, ExtractedAt
    <3>6. c[i] = (IF i < n THEN v[i] ELSE IF v[n - 1] >= Radix \div 2 THEN Radix - 1 ELSE 0)
      BY <1>1, <2>3, CleanedAt
    <3> QED
      BY <3>2, <3>4, <3>5, <3>6
  <2>4. CASE t.category = "fixedbytes"
    <3>1. PICK k : k = SlotBytes - n
      OBVIOUS
    <3>2. r = ShiftRight(v, k)
      BY <1>1, <2>4, <3>1 DEF StoredBytes
    <3>3. \A j \in ByteNumbers : r[j] = IF j + k < SlotBytes THEN v[j + k] ELSE 0
      BY <1>2, <1>3, <3>1, <3>2, ShiftRightAt
    <3>4. w[i] = (IF i >= k THEN r[i - k] ELSE 0)
      BY <1>1, <1>3, <2>4, <3>1, ExtractedAt
    <3>5. c[i] = (IF i >= k THEN v[i] ELSE 0)
      BY <1>1, <2>4, <3>1, CleanedAt
    <3>6. i >= k => i - k \in ByteNumbers /\ (i - k) + k < SlotBytes /\ (i - k) + k = i
      BY <1>2, <2>1, <3>1, Sizes DEF ByteNumbers
    <3> QED
      BY <3>3, <3>4, <3>5, <3>6
  <2> QED
    BY <2>2, <2>3, <2>4 DEF IsItem
<1> QED
  BY <1>1, <1>3, <1>4, <1>5, WordByBytes

---------------------------------------------------------------------------
(* What storing, retrieving and deleting promise. *)

(* A value is made of its own bytes of the slot and of nothing else. *)
LEMMA RetrieveLocal ==
  ASSUME NEW st, IsStorage(st), NEW su, IsStorage(su), NEW t, NEW a, NEW offset, IsItem(t, offset),
         \A i \in ItemBytes(t, offset) : SLOAD(st, a)[i] = SLOAD(su, a)[i]
  PROVE  RetrieveValue(st, t, a, offset) = RetrieveValue(su, t, a, offset)
<1>1. PICK n, x, y : n = t.bytes /\ x = SLOAD(st, a) /\ y = SLOAD(su, a)
  OBVIOUS
<1>2. n \in 1 .. SlotBytes /\ offset \in Nat /\ offset + n <= SlotBytes
  BY <1>1 DEF IsItem
<1>3. x \in Word /\ y \in Word /\ \A i \in offset .. offset + n - 1 : x[i] = y[i]
  BY <1>1, LoadIsWord DEF ItemBytes
<1>4. CASE n = SlotBytes
  <2>1. ByteNumbers = offset .. offset + n - 1
    BY <1>2, <1>4, Sizes DEF ByteNumbers
  <2>2. x = y
    BY <1>3, <2>1, WordByBytes
  <2> QED
    BY <1>1, <1>4, <2>2 DEF RetrieveValue
<1>5. CASE n < SlotBytes
  <2>1. PICK r, q : r = ShiftRight(x, offset) /\ q = ShiftRight(y, offset)
    OBVIOUS
  <2>2. /\ r \in Word /\ \A i \in ByteNumbers : r[i] = IF i + offset < SlotBytes THEN x[i + offset] ELSE 0
        /\ q \in Word /\ \A i \in ByteNumbers : q[i] = IF i + offset < SlotBytes THEN y[i + offset] ELSE 0
    BY <1>2, <1>3, <2>1, ShiftRightAt
  <2>3. ASSUME NEW i \in 0 .. n - 1 PROVE r[i] = q[i]
    <3>1. i \in ByteNumbers /\ i + offset < SlotBytes /\ i + offset \in offset .. offset + n - 1
      BY <1>2, Sizes DEF ByteNumbers
    <3> QED
      BY <1>3, <2>2, <3>1
  <2>4. Extracted(t, r) = Extracted(t, q)
    BY <1>1, <1>5, <2>2, <2>3, ExtractedLocal
  <2> QED
    BY <1>1, <1>5, <2>1, <2>4, RetrieveIsExtracted
<1> QED
  BY <1>2, <1>4, <1>5, Sizes

(* Storage su is st but for the item's bytes and, unless contained, those   *)
(* above them in its slot.                                                  *)
ChangesOnly(su, st, t, a, offset, contained) ==
  /\ IsStorage(su)
  /\ \A b : b # a => SLOAD(su, b) = SLOAD(st, b)
  /\ \A i \in ByteNumbers \ ItemBytes(t, offset) :
       i < offset \/ contained => SLOAD(su, a)[i] = SLOAD(st, a)[i]

LEMMA StoreOfPart ==
  ASSUME NEW st, NEW t, NEW a, NEW offset, NEW v, t.bytes \in Nat, t.bytes < SlotBytes
  PROVE  StoreValue(st, t, a, offset, v) = SSTORE(st, a, StoredWord(st, t, a, offset, v))
<1>1. t.bytes # SlotBytes
  BY Sizes
<1> QED
  BY <1>1 DEF StoreValue, StoredWord

(* StorageItem::storeValue leaves a storage, writes no slot but its own, no *)
(* byte below the item and, if the word is contained, none above it.        *)
LEMMA StoreAt ==
  ASSUME NEW st, IsStorage(st), NEW t, NEW a, NEW offset, IsItem(t, offset), NEW v \in Word
  PROVE  ChangesOnly(StoreValue(st, t, a, offset, v), st, t, a, offset, Contained(t, v))
<1>2. t.bytes \in 1 .. SlotBytes /\ offset \in Nat /\ offset + t.bytes <= SlotBytes
  BY DEF IsItem
<1>3. CASE t.bytes = SlotBytes
  <2>1. StoreValue(st, t, a, offset, v) = SSTORE(st, a, v)
    BY <1>3 DEF StoreValue
  <2>2. ByteNumbers \ ItemBytes(t, offset) = {}
    BY <1>2, <1>3, Sizes DEF ByteNumbers, ItemBytes
  <2> QED
    BY <2>1, <2>2, StoredIsStorage, LoadStored DEF ChangesOnly
<1>4. CASE t.bytes < SlotBytes
  <2>1. PICK w : w = StoredWord(st, t, a, offset, v)
    OBVIOUS
  <2>2. StoreValue(st, t, a, offset, v) = SSTORE(st, a, w)
    BY <1>2, <1>4, <2>1, StoreOfPart
  <2>3. IsStored(w, SLOAD(st, a), StoredBytes(t, v), t, offset, Contained(t, v))
    BY <1>4, <2>1, StoredWordAt
  <2>4. /\ w \in Word
        /\ \A i \in ByteNumbers \ ItemBytes(t, offset) :
             i < offset \/ Contained(t, v) => w[i] = SLOAD(st, a)[i]
    BY <2>3 DEF IsStored
  <2> QED
    BY <2>2, <2>4, StoredIsStorage, LoadStored DEF ChangesOnly
<1> QED
  BY <1>2, <1>3, <1>4, Sizes

(* Whatever word StorageItem::storeValue stores, StorageItem::retrieveValue *)
(* gives back the value that it stands for: the masks, shifts and the sign  *)
(* extension of the two agree for every size of value and every place in    *)
(* the slot, and what is dirty beyond the value's width is not read.        *)
THEOREM StoreRetrieves ==
  ASSUME NEW st, IsStorage(st), NEW t, NEW a, NEW offset, IsItem(t, offset), NEW v \in Word
  PROVE  RetrieveValue(StoreValue(st, t, a, offset, v), t, a, offset) = Cleaned(t, v)
<1>1. PICK n, su : n = t.bytes /\ su = StoreValue(st, t, a, offset, v)
  OBVIOUS
<1>2. n \in 1 .. SlotBytes /\ offset \in Nat /\ offset + n <= SlotBytes
  BY <1>1 DEF IsItem
<1>3. CASE n = SlotBytes
  <2>1. su = SSTORE(st, a, v)
    BY <1>1, <1>3 DEF StoreValue
  <2>2. RetrieveValue(su, t, a, offset) = SLOAD(su, a)
    BY <1>1, <1>3, Sizes DEF RetrieveValue
  <2>3. Cleaned(t, v) = v
    BY <1>1, <1>3, CleanedAt
  <2> QED
    BY <1>1, <2>1, <2>2, <2>3, LoadStored
<1>4. CASE n < SlotBytes
  <2>1. PICK w, p : w = StoredWord(st, t, a, offset, v) /\ p = StoredBytes(t, v)
    OBVIOUS
  <2>2. SLOAD(su, a) = w
    <3>1. t.bytes < SlotBytes
      BY <1>1, <1>4
    <3>2. su = SSTORE(st, a, w)
      BY <1>1, <1>2, <2>1, <3>1, StoreOfPart
    <3> QED
      BY <3>2, LoadStored
  <2>3. w \in Word /\ \A i \in offset .. offset + n - 1 : i \in ByteNumbers => w[i] = p[i - offset]
    <3>1. t.bytes < SlotBytes
      BY <1>1, <1>4
    <3>2. IsStored(w, SLOAD(st, a), p, t, offset, Contained(t, v))
      BY <2>1, <3>1, StoredWordAt
    <3> QED
      BY <1>1, <3>2 DEF IsStored, ItemBytes
  <2>4. p \in Word
    BY <1>1, <1>4, <2>1, StoredBytesFit
  <2>5. PICK r : r = ShiftRight(w, offset)
    OBVIOUS
  <2>6. r \in Word /\ \A i \in ByteNumbers : r[i] = IF i + offset < SlotBytes THEN w[i + offset] ELSE 0
    BY <1>2, <2>3, <2>5, ShiftRightAt
  <2>7. ASSUME NEW i \in 0 .. n - 1 PROVE r[i] = p[i]
    <3>1. /\ i \in ByteNumbers /\ i + offset < SlotBytes /\ i + offset \in offset .. offset + n - 1
          /\ i + offset \in ByteNumbers /\ (i + offset) - offset = i
      BY <1>2, Sizes DEF ByteNumbers
    <3> QED
      BY <2>3, <2>6, <3>1
  <2>8. Extracted(t, r) = Extracted(t, p)
    BY <1>1, <1>4, <2>4, <2>6, <2>7, ExtractedLocal
  <2>9. Extracted(t, p) = Cleaned(t, v)
    BY <1>1, <1>4, <2>1, ExtractStored
  <2> QED
    BY <1>1, <1>4, <2>2, <2>5, <2>8, <2>9, RetrieveIsExtracted
<1> QED
  BY <1>2, <1>3, <1>4, Sizes

(* Storing a word changes no value that lies in another slot or lower in    *)
(* the same slot.  A value higher in the slot is left alone if the stored   *)
(* type is signed or a byte string, or if the word is clean: an unsigned    *)
(* number is combined with the slot as it is.                               *)
THEOREM StoreKeepsOthers ==
  ASSUME NEW st, IsStorage(st), NEW t, NEW a, NEW offset, IsItem(t, offset), NEW v \in Word,
         NEW u, NEW b, NEW place, IsItem(u, place),
         \/ a # b
         \/ place + u.bytes <= offset
         \/ offset + t.bytes <= place /\ (t.category # "uint" \/ v = Cleaned(t, v))
  PROVE  RetrieveValue(StoreValue(st, t, a, offset, v), u, b, place) = RetrieveValue(st, u, b, place)
<1>1. PICK su : su = StoreValue(st, t, a, offset, v)
  OBVIOUS
<1>2. /\ IsStorage(su) /\ \A c : c # a => SLOAD(su, c) = SLOAD(st, c)
      /\ \A i \in ByteNumbers \ ItemBytes(t, offset) :
           i < offset \/ Contained(t, v) => SLOAD(su, a)[i] = SLOAD(st, a)[i]
  <2>1. ChangesOnly(su, st, t, a, offset, Contained(t, v))
    BY <1>1, StoreAt
  <2> QED
    BY <2>1 DEF ChangesOnly
<1>3. ASSUME NEW i \in ItemBytes(u, place), a = b
      PROVE  i \in ByteNumbers \ ItemBytes(t, offset) /\ (i < offset \/ Contained(t, v))
  <2>1. PICK n, m : n = t.bytes /\ m = u.bytes
    OBVIOUS
  <2>2. /\ n \in 1 .. SlotBytes /\ offset \in Nat /\ m \in 1 .. SlotBytes /\ place \in Nat
        /\ place + m <= SlotBytes /\ i \in place .. place + m - 1
    BY <2>1 DEF IsItem, ItemBytes
  <2>3. place + m <= offset \/ (offset + n <= place /\ Contained(t, v))
    BY <1>3, <2>1 DEF Contained
  <2>4. i \in ByteNumbers /\ i \notin offset .. offset + n - 1 /\ (i < offset \/ Contained(t, v))
    BY <2>2, <2>3, Sizes DEF ByteNumbers
  <2> QED
    BY <2>1, <2>4 DEF ItemBytes
<1>4. \A i \in ItemBytes(u, place) : SLOAD(su, b)[i] = SLOAD(st, b)[i]
  BY <1>2, <1>3
<1> QED
  BY <1>1, <1>2, <1>4, RetrieveLocal

LEMMA RetrieveZero ==
  ASSUME NEW st, NEW t, NEW a, NEW offset, IsItem(t, offset), SLOAD(st, a) = ZeroWord
  PROVE  RetrieveValue(st, t, a, offset) = ZeroWord
<1>1. PICK n, r, w : n = t.bytes /\ r = ShiftRight(ZeroWord, offset) /\ w = Extracted(t, r)
  OBVIOUS
<1>2. n \in 1 .. SlotBytes /\ offset \in Nat /\ \A i \in ByteNumbers : ZeroWord[i] = 0
  BY <1>1 DEF IsItem, ZeroWord
<1>3. CASE n = SlotBytes
  BY <1>1, <1>3, Sizes DEF RetrieveValue
<1>4. CASE n < SlotBytes
  <2>1. r \in Word /\ \A i \in ByteNumbers : r[i] = 0
    <3>1. r \in Word /\ \A i \in ByteNumbers : r[i] = IF i + offset < SlotBytes THEN ZeroWord[i + offset] ELSE 0
      BY <1>1, <1>2, ZeroIsWord, ShiftRightAt
    <3>2. \A i \in ByteNumbers : i + offset < SlotBytes => i + offset \in ByteNumbers
      BY <1>2, Sizes DEF ByteNumbers
    <3> QED
      BY <1>2, <3>1, <3>2
  <2>2. w \in Word
    BY <1>1, <1>4, <2>1, ExtractedAt
  <2>3. ASSUME NEW i \in ByteNumbers PROVE w[i] = 0
    <3>1. CASE t.category = "uint"
      BY <1>1, <1>4, <2>1, <3>1, ExtractedAt
    <3>2. CASE t.category = "int"
      <4>1. w[i] = (IF i < n THEN r[i] ELSE IF r[n - 1] >= Radix \div 2 THEN Radix - 1 ELSE 0)
        BY <1>1, <1>4, <2>1, <3>2, ExtractedAt
      <4>2. n - 1 \in ByteNumbers
        BY <1>2, Sizes DEF ByteNumbers
      <4>3. ~(0 >= Radix \div 2)
        BY Sizes
      <4> QED
        BY <2>1, <4>1, <4>2, <4>3
    <3>3. CASE t.category = "fixedbytes"
      <4>1. PICK k : k = SlotBytes - n
        OBVIOUS
      <4>2. w[i] = (IF i >= k THEN r[i - k] ELSE 0)
        BY <1>1, <1>4, <2>1, <3>3, <4>1, ExtractedAt
      <4>3. i >= k => i - k \in ByteNumbers
        BY <1>2, <1>4, <4>1, Sizes DEF ByteNumbers
      <4> QED
        BY <2>1, <4>2, <4>3
    <3> QED
      BY <3>1, <3>2, <3>3 DEF IsItem
  <2>4. w = ZeroWord
    BY <1>2, <2>2, <2>3, ZeroIsWord, WordByBytes
  <2> QED
    BY <1>1, <1>4, <2>4, RetrieveIsExtracted
<1> QED
  BY <1>2, <1>3, <1>4, Sizes

LEMMA ClearedAt ==
  ASSUME NEW st, IsStorage(st), NEW t, NEW a, NEW offset, IsItem(t, offset)
  PROVE  /\ IsStorage(SetValueToZero(st, t, a, offset))
         /\ \A b : b # a => SLOAD(SetValueToZero(st, t, a, offset), b) = SLOAD(st, b)
         /\ \A i \in ByteNumbers :
              SLOAD(SetValueToZero(st, t, a, offset), a)[i] =
                IF i \in ItemBytes(t, offset) THEN 0 ELSE SLOAD(st, a)[i]
<1>1. PICK n, old, end : n = t.bytes /\ old = SLOAD(st, a) /\ end = offset + n
  OBVIOUS
<1>2. n \in 1 .. SlotBytes /\ offset \in Nat /\ end <= SlotBytes /\ end \in Nat
  BY <1>1, Sizes DEF IsItem
<1>3. ItemBytes(t, offset) = offset .. end - 1
  BY <1>1, <1>2 DEF ItemBytes
<1>4. old \in Word
  BY <1>1, LoadIsWord
<1>5. ASSUME NEW w \in Word, SetValueToZero(st, t, a, offset) = SSTORE(st, a, w),
             \A i \in ByteNumbers : w[i] = IF i \in offset .. end - 1 THEN 0 ELSE old[i]
      PROVE  /\ IsStorage(SSTORE(st, a, w)) /\ \A b : b # a => SLOAD(SSTORE(st, a, w), b) = SLOAD(st, b)
             /\ SLOAD(SSTORE(st, a, w), a) = w
  BY StoredIsStorage, LoadStored
<1>6. CASE n = SlotBytes
  <2>1. SetValueToZero(st, t, a, offset) = SSTORE(st, a, ZeroWord)
    BY <1>1, <1>6 DEF SetValueToZero
  <2>2. ASSUME NEW i \in ByteNumbers PROVE i \in offset .. end - 1 /\ ZeroWord[i] = 0
    <3>1. ZeroWord[i] = 0
      BY DEF ZeroWord
    <3>2. i \in offset .. end - 1
      BY <1>1, <1>2, <1>6, Sizes DEF ByteNumbers
    <3> QED
      BY <3>1, <3>2
  <2> QED
    BY <1>1, <1>3, <1>5, <2>1, <2>2, ZeroIsWord
<1>7. CASE n < SlotBytes
  <2>1. n # SlotBytes
    BY <1>2, <1>7, Sizes
  <2>2. PICK w : w = ClearBytes(old, offset, end)
    OBVIOUS
  <2>3. SetValueToZero(st, t, a, offset) = SSTORE(st, a, w)
    BY <1>1, <2>1, <2>2 DEF SetValueToZero
  <2>4. w \in Word /\ \A i \in ByteNumbers : w[i] = IF i \in offset .. end - 1 THEN 0 ELSE old[i]
    BY <1>2, <1>4, <2>2, ClearBytesAt
  <2> QED
    BY <1>1, <1>3, <1>5, <2>3, <2>4
<1> QED
  BY <1>2, <1>6, <1>7, Sizes

(* StorageItem::setToZero (delete) makes the value zero and changes no      *)
(* value that lies elsewhere.                                               *)
THEOREM DeleteClears ==
  ASSUME NEW st, IsStorage(st), NEW t, NEW a, NEW offset, IsItem(t, offset)
  PROVE  /\ RetrieveValue(SetValueToZero(st, t, a, offset), t, a, offset) = ZeroWord
         /\ \A u, b, place :
              /\ IsItem(u, place)
              /\ a # b \/ ItemBytes(t, offset) \cap ItemBytes(u, place) = {}
              => RetrieveValue(SetValueToZero(st, t, a, offset), u, b, place)
                   = RetrieveValue(st, u, b, place)
<1>1. PICK su : su = SetValueToZero(st, t, a, offset)
  OBVIOUS
<1>2. /\ IsStorage(su) /\ \A b : b # a => SLOAD(su, b) = SLOAD(st, b)
      /\ \A i \in ByteNumbers : SLOAD(su, a)[i] = IF i \in ItemBytes(t, offset) THEN 0 ELSE SLOAD(st, a)[i]
  <2>1. /\ IsStorage(SetValueToZero(st, t, a, offset))
        /\ \A b : b # a => SLOAD(SetValueToZero(st, t, a, offset), b) = SLOAD(st, b)
        /\ \A i \in ByteNumbers :
             SLOAD(SetValueToZero(st, t, a, offset), a)[i] =
               IF i \in ItemBytes(t, offset) THEN 0 ELSE SLOAD(st, a)[i]
    BY ClearedAt
  <2> QED
    BY <1>1, <2>1
<1>3. ASSUME NEW u, NEW place, IsItem(u, place)
      PROVE  ItemBytes(u, place) \subseteq ByteNumbers
  BY <1>3, Sizes DEF ItemBytes, ByteNumbers, IsItem
<1>4. RetrieveValue(su, t, a, offset) = ZeroWord
  <2>1. PICK empty : empty = SSTORE(st, a, ZeroWord)
    OBVIOUS
  <2>2. IsStorage(empty) /\ SLOAD(empty, a) = ZeroWord
    BY <2>1, ZeroIsWord, StoredIsStorage, LoadStored
  <2>3. \A i \in ByteNumbers : ZeroWord[i] = 0
    BY DEF ZeroWord
  <2>4. \A i \in ItemBytes(t, offset) : SLOAD(su, a)[i] = SLOAD(empty, a)[i]
    BY <1>2, <1>3, <2>2, <2>3
  <2>5. RetrieveValue(su, t, a, offset) = RetrieveValue(empty, t, a, offset)
    BY <1>2, <2>2, <2>4, RetrieveLocal
  <2>6. RetrieveValue(empty, t, a, offset) = ZeroWord
    BY <2>2, RetrieveZero
  <2> QED
    BY <2>5, <2>6
<1>5. ASSUME NEW u, NEW b, NEW place, IsItem(u, place),
             a # b \/ ItemBytes(t, offset) \cap ItemBytes(u, place) = {}
      PROVE  RetrieveValue(su, u, b, place) = RetrieveValue(st, u, b, place)
  <2>1. \A i \in ItemBytes(u, place) : SLOAD(su, b)[i] = SLOAD(st, b)[i]
    BY <1>2, <1>3, <1>5
  <2> QED
    BY <1>2, <1>5, <2>1, RetrieveLocal
<1> QED
  BY <1>1, <1>4, <1>5

---------------------------------------------------------------------------
(* Elements of byte arrays and of packed arrays. *)

ByteType == [category |-> "fixedbytes", bytes |-> 1]

LEMMA ByteIsItem ==
  ASSUME NEW n \in ByteNumbers
  PROVE  IsItem(ByteType, SlotBytes - 1 - n) /\ ByteType.bytes = 1 /\ 1 < SlotBytes
         /\ ByteType.category = "fixedbytes"
<1>1. ByteType.bytes = 1 /\ ByteType.category = "fixedbytes"
  BY DEF ByteType
<1>2. 1 \in 1 .. SlotBytes /\ SlotBytes - 1 - n \in Nat /\ (SlotBytes - 1 - n) + 1 <= SlotBytes /\ 1 < SlotBytes
  BY Sizes DEF ByteNumbers
<1> QED
  BY <1>1, <1>2 DEF IsItem

(* StorageByteArrayElement treats element n of the bytes in a slot as       *)
(* StorageItem would treat a bytes1 in byte SlotBytes - 1 - n, though its   *)
(* code masks and shifts differently: so what is proved of items holds for  *)
(* the elements of byte arrays.                                             *)
THEOREM ByteElementsAreItems ==
  ASSUME NEW st, IsStorage(st), NEW a, NEW n \in ByteNumbers, NEW v
  PROVE  /\ RetrieveByte(st, a, n) = RetrieveValue(st, ByteType, a, SlotBytes - 1 - n)
         /\ StoreByte(st, a, n, v) = StoreValue(st, ByteType, a, SlotBytes - 1 - n, v)
<1>1. PICK o, last, x, r : /\ o = SlotBytes - 1 - n /\ last = SlotBytes - 1
                           /\ x = SLOAD(st, a) /\ r = ShiftRight(x, o)
  OBVIOUS
<1>2. o \in Nat /\ last \in Nat /\ o + 1 = SlotBytes - n /\ 1 # SlotBytes
  BY <1>1, Sizes DEF ByteNumbers
<1>3. IsItem(ByteType, o) /\ ByteType.bytes = 1 /\ ByteType.category = "fixedbytes" /\ 1 < SlotBytes
  BY <1>1, ByteIsItem
<1>4. x \in Word
  BY <1>1, LoadIsWord
<1>5. r \in Word
  BY <1>1, <1>2, <1>4, ShiftRightAt
<1>6. PICK low : low = LowBytes(r, 1)
  OBVIOUS
<1>7. low \in Word /\ \A i \in ByteNumbers : low[i] = IF i < 1 THEN r[i] ELSE 0
  BY <1>5, <1>6, LowBytesAt
<1>8. PICK u, w : u = ShiftLeft(low, last) /\ w = ShiftLeft(r, last)
  OBVIOUS
<1>9. /\ u \in Word /\ \A i \in ByteNumbers : u[i] = IF i >= last THEN low[i - last] ELSE 0
      /\ w \in Word /\ \A i \in ByteNumbers : w[i] = IF i >= last THEN r[i - last] ELSE 0
  BY <1>2, <1>5, <1>7, <1>8, ShiftLeftAt
<1>10. ASSUME NEW i \in ByteNumbers PROVE u[i] = w[i]
  <2>1. i >= last => i - last \in ByteNumbers /\ i - last < 1
    BY <1>1, Sizes DEF ByteNumbers
  <2> QED
    BY <1>7, <1>9, <2>1
<1>11. u = w
  BY <1>9, <1>10, WordByBytes
<1>12. RetrieveByte(st, a, n) = u
  BY <1>1, <1>6, <1>8 DEF RetrieveByte
<1>13. Extracted(ByteType, r) = w
  BY <1>1, <1>3, <1>8 DEF Extracted
<1>14. RetrieveValue(st, ByteType, a, o) = w
  BY <1>1, <1>3, <1>13, RetrieveIsExtracted
<1>15. StoredBytes(ByteType, v) = ShiftRight(v, last)
  BY <1>1, <1>3 DEF StoredBytes
<1>16. StoreValue(st, ByteType, a, o, v) =
         SSTORE(st, a, BytesOr(ClearBytes(x, o, SlotBytes - n), ShiftLeft(ShiftRight(v, last), o)))
  BY <1>1, <1>2, <1>3, <1>15 DEF StoreValue
<1>17. StoreByte(st, a, n, v) = StoreValue(st, ByteType, a, o, v)
  BY <1>1, <1>16 DEF StoreByte
<1> QED
  BY <1>1, <1>11, <1>12, <1>14, <1>17

LEMMA MultiplesApart ==
  ASSUME NEW n \in Nat, NEW m \in Nat, n < m, NEW b \in Nat
  PROVE  n * b + b <= m * b
OBVIOUS

LEMMA QuotientAndRest ==
  ASSUME NEW i \in Nat, NEW p \in Nat, p > 0
  PROVE  /\ i \div p \in Nat /\ i % p \in Nat /\ i % p < p
         /\ i = (p * (i \div p)) + (i % p)
OBVIOUS

LEMMA PerSlot ==
  ASSUME NEW b \in Nat, b > 0, b <= SlotBytes
  PROVE  SlotBytes \div b \in Nat /\ SlotBytes \div b > 0 /\ (SlotBytes \div b) * b <= SlotBytes
BY Sizes

(* The elements of a packed array (ArrayUtils::accessIndex) are items of    *)
(* its slots, and no two of them share a byte.                              *)
THEOREM PackedElementsApart ==
  ASSUME NEW t, t.category \in {"uint", "int", "fixedbytes"}, t.bytes \in 1 .. SlotBytes, NEW i \in Nat
  PROVE  /\ IsItem(t, PackedPlace(t.bytes, i)[2])
         /\ \A j \in Nat \ {i} :
              \/ PackedPlace(t.bytes, i)[1] # PackedPlace(t.bytes, j)[1]
              \/ ItemBytes(t, PackedPlace(t.bytes, i)[2]) \cap ItemBytes(t, PackedPlace(t.bytes, j)[2]) = {}
<1>1. PICK b, p : b = t.bytes /\ p = SlotBytes \div b
  OBVIOUS
<1>2. b \in Nat /\ b > 0 /\ b <= SlotBytes
  BY <1>1, Sizes
<1>3. p \in Nat /\ p > 0 /\ p * b <= SlotBytes
  BY <1>1, <1>2, PerSlot
<1>4. ASSUME NEW k \in Nat
      PROVE  PackedPlace(b, k)[1] = k \div p /\ PackedPlace(b, k)[2] = (k % p) * b
  BY <1>1 DEF PackedPlace
<1>5. (i % p) * b \in Nat /\ (i % p) * b + b <= SlotBytes
  <2>1. PICK x : x = i % p
    OBVIOUS
  <2>2. x \in Nat /\ x < p
    BY <1>3, <2>1, QuotientAndRest
  <2>3. x * b + b <= p * b
    BY <1>2, <1>3, <2>2, MultiplesApart
  <2>4. x * b \in Nat /\ p * b \in Nat
    BY <1>2, <1>3, <2>2
  <2> QED
    BY <1>2, <1>3, <2>1, <2>3, <2>4, Sizes
<1>6. IsItem(t, (i % p) * b)
  BY <1>1, <1>5 DEF IsItem
<1>7. ASSUME NEW j \in Nat, i # j, i \div p = j \div p
      PROVE  ItemBytes(t, (i % p) * b) \cap ItemBytes(t, (j % p) * b) = {}
  <2>1. PICK x, y, q : x = i % p /\ y = j % p /\ q = i \div p
    OBVIOUS
  <2>2. x \in Nat /\ y \in Nat /\ q \in Nat /\ i = (p * q) + x /\ j = (p * q) + y
    BY <1>3, <1>7, <2>1, QuotientAndRest
  <2>3. x # y
    BY <1>7, <2>2
  <2>4. PICK c, d : c = x * b /\ d = y * b
    OBVIOUS
  <2>5. c \in Nat /\ d \in Nat
    BY <1>2, <2>2, <2>4
  <2>6. c + b <= d \/ d + b <= c
    <3>1. x < y \/ y < x
      BY <2>2, <2>3
    <3> QED
      BY <1>2, <2>2, <2>4, <3>1, MultiplesApart
  <2>7. (c .. c + b - 1) \cap (d .. d + b - 1) = {}
    BY <1>2, <2>5, <2>6
  <2> QED
    BY <1>1, <2>1, <2>4, <2>7 DEF ItemBytes
<1> QED
  BY <1>1, <1>4, <1>6, <1>7

LEMMA NextQuotient ==
  ASSUME NEW i \in Nat, NEW p \in Nat, p > 0
  PROVE  IF (i % p) + 1 < p THEN (i + 1) \div p = i \div p /\ (i + 1) % p = (i % p) + 1
         ELSE (i + 1) \div p = (i \div p) + 1 /\ (i + 1) % p = 0
OBVIOUS

LEMMA FitsInSlot ==
  ASSUME NEW b \in Nat, b > 0, b <= SlotBytes, NEW m \in Nat
  PROVE  m * b <= SlotBytes <=> m <= SlotBytes \div b
BY Sizes

(* ArrayUtils::incrementByteOffset, with which the loops of                 *)
(* copyArrayToStorage go from item to item, leads from each element to the  *)
(* place that accessIndex computes for the next one.                        *)
THEOREM IncrementIsNextElement ==
  ASSUME NEW t, t.bytes \in 1 .. SlotBytes, NEW i \in Nat, NEW Areas, NEW base \in [area : Areas, number : Nat]
  PROVE  IncrementByteOffset(t, Plus(base, PackedPlace(t.bytes, i)[1]), PackedPlace(t.bytes, i)[2])
           = <<Plus(base, PackedPlace(t.bytes, i + 1)[1]), PackedPlace(t.bytes, i + 1)[2]>>
<1>1. PICK b, p, x, q : b = t.bytes /\ p = SlotBytes \div b /\ x = i % p /\ q = i \div p
  OBVIOUS
<1>2. b \in Nat /\ b > 0 /\ b <= SlotBytes
  BY <1>1, Sizes
<1>3. p \in Nat /\ p > 0
  BY <1>1, <1>2, PerSlot
<1>4. x \in Nat /\ q \in Nat /\ x < p
  BY <1>1, <1>3, QuotientAndRest
<1>5. PackedPlace(b, i)[1] = q /\ PackedPlace(b, i)[2] = x * b
  BY <1>1 DEF PackedPlace
<1>6. x * b + 2 * b > SlotBytes <=> ~(x + 2 <= p)
  <2>1. (x + 2) * b = x * b + 2 * b /\ (x + 2) * b \in Nat
    BY <1>2, <1>4
  <2>2. (x + 2) * b <= SlotBytes <=> x + 2 <= p
    BY <1>1, <1>2, <1>4, FitsInSlot
  <2> QED
    BY <2>1, <2>2, Sizes
<1>7. Plus(Plus(base, q), 1) = Plus(base, q + 1)
  <2>1. \A c \in [area : Areas, number : Nat], n \in Nat :
          /\ Plus(c, n) \in [area : Areas, number : Nat]
          /\ Plus(c, n).area = c.area /\ Plus(c, n).number = c.number + n
    BY DEF Plus
  <2>2. PICK c, d, e : c = Plus(base, q) /\ d = Plus(c, 1) /\ e = Plus(base, q + 1)
    OBVIOUS
  <2>3. c \in [area : Areas, number : Nat] /\ c.area = base.area /\ c.number = base.number + q
    BY <1>4, <2>1, <2>2
  <2>4. d \in [area : Areas, number : Nat] /\ d.area = c.area /\ d.number = c.number + 1
    BY <2>1, <2>2, <2>3
  <2>5. e \in [area : Areas, number : Nat] /\ e.area = base.area /\ e.number = base.number + (q + 1)
    <3>1. q + 1 \in Nat
      BY <1>4
    <3> QED
      BY <2>1, <2>2, <3>1
  <2>6. d.number = e.number
    BY <1>4, <2>3, <2>4, <2>5
  <2> QED
    BY <2>2, <2>3, <2>4, <2>5, <2>6
<1>8. CASE x + 2 <= p
  <2>1. (i + 1) \div p = q /\ (i + 1) % p = x + 1
    BY <1>1, <1>3, <1>4, <1>8, NextQuotient
  <2>2. PackedPlace(b, i + 1)[1] = q /\ PackedPlace(b, i + 1)[2] = (x + 1) * b
    BY <1>1, <2>1 DEF PackedPlace
  <2>3. (x + 1) * b = x * b + b
    BY <1>2, <1>4
  <2>4. IncrementByteOffset(t, Plus(base, q), x * b) = <<Plus(base, q), x * b + b>>
    BY <1>1, <1>6, <1>8 DEF IncrementByteOffset
  <2> QED
    BY <1>1, <1>5, <2>2, <2>3, <2>4
<1>9. CASE ~(x + 2 <= p)
  <2>1. (i + 1) \div p = q + 1 /\ (i + 1) % p = 0
    BY <1>1, <1>3, <1>4, <1>9, NextQuotient
  <2>2. PackedPlace(b, i + 1)[1] = q + 1 /\ PackedPlace(b, i + 1)[2] = 0
    BY <1>1, <1>2, <2>1 DEF PackedPlace
  <2>3. IncrementByteOffset(t, Plus(base, q), x * b) = <<Plus(Plus(base, q), 1), 0>>
    BY <1>1, <1>6, <1>9 DEF IncrementByteOffset
  <2> QED
    BY <1>1, <1>5, <1>7, <2>2, <2>3
<1> QED
  BY <1>8, <1>9

-----------------------------------------------------------------------------
(* The places that members occupy.                                         *)

\* A member of one slot has some bytes of it, a larger one has all the bytes
\* of its slots.
Occupied(at, bytes, size) ==
    IF size = 1 THEN {<<at.slot, b>> : b \in at.byte..(at.byte + bytes - 1)}
    ELSE {<<s, b>> : s \in at.slot..(at.slot + size - 1), b \in 0..(SlotBytes - 1)}

\* What the types guarantee: storageBytes is at most a slot, and a whole one
\* for types that need several slots.
MemberSizes(bytes, sizes) ==
    /\ bytes \in Seq(1..SlotBytes) /\ sizes \in Seq(Nat \ {0}) /\ Len(bytes) = Len(sizes)
    /\ \A i \in 1..Len(bytes) : sizes[i] # 1 => bytes[i] = SlotBytes

Places == [slot : Nat, byte : 0..SlotBytes]
Before(a, b) == a.slot < b.slot \/ (a.slot = b.slot /\ a.byte <= b.byte)

-----------------------------------------------------------------------------
(* Induction on numbers, for a set.                                        *)

LEMMA LeastNumber ==
    ASSUME NEW T \in SUBSET Nat, T # {}
    PROVE  \E x \in T : \A y \in T : x <= y
<1> DEFINE R == OpToRel(<, Nat)
<1>1. IsWellFoundedOn(R, Nat)
  BY NatLessThanWellFounded, Zenon
<1> HIDE DEF R
<1>2. PICK x \in T : \A y \in T : ~(<<y, x>> \in R)
  BY <1>1, WFMin
<1>3. \A y \in Nat : y < x => <<y, x>> \in R
  BY DEF OpToRel, R
<1>4. \A y \in T : ~(y < x)
  BY <1>2, <1>3
<1> QED
  BY <1>4

LEMMA SetInduction ==
    ASSUME NEW T, 0 \in T, \A n \in Nat : n \in T => n + 1 \in T
    PROVE  Nat \subseteq T
<1> SUFFICES ASSUME Nat \ T # {} PROVE FALSE
  OBVIOUS
<1>1. PICK x \in Nat \ T : \A y \in Nat \ T : x <= y
  BY LeastNumber
<1>2. x - 1 \in Nat /\ (x - 1) + 1 = x
  BY <1>1
<1>3. x - 1 \in T
  BY <1>1, <1>2
<1> QED
  BY <1>1, <1>2, <1>3

-----------------------------------------------------------------------------
(* The loop computes what its definition says.                             *)

\* c[i] follows from c[i - 1], for the first n members.
Steps(c, bytes, sizes, n) ==
    /\ c \in [0..n -> Places]
    /\ c[0] = [slot |-> 0, byte |-> 0]
    /\ \A i \in 1..n : c[i] = Passed(Fitted(c[i - 1], bytes[i]), bytes[i], sizes[i])

\* An item keeps the cursor inside a slot, is fitted behind the cursor and
\* ends before the next.
LEMMA OneStep ==
    ASSUME SlotBytes \in Nat, NEW at \in Places, NEW b \in 1..SlotBytes, NEW s \in Nat \ {0}
    PROVE  /\ Fitted(at, b) \in Places /\ Passed(Fitted(at, b), b, s) \in Places
           /\ Fitted(at, b).byte + b <= SlotBytes
           /\ Before(at, Fitted(at, b)) /\ Before(Fitted(at, b), Passed(Fitted(at, b), b, s))
<1>1. PICK f : f = Fitted(at, b)
  OBVIOUS
<1>2. at.slot \in Nat /\ at.byte \in 0..SlotBytes
  BY DEF Places
<1>3. f \in Places /\ f.byte + b <= SlotBytes /\ Before(at, f)
  BY <1>1, <1>2 DEF Fitted, Places, Before
<1>4. Passed(f, b, s) \in Places /\ Before(f, Passed(f, b, s))
  BY <1>3 DEF Passed, Places, Before
<1> QED
  BY <1>1, <1>3, <1>4

LEMMA SizesAt ==
    ASSUME NEW bytes, NEW sizes, MemberSizes(bytes, sizes), NEW i \in 1..Len(bytes)
    PROVE  /\ bytes[i] \in 1..SlotBytes /\ sizes[i] \in Nat \ {0}
           /\ sizes[i] # 1 => bytes[i] = SlotBytes
<1>1. bytes \in Seq(1..SlotBytes) /\ sizes \in Seq(Nat \ {0}) /\ i \in 1..Len(sizes)
  BY DEF MemberSizes
<1>2. bytes[i] \in 1..SlotBytes
  BY <1>1, ElementOfSeq, Zenon
<1>3. sizes[i] \in Nat \ {0}
  BY <1>1, ElementOfSeq, Zenon
<1> QED
  BY <1>2, <1>3 DEF MemberSizes

LEMMA LengthIsNumber ==
    ASSUME NEW bytes, NEW sizes, MemberSizes(bytes, sizes)
    PROVE  Len(bytes) \in Nat
BY DEF MemberSizes

LEMMA StepsExist ==
    ASSUME SlotBytes \in Nat, NEW bytes, NEW sizes, MemberSizes(bytes, sizes)
    PROVE  \E c : Steps(c, bytes, sizes, Len(bytes))
<1> DEFINE T == {n \in Nat : n <= Len(bytes) => \E c : Steps(c, bytes, sizes, n)}
<1>0. Len(bytes) \in Nat
  BY DEF MemberSizes
<1>1. 0 \in T
  <2>1. PICK c : c = [i \in 0..0 |-> [slot |-> 0, byte |-> 0]]
    OBVIOUS
  <2>2. Steps(c, bytes, sizes, 0)
    BY <2>1 DEF Steps, Places
  <2> QED
    BY <2>2
<1>2. ASSUME NEW n \in Nat, n \in T PROVE n + 1 \in T
  <2> SUFFICES ASSUME n + 1 <= Len(bytes) PROVE \E c : Steps(c, bytes, sizes, n + 1)
    OBVIOUS
  <2>1. PICK c : Steps(c, bytes, sizes, n)
    BY <1>0, <1>2
  <2>2. PICK b, z : b = bytes[n + 1] /\ z = sizes[n + 1]
    OBVIOUS
  <2>3. b \in 1..SlotBytes /\ z \in Nat \ {0}
    BY <1>0, <2>2, SizesAt
  <2>4. c \in [0..n -> Places] /\ c[n] \in Places
    BY <2>1 DEF Steps
  <2>5. PICK d : d = [i \in 0..(n + 1) |-> IF i = n + 1 THEN Passed(Fitted(c[n], b), b, z) ELSE c[i]]
    OBVIOUS
  <2>6. Passed(Fitted(c[n], b), b, z) \in Places
    BY <2>3, <2>4, OneStep
  <2>7. d \in [0..(n + 1) -> Places]
    BY <2>4, <2>5, <2>6
  <2>8. d[0] = [slot |-> 0, byte |-> 0]
    BY <2>1, <2>5 DEF Steps
  <2>9. ASSUME NEW i \in 1..(n + 1)
        PROVE  d[i] = Passed(Fitted(d[i - 1], bytes[i]), bytes[i], sizes[i])
    <3>1. d[i - 1] = c[i - 1]
      BY <2>5
    <3>2. CASE i = n + 1
      <4>1. d[i] = Passed(Fitted(c[n], b), b, z) /\ i - 1 = n
        BY <2>5, <3>2
      <4> QED
        BY <2>2, <3>1, <3>2, <4>1
    <3>3. CASE i # n + 1
      <4>1. d[i] = c[i] /\ i \in 1..n
        BY <2>5, <3>3
      <4> QED
        BY <2>1, <3>1, <4>1 DEF Steps
    <3> QED
      BY <3>2, <3>3
  <2> QED
    BY <2>7, <2>8, <2>9 DEF Steps
<1>3. Nat \subseteq T
  <2> HIDE DEF T
  <2> QED
    BY <1>1, <1>2, SetInduction
<1> QED
  BY <1>0, <1>3

LEMMA CursorSteps ==
    ASSUME SlotBytes \in Nat, NEW bytes, NEW sizes, MemberSizes(bytes, sizes)
    PROVE  Steps(Cursor(bytes, sizes), bytes, sizes, Len(bytes))
<1> DEFINE Turn(c, i) == IF i = 0 THEN [slot |-> 0, byte |-> 0]
                         ELSE Passed(Fitted(c[i - 1], bytes[i]), bytes[i], sizes[i])
           IsCursor(c) == c = [i \in 0..Len(bytes) |-> Turn(c, i)]
           e == CHOOSE c : IsCursor(c)
<1>0. Len(bytes) \in Nat
  BY DEF MemberSizes
<1>1. PICK c : Steps(c, bytes, sizes, Len(bytes))
  BY StepsExist
<1>2. IsCursor(c)
  <2>1. c \in [0..Len(bytes) -> Places]
    BY <1>1 DEF Steps
  <2>2. ASSUME NEW i \in 0..Len(bytes) PROVE c[i] = Turn(c, i)
    <3>1. CASE i = 0
      BY <1>1, <3>1 DEF Steps
    <3>2. CASE i # 0
      <4>1. i \in 1..Len(bytes)
        BY <1>0, <3>2
      <4> QED
        BY <1>1, <3>2, <4>1 DEF Steps
    <3> QED
      BY <3>1, <3>2
  <2> QED
    BY <2>1, <2>2
<1>3. IsCursor(e)
  BY <1>2
<1>4. e = Cursor(bytes, sizes)
  BY DEF Cursor
<1> HIDE DEF e
<1>5. ASSUME NEW d, IsCursor(d) PROVE Steps(d, bytes, sizes, Len(bytes))
  <2> DEFINE T == {n \in Nat : n <= Len(bytes) => d[n] = c[n]}
  <2>1. \A i \in 0..Len(bytes) : d[i] = Turn(d, i)
    BY <1>5
  <2>2. \A i \in 0..Len(bytes) : c[i] = Turn(c, i)
    BY <1>2
  <2>3. 0 \in T
    BY <1>0, <2>1, <2>2
  <2>4. ASSUME NEW n \in Nat, n \in T PROVE n + 1 \in T
    <3> SUFFICES ASSUME n + 1 <= Len(bytes) PROVE d[n + 1] = c[n + 1]
      OBVIOUS
    <3>1. d[n] = c[n] /\ (n + 1) - 1 = n /\ n + 1 # 0 /\ n + 1 \in 0..Len(bytes)
      BY <1>0, <2>4
    <3> QED
      BY <2>1, <2>2, <3>1
  <2>5. Nat \subseteq T
    <3> HIDE DEF T
    <3> QED
      BY <2>3, <2>4, SetInduction
  <2>6. \A i \in 0..Len(bytes) : d[i] = c[i]
    BY <1>0, <2>5
  <2>7. d = c
    BY <1>2, <1>5, <2>6
  <2> QED
    BY <1>1, <2>7
<1> QED
  BY <1>3, <1>4, <1>5

-----------------------------------------------------------------------------
(* Members do not overlap.                                                 *)

LEMMA BeforeTransitive ==
    ASSUME SlotBytes \in Nat, NEW a \in Places, NEW b \in Places, NEW c \in Places,
           Before(a, b), Before(b, c)
    PROVE  Before(a, c)
BY DEF Places, Before

\* The cursor never goes back.
LEMMA CursorForward ==
    ASSUME SlotBytes \in Nat, NEW bytes, NEW sizes, MemberSizes(bytes, sizes),
           NEW c, Steps(c, bytes, sizes, Len(bytes)),
           NEW i \in 0..Len(bytes), NEW j \in 0..Len(bytes), i <= j
    PROVE  Before(c[i], c[j])
<1> DEFINE T == {n \in Nat : i <= n /\ n <= Len(bytes) => Before(c[i], c[n])}
<1>0. Len(bytes) \in Nat /\ \A k \in 0..Len(bytes) : c[k] \in Places
  BY LengthIsNumber DEF Steps
<1>r. \A at \in Places : Before(at, at)
  BY DEF Before, Places
<1>1. 0 \in T
  BY <1>0, <1>r
<1>2. ASSUME NEW n \in Nat, n \in T PROVE n + 1 \in T
  <2> SUFFICES ASSUME i <= n + 1, n + 1 <= Len(bytes) PROVE Before(c[i], c[n + 1])
    OBVIOUS
  <2>1. CASE i = n + 1
    BY <1>0, <1>r, <2>1
  <2>2. CASE i # n + 1
    <3>1. i <= n /\ n \in 0..Len(bytes) /\ n + 1 \in 1..Len(bytes) /\ (n + 1) - 1 = n
      BY <1>0, <2>2
    <3>2. Before(c[i], c[n])
      BY <1>2, <3>1
    <3>3. PICK b, z : b = bytes[n + 1] /\ z = sizes[n + 1]
      OBVIOUS
    <3>4. b \in 1..SlotBytes /\ z \in Nat \ {0}
      BY <3>1, <3>3, SizesAt
    <3>5. c[n + 1] = Passed(Fitted(c[n], b), b, z)
      BY <3>1, <3>3 DEF Steps
    <3>6. /\ c[n] \in Places /\ c[i] \in Places /\ Fitted(c[n], b) \in Places
          /\ Passed(Fitted(c[n], b), b, z) \in Places
          /\ Before(c[n], Fitted(c[n], b)) /\ Before(Fitted(c[n], b), Passed(Fitted(c[n], b), b, z))
      BY <1>0, <3>1, <3>4, OneStep
    <3>7. Before(c[i], Fitted(c[n], b))
      BY <3>2, <3>6, BeforeTransitive
    <3> QED
      BY <3>5, <3>6, <3>7, BeforeTransitive
  <2> QED
    BY <2>1, <2>2
<1>3. Nat \subseteq T
  <2> HIDE DEF T
  <2> QED
    BY <1>1, <1>2, SetInduction
<1> QED
  BY <1>0, <1>3

\* Two items of which the second begins behind the first.
LEMMA ItemsApart ==
    ASSUME SlotBytes \in Nat \ {0},
           NEW a \in Places, NEW b \in 1..SlotBytes, NEW s \in Nat \ {0},
           NEW p \in Places, NEW d \in 1..SlotBytes, NEW t \in Nat \ {0},
           p.byte + d <= SlotBytes, t # 1 => d = SlotBytes,
           Before(Passed(a, b, s), p)
    PROVE  Occupied(a, b, s) \cap Occupied(p, d, t) = {}
<1> SUFFICES ASSUME NEW x \in Occupied(a, b, s), x \in Occupied(p, d, t) PROVE FALSE
  OBVIOUS
<1>1. a.slot \in Nat /\ a.byte \in Nat /\ p.slot \in Nat /\ p.byte \in Nat
  BY DEF Places
<1>2. CASE s = 1
  <2>1. p.slot > a.slot \/ (p.slot = a.slot /\ a.byte + b <= p.byte)
    BY <1>1, <1>2 DEF Passed, Before
  <2>2. PICK k \in a.byte..(a.byte + b - 1) : x = <<a.slot, k>>
    BY <1>2 DEF Occupied
  <2>3. CASE t = 1
    <3>1. PICK m \in p.byte..(p.byte + d - 1) : x = <<p.slot, m>>
      BY <2>3 DEF Occupied
    <3>2. p.slot = a.slot /\ k = m
      BY <2>2, <3>1
    <3> QED
      BY <1>1, <2>1, <3>2
  <2>4. CASE t # 1
    <3>1. PICK u \in p.slot..(p.slot + t - 1), m \in 0..(SlotBytes - 1) : x = <<u, m>>
      BY <2>4 DEF Occupied
    <3>2. u = a.slot
      BY <2>2, <3>1
    <3>3. p.byte = 0
      BY <1>1, <2>4
    <3> QED
      BY <1>1, <2>1, <3>1, <3>2, <3>3
  <2> QED
    BY <2>3, <2>4
<1>3. CASE s # 1
  <2>1. a.slot + s <= p.slot
    BY <1>1, <1>3 DEF Passed, Before
  <2>2. PICK k \in a.slot..(a.slot + s - 1), l \in 0..(SlotBytes - 1) : x = <<k, l>>
    BY <1>3 DEF Occupied
  <2>3. CASE t = 1
    <3>1. PICK m \in p.byte..(p.byte + d - 1) : x = <<p.slot, m>>
      BY <2>3 DEF Occupied
    <3>2. p.slot = k
      BY <2>2, <3>1
    <3> QED
      BY <1>1, <2>1, <3>2
  <2>4. CASE t # 1
    <3>1. PICK u \in p.slot..(p.slot + t - 1), m \in 0..(SlotBytes - 1) : x = <<u, m>>
      BY <2>4 DEF Occupied
    <3>2. u = k
      BY <2>2, <3>1
    <3> QED
      BY <1>1, <2>1, <3>1, <3>2
  <2> QED
    BY <2>3, <2>4
<1> QED
  BY <1>2, <1>3

LEMMA OffsetAt ==
    ASSUME SlotBytes \in Nat, NEW bytes, NEW sizes, MemberSizes(bytes, sizes), NEW i \in 1..Len(bytes),
           NEW at, at = ComputeOffsets(bytes, sizes)[i]
    PROVE  /\ at \in Places /\ at.byte + bytes[i] <= SlotBytes
           /\ Before(Cursor(bytes, sizes)[i - 1], at)
           /\ Cursor(bytes, sizes)[i] = Passed(at, bytes[i], sizes[i])
<1>1. PICK c : c = Cursor(bytes, sizes)
  OBVIOUS
<1>2. Steps(c, bytes, sizes, Len(bytes))
  BY <1>1, CursorSteps
<1>3. at = Fitted(c[i - 1], bytes[i])
  BY <1>1 DEF ComputeOffsets
<1>4. Len(bytes) \in Nat /\ i - 1 \in 0..Len(bytes)
  BY DEF MemberSizes
<1>5. c[i - 1] \in Places /\ c[i] = Passed(at, bytes[i], sizes[i])
  BY <1>2, <1>3, <1>4 DEF Steps
<1>6. bytes[i] \in 1..SlotBytes /\ sizes[i] \in Nat \ {0}
  BY SizesAt
<1>7. at \in Places /\ at.byte + bytes[i] <= SlotBytes /\ Before(c[i - 1], at)
  BY <1>3, <1>5, <1>6, OneStep
<1> QED
  BY <1>1, <1>5, <1>7

\* A member is placed behind the end of every earlier one.
LEMMA MemberBehind ==
    ASSUME SlotBytes \in Nat \ {0}, NEW bytes, NEW sizes, MemberSizes(bytes, sizes),
           NEW i \in 1..Len(bytes), NEW j \in 1..Len(bytes), i < j,
           NEW a, a = ComputeOffsets(bytes, sizes)[i], NEW p, p = ComputeOffsets(bytes, sizes)[j]
    PROVE  /\ a \in Places /\ p \in Places /\ p.byte + bytes[j] <= SlotBytes
           /\ Before(Passed(a, bytes[i], sizes[i]), p)
<1>1. PICK c : c = Cursor(bytes, sizes)
  OBVIOUS
<1>2. a \in Places /\ c[i] = Passed(a, bytes[i], sizes[i])
  BY <1>1, OffsetAt
<1>3. p \in Places /\ p.byte + bytes[j] <= SlotBytes /\ Before(c[j - 1], p)
  BY <1>1, OffsetAt
<1>4. Steps(c, bytes, sizes, Len(bytes))
  BY <1>1, CursorSteps
<1>5. /\ Len(bytes) \in Nat /\ i \in 0..Len(bytes) /\ j - 1 \in 0..Len(bytes) /\ i <= j - 1
      /\ c[i] \in Places /\ c[j - 1] \in Places
  <2>1. Len(bytes) \in Nat /\ i \in 0..Len(bytes) /\ j - 1 \in 0..Len(bytes) /\ i <= j - 1
    BY LengthIsNumber
  <2> QED
    BY <1>4, <2>1 DEF Steps
<1>6. Before(c[i], c[j - 1])
  BY <1>4, <1>5, CursorForward
<1> QED
  BY <1>2, <1>3, <1>5, <1>6, BeforeTransitive

\* No two members of a struct, and no two state variables, share a byte of
\* storage, however they are packed.
THEOREM MembersApart ==
    ASSUME SlotBytes \in Nat \ {0}, NEW bytes, NEW sizes, MemberSizes(bytes, sizes),
           NEW i \in 1..Len(bytes), NEW j \in 1..Len(bytes), i < j
    PROVE  Occupied(ComputeOffsets(bytes, sizes)[i], bytes[i], sizes[i])
             \cap Occupied(ComputeOffsets(bytes, sizes)[j], bytes[j], sizes[j]) = {}
<1>1. PICK a, p : a = ComputeOffsets(bytes, sizes)[i] /\ p = ComputeOffsets(bytes, sizes)[j]
  OBVIOUS
<1>2. /\ a \in Places /\ p \in Places /\ p.byte + bytes[j] <= SlotBytes
      /\ Before(Passed(a, bytes[i], sizes[i]), p)
  BY <1>1, MemberBehind
<1>3. /\ bytes[i] \in 1..SlotBytes /\ sizes[i] \in Nat \ {0}
      /\ bytes[j] \in 1..SlotBytes /\ sizes[j] \in Nat \ {0}
      /\ sizes[j] # 1 => bytes[j] = SlotBytes
  BY SizesAt
<1>4. Occupied(a, bytes[i], sizes[i]) \cap Occupied(p, bytes[j], sizes[j]) = {}
  BY <1>2, <1>3, ItemsApart
<1> QED
  BY <1>1, <1>4

\* All members lie within the slots that storageSize() counts, so that what
\* follows the struct is not reached.
THEOREM MembersInside ==
    ASSUME SlotBytes \in Nat \ {0}, NEW bytes, NEW sizes, MemberSizes(bytes, sizes),
           NEW i \in 1..Len(bytes), NEW x \in Occupied(ComputeOffsets(bytes, sizes)[i], bytes[i], sizes[i])
    PROVE  x \in (0..(SlotsUsed(bytes, sizes) - 1)) \X (0..(SlotBytes - 1))
<1>1. PICK a, c, last : /\ a = ComputeOffsets(bytes, sizes)[i] /\ c = Cursor(bytes, sizes)
                        /\ last = c[Len(bytes)]
  OBVIOUS
<1>2. a \in Places /\ a.byte + bytes[i] <= SlotBytes /\ c[i] = Passed(a, bytes[i], sizes[i])
  BY <1>1, OffsetAt
<1>3. Steps(c, bytes, sizes, Len(bytes))
  BY <1>1, CursorSteps
<1>4. /\ Len(bytes) \in Nat /\ i \in 0..Len(bytes) /\ Len(bytes) \in 0..Len(bytes) /\ i <= Len(bytes)
      /\ last \in Places
  <2>1. Len(bytes) \in Nat /\ i \in 0..Len(bytes) /\ Len(bytes) \in 0..Len(bytes) /\ i <= Len(bytes)
    BY LengthIsNumber
  <2> QED
    BY <1>1, <1>3, <2>1 DEF Steps
<1>5. Before(Passed(a, bytes[i], sizes[i]), last)
  BY <1>1, <1>2, <1>3, <1>4, CursorForward
<1>6. PICK b, s, n : b = bytes[i] /\ s = sizes[i] /\ n = SlotsUsed(bytes, sizes)
  OBVIOUS
<1>7. b \in 1..SlotBytes /\ s \in Nat \ {0}
  BY <1>6, SizesAt
<1>8. n = IF last.byte > 0 THEN last.slot + 1 ELSE last.slot
  BY <1>1, <1>6 DEF SlotsUsed
<1>9. a.slot \in Nat /\ a.byte \in Nat /\ last.slot \in Nat /\ last.byte \in Nat /\ n \in Nat
  BY <1>2, <1>4, <1>8 DEF Places
<1>10. CASE s = 1
  <2>1. a.slot < last.slot \/ (a.slot = last.slot /\ a.byte + b <= last.byte)
    BY <1>5, <1>6, <1>10 DEF Passed, Before
  <2>2. a.slot \in 0..(n - 1)
    BY <1>7, <1>8, <1>9, <2>1
  <2>3. PICK k \in a.byte..(a.byte + b - 1) : x = <<a.slot, k>>
    BY <1>1, <1>6, <1>10 DEF Occupied
  <2>4. k \in 0..(SlotBytes - 1)
    BY <1>2, <1>6, <1>7, <1>9
  <2> QED
    BY <1>6, <2>2, <2>3, <2>4
<1>11. CASE s # 1
  <2>1. a.slot + s <= last.slot
    BY <1>5, <1>6, <1>7, <1>9, <1>11 DEF Passed, Before
  <2>2. PICK k \in a.slot..(a.slot + s - 1), l \in 0..(SlotBytes - 1) : x = <<k, l>>
    BY <1>1, <1>6, <1>11 DEF Occupied
  <2>3. k \in 0..(n - 1)
    BY <1>7, <1>8, <1>9, <2>1
  <2> QED
    BY <1>6, <2>2, <2>3
<1> QED
  BY <1>10, <1>11

\* The slots of distinct numbers are distinct, wherever the struct begins.
LEMMA SlotsApart ==
    ASSUME NEW Areas, NEW base \in [area : Areas, number : Nat], NEW k \in Nat, NEW l \in Nat, k # l
    PROVE  Plus(base, k) # Plus(base, l)
<1>1. Plus(base, k).number = base.number + k /\ Plus(base, l).number = base.number + l /\ base.number \in Nat
  BY DEF Plus
<1> QED
  BY <1>1

\* Of two members of value types in one slot the later one has the higher
\* bytes.
LEMMA ValueMembersInOrder ==
    ASSUME NEW bytes, NEW sizes, MemberSizes(bytes, sizes),
           NEW i \in 1..Len(bytes), NEW j \in 1..Len(bytes), i < j, sizes[i] = 1,
           NEW a, a = ComputeOffsets(bytes, sizes)[i], NEW p, p = ComputeOffsets(bytes, sizes)[j]
    PROVE  a.slot # p.slot \/ a.byte + bytes[i] <= p.byte
<1>1. SlotBytes \in Nat \ {0}
  BY Sizes
<1>2. a \in Places /\ p \in Places /\ Before(Passed(a, bytes[i], sizes[i]), p)
  BY <1>1, MemberBehind
<1> QED
  BY <1>2 DEF Passed, Before, Places

LEMMA ValueMemberIsItem ==
    ASSUME NEW bytes, NEW sizes, MemberSizes(bytes, sizes), NEW i \in 1..Len(bytes), NEW t,
           t.category \in {"uint", "int", "fixedbytes"}, t.bytes = bytes[i],
           NEW a, a = ComputeOffsets(bytes, sizes)[i]
    PROVE  IsItem(t, a.byte) /\ a.slot \in Nat
<1>1. SlotBytes \in Nat
  BY Sizes
<1>2. a \in Places /\ a.byte + bytes[i] <= SlotBytes
  BY <1>1, OffsetAt
<1>3. bytes[i] \in 1..SlotBytes
  BY SizesAt
<1> QED
  BY <1>2, <1>3 DEF IsItem, Places

\* A state variable or struct member of a value type can be assigned and
\* deleted without any effect on another one, whatever their sizes, their
\* order and so their packing, and wherever the struct lies in storage.
\* This holds of every word that an expression can leave on the stack, with
\* one exception: an unsigned word that is not clean may change members
\* declared after the one assigned to.
THEOREM MembersIndependent ==
    ASSUME NEW bytes, NEW sizes, MemberSizes(bytes, sizes),
           NEW i \in 1..Len(bytes), NEW j \in 1..Len(bytes), i # j, sizes[i] = 1, sizes[j] = 1,
           NEW t, t.category \in {"uint", "int", "fixedbytes"}, t.bytes = bytes[i],
           NEW u, u.category \in {"uint", "int", "fixedbytes"}, u.bytes = bytes[j],
           NEW Areas, NEW base \in [area : Areas, number : Nat], NEW st, IsStorage(st),
           NEW v \in Word,
           NEW a, a = ComputeOffsets(bytes, sizes)[i], NEW p, p = ComputeOffsets(bytes, sizes)[j]
    PROVE  /\ RetrieveValue(StoreValue(st, t, Plus(base, a.slot), a.byte, v), t, Plus(base, a.slot), a.byte)
                = Cleaned(t, v)
           /\ j < i \/ t.category # "uint" \/ v = Cleaned(t, v) =>
                RetrieveValue(StoreValue(st, t, Plus(base, a.slot), a.byte, v), u, Plus(base, p.slot), p.byte)
                  = RetrieveValue(st, u, Plus(base, p.slot), p.byte)
           /\ RetrieveValue(SetValueToZero(st, t, Plus(base, a.slot), a.byte), t, Plus(base, a.slot), a.byte)
                = ZeroWord
           /\ RetrieveValue(SetValueToZero(st, t, Plus(base, a.slot), a.byte), u, Plus(base, p.slot), p.byte)
                = RetrieveValue(st, u, Plus(base, p.slot), p.byte)
<1>1. IsItem(t, a.byte) /\ a.slot \in Nat
  BY ValueMemberIsItem
<1>2. IsItem(u, p.byte) /\ p.slot \in Nat
  BY ValueMemberIsItem
<1>3. PICK x, y : x = Plus(base, a.slot) /\ y = Plus(base, p.slot)
  OBVIOUS
<1>4. PICK k, l : k = a.byte /\ l = p.byte
  OBVIOUS
<1>5. IsItem(t, k) /\ IsItem(u, l) /\ (a.slot # p.slot => x # y)
  <2>1. a.slot # p.slot => x # y
    BY <1>1, <1>2, <1>3, SlotsApart
  <2> QED
    BY <1>1, <1>2, <1>4, <2>1
<1>6. x # y \/ (i < j /\ k + t.bytes <= l) \/ (j < i /\ l + u.bytes <= k)
  <2>1. CASE i < j
    BY <1>4, <1>5, <2>1, ValueMembersInOrder
  <2>2. CASE j < i
    BY <1>4, <1>5, <2>2, ValueMembersInOrder
  <2> QED
    BY <2>1, <2>2, LengthIsNumber
<1>7. RetrieveValue(StoreValue(st, t, x, k, v), t, x, k) = Cleaned(t, v)
  BY <1>5, StoreRetrieves
<1>8. j < i \/ t.category # "uint" \/ v = Cleaned(t, v) =>
        RetrieveValue(StoreValue(st, t, x, k, v), u, y, l) = RetrieveValue(st, u, y, l)
  <2>1. SUFFICES ASSUME j < i \/ t.category # "uint" \/ v = Cleaned(t, v)
                 PROVE  RetrieveValue(StoreValue(st, t, x, k, v), u, y, l) = RetrieveValue(st, u, y, l)
    OBVIOUS
  <2>2. \/ x # y
        \/ l + u.bytes <= k
        \/ k + t.bytes <= l /\ (t.category # "uint" \/ v = Cleaned(t, v))
    <3>1. ~(i < j /\ j < i)
      BY LengthIsNumber
    <3> QED
      BY <1>6, <2>1, <3>1
  <2> QED
    BY <1>5, <2>2, StoreKeepsOthers
<1>9. /\ RetrieveValue(SetValueToZero(st, t, x, k), t, x, k) = ZeroWord
      /\ RetrieveValue(SetValueToZero(st, t, x, k), u, y, l) = RetrieveValue(st, u, y, l)
  <2>1. x # y \/ ItemBytes(t, k) \cap ItemBytes(u, l) = {}
    BY <1>5, <1>6 DEF ItemBytes, IsItem
  <2> QED
    BY <1>5, <2>1, DeleteClears
<1> QED
  BY <1>3, <1>4, <1>7, <1>8, <1>9
=============================================================================
