---------------------------- MODULE VersionMatch ----------------------------
(***************************************************************************)
(* The matching of libsolidity/analysis/SemVerHandler: whether a version   *)
(* of the compiler matches the components of a version pragma.  A          *)
(* component has a prefix and up to three numbers, some of which may be    *)
(* wildcards; a version has three numbers and may be a pre-release.        *)
(***************************************************************************)
EXTENDS Integers, TLAPS

CONSTANT UnsignedSize        \* the number of values of an unsigned: 2^32
ASSUME UnsignedSizeAssumption == UnsignedSize \in Nat /\ UnsignedSize >= 20

Wildcard == UnsignedSize - 1
Wrapped(n) == n % UnsignedSize
\* An unsigned difference as an int.
Signed(n) == IF Wrapped(n) >= UnsignedSize \div 2 THEN Wrapped(n) - UnsignedSize ELSE Wrapped(n)

\* The comparison of the levels present, those with a wildcard left out.
Compared(c) == {i \in 1..c.levelsPresent : c.numbers[i] # Wildcard}
Cmp(c, version) ==
    LET different == {i \in Compared(c) : Signed(version.numbers[i] - c.numbers[i]) # 0}
        first == CHOOSE i \in different : \A j \in different : i <= j IN
    IF different # {} THEN Signed(version.numbers[first] - c.numbers[first])
    ELSE IF version.prerelease /\ Compared(c) # {} THEN -1 ELSE 0

MatchesPlain(c, prefix, levels, version) ==
    LET cmp == Cmp([c EXCEPT !.levelsPresent = levels], version) IN
    CASE prefix = "Assign" -> cmp = 0
      [] prefix = "LessThan" -> cmp < 0
      [] prefix = "LessThanOrEqual" -> cmp <= 0
      [] prefix = "GreaterThan" -> cmp > 0
      [] prefix = "GreaterThanOrEqual" -> cmp >= 0

\* Mutant: ^ ends at the next major version also below 1.0.0.
MatchComponentMajor(c, version) ==
    LET upTo(levels) == /\ MatchesPlain(c, "GreaterThanOrEqual", c.levelsPresent, version)
                        /\ MatchesPlain(c, "LessThanOrEqual", levels, version) IN
    CASE c.prefix = "BitNot" -> upTo(IF c.levelsPresent >= 2 THEN 2 ELSE 1)
      [] c.prefix = "BitXor" -> upTo(1)
      [] OTHER -> MatchesPlain(c, c.prefix, c.levelsPresent, version)

MatchComponent(c, version) ==
    LET upTo(levels) == /\ MatchesPlain(c, "GreaterThanOrEqual", c.levelsPresent, version)
                        /\ MatchesPlain(c, "LessThanOrEqual", levels, version) IN
    CASE c.prefix = "BitNot" -> upTo(IF c.levelsPresent >= 2 THEN 2 ELSE 1)
      [] c.prefix = "BitXor" -> upTo(IF c.numbers[1] = 0 THEN 2 ELSE 1)
      [] OTHER -> MatchesPlain(c, c.prefix, c.levelsPresent, version)
MatchConjunction(components, version) ==
    \A i \in DOMAIN components : MatchComponent(components[i], version)
\* An expression that could not be parsed matches nothing.
Matches(disjunction, version) ==
    \E i \in DOMAIN disjunction : MatchConjunction(disjunction[i], version)

-----------------------------------------------------------------------------
(* What components mean: sets of versions, by the order of versions.       *)

\* Numbers whose differences are the same as int and as unsigned.
Small == 0..(UnsignedSize \div 2 - 1)
Versions == [numbers : [1..3 -> Small], prerelease : BOOLEAN]
\* Components with all three numbers and no wildcard.
IsComplete(c) ==
    /\ c \in [prefix : STRING, numbers : [1..3 -> Small], levelsPresent : 1..3]
    /\ c.levelsPresent = 3

\* The numbers x are before the numbers y.
Earlier(x, y) ==
    \/ x[1] < y[1]
    \/ x[1] = y[1] /\ x[2] < y[2]
    \/ x[1] = y[1] /\ x[2] = y[2] /\ x[3] < y[3]
\* The version is the release n or a later one; pre-releases of n are before it.
NotBefore(v, n) == ~Earlier(v.numbers, n) /\ (v.numbers = n => ~v.prerelease)
IsRelease(v, n) == v.numbers = n /\ ~v.prerelease

\* The first numbers that ^ and ~ do not allow any more.
NextIncompatible(n) == IF n[1] = 0 THEN <<0, n[2] + 1, 0>> ELSE <<n[1] + 1, 0, 0>>
NextMinor(n) == <<n[1], n[2] + 1, 0>>

\* The conversion of an unsigned difference to int keeps it for small numbers.
LEMMA SignedDifference ==
    ASSUME NEW x \in Small, NEW y \in Small
    PROVE  Signed(x - y) = x - y
<1>1. PICK u, h : u = UnsignedSize /\ h = u \div 2
  OBVIOUS
<1>2. u \in Nat /\ h \in Nat /\ h > 0 /\ 2 * h <= u
  BY <1>1, UnsignedSizeAssumption
<1>3. x \in 0..(h - 1) /\ y \in 0..(h - 1)
  BY <1>1 DEF Small
<1>4. CASE x >= y
  <2>1. (x - y) % u = x - y
    BY <1>2, <1>3, <1>4
  <2>2. ~(x - y >= h)
    BY <1>2, <1>3, <1>4
  <2> QED
    BY <1>1, <2>1, <2>2 DEF Signed, Wrapped
<1>5. CASE x < y
  <2>1. (x - y) % u = x - y + u
    BY <1>2, <1>3, <1>5
  <2>2. x - y + u >= h /\ (x - y + u) - u = x - y
    BY <1>2, <1>3, <1>5
  <2> QED
    BY <1>1, <2>1, <2>2 DEF Signed, Wrapped
<1> QED
  BY <1>2, <1>3, <1>4, <1>5

LEMMA NoWildcards ==
    ASSUME NEW x \in Small
    PROVE  x # Wildcard /\ x \in Nat
BY UnsignedSizeAssumption DEF Small, Wildcard

\* The loop over the levels stops at the first one that differs.
FirstDifference(n, m, levels, pre) ==
    IF n[1] # m[1] THEN n[1] - m[1]
    ELSE IF levels >= 2 /\ n[2] # m[2] THEN n[2] - m[2]
    ELSE IF levels = 3 /\ n[3] # m[3] THEN n[3] - m[3]
    ELSE IF pre THEN -1 ELSE 0

LEMMA CmpIsFirstDifference ==
    ASSUME NEW c, c.numbers \in [1..3 -> Small], c.levelsPresent \in 1..3, NEW v \in Versions
    PROVE  Cmp(c, v) = FirstDifference(v.numbers, c.numbers, c.levelsPresent, v.prerelease)
<1>1. PICK n, m, l, pre : n = v.numbers /\ m = c.numbers /\ l = c.levelsPresent /\ pre = v.prerelease
  OBVIOUS
<1>2. /\ n \in [1..3 -> Small] /\ m \in [1..3 -> Small] /\ l \in 1..3 /\ pre \in BOOLEAN
  BY <1>1 DEF Versions
<1>3. \A i \in 1..3 : /\ Signed(n[i] - m[i]) = n[i] - m[i] /\ n[i] \in Nat /\ m[i] \in Nat
                      /\ m[i] # Wildcard
  BY <1>2, SignedDifference, NoWildcards
<1>4. Compared(c) = 1..l /\ Compared(c) # {}
  <2>1. Compared(c) = {i \in 1..l : m[i] # Wildcard}
    BY <1>1 DEF Compared
  <2>2. \A i \in 1..l : i \in 1..3
    BY <1>2
  <2>3. Compared(c) = 1..l
    BY <1>3, <2>1, <2>2
  <2>4. 1 \in 1..l
    BY <1>2
  <2> QED
    BY <2>3, <2>4
<1>5. PICK different : different = {i \in 1..l : n[i] # m[i]}
  OBVIOUS
<1>6. different = {i \in Compared(c) : Signed(v.numbers[i] - c.numbers[i]) # 0}
  <2>1. \A i \in 1..l : n[i] # m[i] <=> Signed(n[i] - m[i]) # 0
    BY <1>2, <1>3
  <2> QED
    BY <1>1, <1>4, <1>5, <2>1
<1>7. PICK first : first = CHOOSE i \in different : \A j \in different : i <= j
  OBVIOUS
<1>8. Cmp(c, v) = IF different # {} THEN Signed(n[first] - m[first])
                  ELSE IF pre /\ Compared(c) # {} THEN -1 ELSE 0
  BY <1>1, <1>6, <1>7 DEF Cmp
<1>9. ASSUME NEW i \in different, \A j \in different : i <= j
      PROVE  Cmp(c, v) = n[i] - m[i]
  <2>1. first \in different /\ \A j \in different : first <= j
    BY <1>7, <1>9
  <2>2. first = i
    <3>1. first \in Int /\ i \in Int
      BY <1>2, <1>5, <2>1
    <3> QED
      BY <1>9, <2>1, <3>1
  <2>3. i \in 1..3
    BY <1>2, <1>5
  <2> QED
    BY <1>3, <1>8, <2>2, <2>3
<1>10. CASE n[1] # m[1]
  <2>1. 1 \in different /\ \A j \in different : 1 <= j
    BY <1>2, <1>5, <1>10
  <2> QED
    BY <1>1, <1>9, <1>10, <2>1 DEF FirstDifference
<1>11. CASE n[1] = m[1] /\ l >= 2 /\ n[2] # m[2]
  <2>1. 2 \in different /\ \A j \in different : 2 <= j
    BY <1>2, <1>5, <1>11
  <2> QED
    BY <1>1, <1>9, <1>11, <2>1 DEF FirstDifference
<1>12. CASE n[1] = m[1] /\ ~(l >= 2 /\ n[2] # m[2]) /\ l = 3 /\ n[3] # m[3]
  <2>1. 3 \in different /\ \A j \in different : 3 <= j
    BY <1>2, <1>5, <1>12
  <2> QED
    BY <1>1, <1>9, <1>12, <2>1 DEF FirstDifference
<1>13. CASE n[1] = m[1] /\ ~(l >= 2 /\ n[2] # m[2]) /\ ~(l = 3 /\ n[3] # m[3])
  <2>1. different = {}
    BY <1>2, <1>5, <1>13
  <2> QED
    BY <1>1, <1>4, <1>8, <1>13, <2>1 DEF FirstDifference
<1> QED
  BY <1>10, <1>11, <1>12, <1>13

\* The comparison of a complete component with a version on some levels.
LEMMA PlainComparison ==
    ASSUME NEW c, IsComplete(c), NEW levels \in 1..3, NEW v \in Versions,
           NEW d, d = FirstDifference(v.numbers, c.numbers, levels, v.prerelease)
    PROVE  /\ MatchesPlain(c, "Assign", levels, v) <=> d = 0
           /\ MatchesPlain(c, "LessThan", levels, v) <=> d < 0
           /\ MatchesPlain(c, "LessThanOrEqual", levels, v) <=> d <= 0
           /\ MatchesPlain(c, "GreaterThan", levels, v) <=> d > 0
           /\ MatchesPlain(c, "GreaterThanOrEqual", levels, v) <=> d >= 0
<1>1. PICK e : e = [c EXCEPT !.levelsPresent = levels]
  OBVIOUS
<1>2. e.numbers = c.numbers /\ e.numbers \in [1..3 -> Small] /\ e.levelsPresent = levels
  BY <1>1 DEF IsComplete
<1>3. Cmp(e, v) = d
  <2>1. Cmp(e, v) = FirstDifference(v.numbers, e.numbers, e.levelsPresent, v.prerelease)
    BY <1>2, CmpIsFirstDifference
  <2> QED
    BY <1>2, <2>1
<1> QED
  BY <1>1, <1>3 DEF MatchesPlain

\* The sign of the difference is the order of versions.
LEMMA DifferenceOrders ==
    ASSUME NEW v \in Versions, NEW m \in [1..3 -> Small],
           NEW d, d = FirstDifference(v.numbers, m, 3, v.prerelease)
    PROVE  /\ d \in Int
           /\ d >= 0 <=> NotBefore(v, m)
           /\ d = 0 <=> IsRelease(v, m)
<1>1. PICK n, pre : n = v.numbers /\ pre = v.prerelease
  OBVIOUS
<1>2. n \in [1..3 -> Small] /\ pre \in BOOLEAN
  BY <1>1 DEF Versions
<1>3. n[1] \in Nat /\ n[2] \in Nat /\ n[3] \in Nat /\ m[1] \in Nat /\ m[2] \in Nat /\ m[3] \in Nat
  BY <1>2, NoWildcards
<1>4. n = m <=> n[1] = m[1] /\ n[2] = m[2] /\ n[3] = m[3]
  <2> SUFFICES ASSUME n[1] = m[1], n[2] = m[2], n[3] = m[3] PROVE n = m
    OBVIOUS
  <2>1. \A i \in 1..3 : n[i] = m[i]
    <3>1. \A i \in 1..3 : i = 1 \/ i = 2 \/ i = 3
      OBVIOUS
    <3> QED
      BY <3>1
  <2> QED
    BY <1>2, <2>1
<1>5. d = IF n[1] # m[1] THEN n[1] - m[1]
          ELSE IF n[2] # m[2] THEN n[2] - m[2]
          ELSE IF n[3] # m[3] THEN n[3] - m[3]
          ELSE IF pre THEN -1 ELSE 0
  BY <1>1 DEF FirstDifference
<1>6. CASE pre
  <2>1. d \in Int /\ (d >= 0 <=> ~Earlier(n, m) /\ n # m) /\ ~(d = 0)
    BY <1>3, <1>4, <1>5, <1>6 DEF Earlier
  <2> QED
    BY <1>1, <1>6, <2>1 DEF NotBefore, IsRelease
<1>7. CASE ~pre
  <2>1. d \in Int /\ (d >= 0 <=> ~Earlier(n, m)) /\ (d = 0 <=> n = m)
    BY <1>3, <1>4, <1>5, <1>7 DEF Earlier
  <2> QED
    BY <1>1, <1>7, <2>1 DEF NotBefore, IsRelease
<1> QED
  BY <1>6, <1>7

\* A complete component with a comparison as prefix, or with none, matches
\* the versions that the comparison says, pre-releases being before their
\* release: MatchComponent::matches computes with unsigned numbers and int
\* differences what the order of versions is.
THEOREM ComparisonsFollowOrder ==
    ASSUME NEW c, IsComplete(c), NEW v \in Versions
    PROVE  /\ c.prefix = "Assign" => (MatchComponent(c, v) <=> IsRelease(v, c.numbers))
           /\ c.prefix = "LessThan" => (MatchComponent(c, v) <=> ~NotBefore(v, c.numbers))
           /\ c.prefix = "LessThanOrEqual" =>
                (MatchComponent(c, v) <=> ~NotBefore(v, c.numbers) \/ IsRelease(v, c.numbers))
           /\ c.prefix = "GreaterThan" =>
                (MatchComponent(c, v) <=> NotBefore(v, c.numbers) /\ ~IsRelease(v, c.numbers))
           /\ c.prefix = "GreaterThanOrEqual" => (MatchComponent(c, v) <=> NotBefore(v, c.numbers))
<1>1. PICK d, p : d = FirstDifference(v.numbers, c.numbers, 3, v.prerelease) /\ p = c.prefix
  OBVIOUS
<1>2. c.numbers \in [1..3 -> Small] /\ c.levelsPresent = 3 /\ 3 \in 1..3
  BY DEF IsComplete
<1>3. d \in Int /\ (d >= 0 <=> NotBefore(v, c.numbers)) /\ (d = 0 <=> IsRelease(v, c.numbers))
  BY <1>1, <1>2, DifferenceOrders
<1>4. /\ MatchesPlain(c, "Assign", 3, v) <=> d = 0
      /\ MatchesPlain(c, "LessThan", 3, v) <=> d < 0
      /\ MatchesPlain(c, "LessThanOrEqual", 3, v) <=> d <= 0
      /\ MatchesPlain(c, "GreaterThan", 3, v) <=> d > 0
      /\ MatchesPlain(c, "GreaterThanOrEqual", 3, v) <=> d >= 0
  BY <1>1, <1>2, PlainComparison
<1>5. p \notin {"BitNot", "BitXor"} => MatchComponent(c, v) = MatchesPlain(c, p, 3, v)
  BY <1>1, <1>2 DEF MatchComponent
<1>6. (d < 0 <=> ~(d >= 0)) /\ (d <= 0 <=> ~(d >= 0) \/ d = 0) /\ (d > 0 <=> d >= 0 /\ ~(d = 0))
  BY <1>3
<1>7. CASE p = "Assign"
  BY <1>1, <1>3, <1>4, <1>5, <1>7
<1>8. CASE p = "LessThan"
  BY <1>1, <1>3, <1>4, <1>5, <1>6, <1>8
<1>9. CASE p = "LessThanOrEqual"
  BY <1>1, <1>3, <1>4, <1>5, <1>6, <1>9
<1>10. CASE p = "GreaterThan"
  BY <1>1, <1>3, <1>4, <1>5, <1>6, <1>10
<1>11. CASE p = "GreaterThanOrEqual"
  BY <1>1, <1>3, <1>4, <1>5, <1>11
<1> QED
  BY <1>1, <1>7, <1>8, <1>9, <1>10, <1>11

\* A complete component with ^ matches the versions from its own on that are
\* before the next incompatible one (the next minor version below 1.0.0, else
\* the next major one), and with ~ those before the next minor version: no
\* pre-release of the version itself, nor of the one that ends the range.
THEOREM RangesAreIntervals ==
    ASSUME NEW c, IsComplete(c), NEW v \in Versions
    PROVE  /\ c.prefix = "BitXor" =>
                (MatchComponent(c, v) <=>
                   NotBefore(v, c.numbers) /\ Earlier(v.numbers, NextIncompatible(c.numbers)))
           /\ c.prefix = "BitNot" =>
                (MatchComponent(c, v) <=>
                   NotBefore(v, c.numbers) /\ Earlier(v.numbers, NextMinor(c.numbers)))
<1>1. PICK n, m, pre, d, d1, d2 :
        /\ n = v.numbers /\ m = c.numbers /\ pre = v.prerelease
        /\ d = FirstDifference(n, m, 3, pre) /\ d1 = FirstDifference(n, m, 1, pre)
        /\ d2 = FirstDifference(n, m, 2, pre)
  OBVIOUS
<1>2. m \in [1..3 -> Small] /\ n \in [1..3 -> Small] /\ pre \in BOOLEAN /\ c.levelsPresent = 3
      /\ 1 \in 1..3 /\ 2 \in 1..3 /\ 3 \in 1..3
  BY <1>1 DEF IsComplete, Versions
<1>3. n[1] \in Nat /\ n[2] \in Nat /\ n[3] \in Nat /\ m[1] \in Nat /\ m[2] \in Nat /\ m[3] \in Nat
  BY <1>2, NoWildcards
<1>4. d >= 0 <=> NotBefore(v, m)
  BY <1>1, <1>2, DifferenceOrders
<1>5. MatchesPlain(c, "GreaterThanOrEqual", 3, v) <=> d >= 0
  BY <1>1, <1>2, PlainComparison
<1>6. MatchesPlain(c, "LessThanOrEqual", 1, v) <=> d1 <= 0
  BY <1>1, <1>2, PlainComparison
<1>7. MatchesPlain(c, "LessThanOrEqual", 2, v) <=> d2 <= 0
  BY <1>1, <1>2, PlainComparison
<1>8. d1 <= 0 <=> n[1] <= m[1]
  BY <1>1, <1>2, <1>3 DEF FirstDifference
<1>9. d2 <= 0 <=> n[1] < m[1] \/ (n[1] = m[1] /\ n[2] <= m[2])
  BY <1>1, <1>2, <1>3 DEF FirstDifference
<1>10. d2 <= 0 <=> Earlier(n, NextMinor(m))
  <2>1. NextMinor(m)[1] = m[1] /\ NextMinor(m)[2] = m[2] + 1 /\ NextMinor(m)[3] = 0
    BY DEF NextMinor
  <2> QED
    BY <1>3, <1>9, <2>1 DEF Earlier
<1>11. m[1] # 0 => (d1 <= 0 <=> Earlier(n, NextIncompatible(m)))
  <2> SUFFICES ASSUME m[1] # 0 PROVE d1 <= 0 <=> Earlier(n, NextIncompatible(m))
    OBVIOUS
  <2>1. /\ NextIncompatible(m)[1] = m[1] + 1 /\ NextIncompatible(m)[2] = 0
        /\ NextIncompatible(m)[3] = 0
    BY DEF NextIncompatible
  <2> QED
    BY <1>3, <1>8, <2>1 DEF Earlier
<1>12. m[1] = 0 => NextIncompatible(m) = NextMinor(m)
  BY DEF NextIncompatible, NextMinor
<1>13. CASE c.prefix = "BitXor"
  <2>1. MatchComponent(c, v) <=>
          /\ MatchesPlain(c, "GreaterThanOrEqual", 3, v)
          /\ MatchesPlain(c, "LessThanOrEqual", IF m[1] = 0 THEN 2 ELSE 1, v)
    BY <1>1, <1>2, <1>13 DEF MatchComponent
  <2>2. CASE m[1] = 0
    BY <1>1, <1>4, <1>5, <1>7, <1>10, <1>12, <1>13, <2>1, <2>2
  <2>3. CASE m[1] # 0
    BY <1>1, <1>4, <1>5, <1>6, <1>11, <1>13, <2>1, <2>3
  <2> QED
    BY <2>2, <2>3
<1>14. CASE c.prefix = "BitNot"
  <2>1. MatchComponent(c, v) <=>
          /\ MatchesPlain(c, "GreaterThanOrEqual", 3, v)
          /\ MatchesPlain(c, "LessThanOrEqual", 2, v)
    BY <1>1, <1>2, <1>14 DEF MatchComponent
  <2> QED
    BY <1>1, <1>4, <1>5, <1>7, <1>10, <1>14, <2>1
<1> QED
  BY <1>13, <1>14
=============================================================================
