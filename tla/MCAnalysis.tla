----------------------------- MODULE MCAnalysis -----------------------------
(***************************************************************************)
(* One parse() and what follows it, on two kinds of programs: up to three  *)
(* files that differ in what they import and in how they fail (cycles,     *)
(* missing and broken files, libraries), and up to two files with any of   *)
(* the texts of MCCodegen.                                                 *)
(***************************************************************************)
EXTENDS MCCodegen

\* Import specifiers: "next" and "prev" are relative to the importing file.
ImportUnit == [
    leaf   |-> Good(<<>>, <<Lib("L")>>),
    next   |-> Good(<<All("next")>>, <<Def("C", {}, {})>>),
    both   |-> [Good(<<All("next"), All("prev")>>, <<>>) EXCEPT !.syntaxOk = FALSE],
    empty  |-> [Good(<<>>, <<>>) EXCEPT !.docStringsOk = FALSE],
    broken |-> MCUnit.broken]
AllText == DOMAIN ImportUnit \cup DOMAIN MCUnit
AllUnit == [t \in AllText |-> IF t \in DOMAIN ImportUnit THEN ImportUnit[t] ELSE MCUnit[t]]
Cycle(p) == IF p = NumPaths THEN 1 ELSE p + 1
Back(p) == IF p = 1 THEN NumPaths ELSE p - 1
AllResolve == [r \in MCRemapping |->
                 [next |-> [p \in Path |-> Cycle(p)], prev |-> [p \in Path |-> Back(p)],
                  other |-> MCResolve[r].other]]

\* Bound: the two kinds of programs.
Bounded ==
    LET texts == {sources[p].text : p \in DOMAIN sources} IN
    \/ texts \subseteq DOMAIN ImportUnit /\ remap = "none"
    \/ /\ texts \subseteq DOMAIN MCUnit /\ DOMAIN sources \subseteq {1, 2}
       /\ \A p \in DOMAIN sources : ~sources[p].isLibrary

\* A step within the bound is possible whenever a step is: a file that would
\* leave it may as well not be found.
BoundedSpec == Init /\ [][Next /\ Bounded']_vars /\ WF_vars(Step)
=============================================================================
