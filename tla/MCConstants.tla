---------------------------- MODULE MCConstants ----------------------------
(***************************************************************************)
(* The constant optimiser on words of 15 bytes of two bits: constants are  *)
(* long in bytes, which is what the routines save, yet in TLC's range.     *)
(***************************************************************************)
EXTENDS ConstantOptimiser

MCHash(bytes) == 0

\* Multiples of a power of two, plus and minus a little; a constant without
\* structure; one whose complement is short.
Around(u, k) == {u * 2 ^ k + d : d \in {-1, 0, 1}}
MCConstants == Around(1, 24) \cup Around(3, 24) \cup Around(5, 20)
               \cup {2, 715827882, Size - 5}
MCParams == [isCreation : BOOLEAN, runs : {1}] \cup {[isCreation |-> FALSE, runs |-> 200]}
=============================================================================
