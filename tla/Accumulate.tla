----------------------------- MODULE Accumulate -----------------------------
(***************************************************************************)
(* Folds whose intermediate results are values.  TLC evaluates an argument *)
(* of an operator where it is used, as often as it is used; a variable     *)
(* bound by \in is evaluated once.                                         *)
(***************************************************************************)
EXTENDS Integers, Sequences

\* F(v), with v evaluated once.
With(v, F(_)) == CHOOSE r \in {F(x) : x \in {v}} : TRUE

\* op(... op(op(base, seq[1]), seq[2]) ..., seq[Len(seq)]).
Accumulated(op(_, _), base, seq) ==
    LET RECURSIVE from(_, _)
        from(acc, rest) ==
            IF rest = <<>> THEN acc
            ELSE With(<<acc, rest>>, LAMBDA p : from(op(p[1], Head(p[2])), Tail(p[2]))) IN
    from(base, seq)

\* x after op until done, or after 2 ^ n times op.
Iterated(op(_), done(_), x, n) ==
    LET RECURSIVE times(_, _)
        times(v, k) == IF done(v) THEN v
                       ELSE IF k = 0 THEN op(v)
                       ELSE With(times(v, k - 1), LAMBDA w : times(w, k - 1)) IN
    times(x, n)
=============================================================================
