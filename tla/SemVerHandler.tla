--------------------------- MODULE SemVerHandler ----------------------------
(***************************************************************************)
(* libsolidity/analysis/SemVerHandler: version pragmas.  The expression    *)
(* comes as the tokens of the scanner with their literals as characters;   *)
(* whitespace between tokens is gone, and one version number is usually    *)
(* more than one token: 0.4.1 is the numbers "0.4" and ".1".  What the     *)
(* parsed expression matches is in VersionMatch.                           *)
(***************************************************************************)
EXTENDS Integers, Sequences, SequencesExt, Accumulate, VersionMatch

DecimalDigits == <<"0", "1", "2", "3", "4", "5", "6", "7", "8", "9">>
IsDigit(c) == \E i \in DOMAIN DecimalDigits : DecimalDigits[i] = c
DigitValue(c) == (CHOOSE i \in DOMAIN DecimalDigits : DecimalDigits[i] = c) - 1

-----------------------------------------------------------------------------
(* SemVerVersion: three numbers, then a pre-release and a build label.     *)

\* The end of the digits from position i on.
RECURSIVE DigitsEnd(_, _)
DigitsEnd(chars, i) ==
    IF i <= Len(chars) /\ IsDigit(chars[i]) THEN DigitsEnd(chars, i + 1) ELSE i
NumberIn(chars, from, to) ==
    Accumulated(LAMBDA v, c : Wrapped(v * 10 + DigitValue(c)), 0, SubSeq(chars, from, to - 1))
SemVerVersion(chars) ==
    LET major == DigitsEnd(chars, 1)
        minor == DigitsEnd(chars, major + 1)
        patch == DigitsEnd(chars, minor + 1)
        dotAt(i) == i <= Len(chars) /\ chars[i] = "."
        labelled(i, c) == i <= Len(chars) /\ chars[i] = c
        plus == {i \in patch..Len(chars) : chars[i] = "+"}
        valid == dotAt(major) /\ dotAt(minor)
                 /\ (patch = Len(chars) + 1 \/ labelled(patch, "-") \/ labelled(patch, "+")) IN
    [valid |-> valid,
     numbers |-> IF ~valid THEN <<0, 0, 0>>
                 ELSE <<NumberIn(chars, 1, major), NumberIn(chars, major + 1, minor),
                        NumberIn(chars, minor + 1, patch)>>,
     prerelease |-> valid /\ labelled(patch, "-") /\ patch < Len(chars) /\ patch + 1 \notin plus]

-----------------------------------------------------------------------------
(* SemVerMatchExpressionParser.  p is its position: token and character.   *)

CurrentChar(p) ==
    IF p.pos > Len(p.tokens) THEN ""
    ELSE LET literal == p.tokens[p.pos].literal IN
         IF p.inside > Len(literal) THEN "" ELSE literal[p.inside]
CurrentToken(p) == IF p.pos > Len(p.tokens) THEN "Illegal" ELSE p.tokens[p.pos].token
NextToken(p) == [p EXCEPT !.pos = @ + 1, !.inside = 1]
NextChar(p) ==
    IF p.pos > Len(p.tokens) THEN p
    ELSE IF p.inside >= Len(p.tokens[p.pos].literal) THEN NextToken(p)
    ELSE [p EXCEPT !.inside = @ + 1]
SemVerError(p) == [p EXCEPT !.failed = TRUE]

\* Digits up to the end of the token.
RECURSIVE VersionDigits(_, _, _)
VersionDigits(p, start, v) ==
    LET d == DigitValue(CurrentChar(p)) IN
    IF p.pos # start \/ ~IsDigit(CurrentChar(p)) THEN [p EXCEPT !.out = v]
    ELSE IF Wrapped(v * 10) < v \/ Wrapped(v * 10 + d) < Wrapped(v * 10) THEN SemVerError(p)
    ELSE VersionDigits(NextChar(p), start, Wrapped(v * 10 + d))
ParseVersionPart(p) ==
    LET c == CurrentChar(p)
        next == NextChar(p) IN
    CASE c \in {"x", "X", "*"} -> [next EXCEPT !.out = Wildcard]
      [] c = "0" -> [next EXCEPT !.out = 0]
      [] IsDigit(c) /\ c # "0" -> VersionDigits(next, p.pos, DigitValue(c))
      [] OTHER -> SemVerError(next)

MatchPrefixes == {"BitXor", "BitNot", "LessThan", "LessThanOrEqual", "GreaterThan",
                  "GreaterThanOrEqual", "Assign"}
RECURSIVE VersionLevels(_, _, _)
VersionLevels(p, numbers, level) ==
    With(ParseVersionPart(p), LAMBDA part :
        LET now == [numbers EXCEPT ![level] = part.out] IN
        IF part.failed THEN part
        ELSE IF level < 3 /\ CurrentChar(part) = "." THEN VersionLevels(NextChar(part), now, level + 1)
        ELSE [(IF CurrentChar(part) = "." THEN NextChar(part) ELSE part)
                EXCEPT !.out = [numbers |-> now, levelsPresent |-> level]])
ParseMatchComponent(p) ==
    LET prefixed == CurrentToken(p) \in MatchPrefixes IN
    With(VersionLevels(IF prefixed THEN NextToken(p) ELSE p, <<0, 0, 0>>, 1), LAMBDA levels :
        IF levels.failed THEN levels
        ELSE [levels EXCEPT !.out = [prefix |-> IF prefixed THEN CurrentToken(p) ELSE "Assign",
                                     numbers |-> @.numbers, levelsPresent |-> @.levelsPresent]])

RECURSIVE ConjunctionRest(_, _), ParseDisjunction(_, _)
ConjunctionRest(p, acc) ==
    IF p.failed THEN p
    ELSE IF CurrentToken(p) \in {"Or", "Illegal"} THEN [p EXCEPT !.out = acc]
    ELSE With(ParseMatchComponent(p), LAMBDA c : ConjunctionRest(c, Append(acc, c.out)))
ParseMatchExpression(p) ==
    LET range(first, last) ==
            IF last.failed THEN last
            ELSE [last EXCEPT !.out = <<[first.out EXCEPT !.prefix = "GreaterThanOrEqual"],
                                        [last.out EXCEPT !.prefix = "LessThanOrEqual"]>>] IN
    With(ParseMatchComponent(p), LAMBDA first :
        IF first.failed THEN first
        ELSE IF CurrentToken(first) # "Sub" THEN ConjunctionRest(first, <<first.out>>)
        ELSE With(ParseMatchComponent(NextToken(first)), LAMBDA last : range(first, last)))
ParseDisjunction(p, acc) ==
    With(ParseMatchExpression(p), LAMBDA range :
        LET now == Append(acc, range.out) IN
        IF range.failed THEN <<>>
        ELSE IF range.pos > Len(range.tokens) THEN now
        ELSE IF CurrentToken(range) # "Or" THEN <<>>
        ELSE ParseDisjunction(NextToken(range), now))
ParseMatch(tokens) ==
    ParseDisjunction([tokens |-> tokens, pos |-> 1, inside |-> 1, failed |-> FALSE, out |-> 0], <<>>)
=============================================================================
