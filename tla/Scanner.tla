------------------------------ MODULE Scanner -------------------------------
(***************************************************************************)
(* libsolidity/parsing/Scanner and CharStream: from characters to tokens.  *)
(*                                                                         *)
(* A character is a string of length one, "" the end of the input.  The    *)
(* state of the scanner holds the text, the position in it, the character  *)
(* looked at, which is not always the one at the position, and what is     *)
(* being scanned: a token with its literal, the comment in front of it.    *)
(***************************************************************************)
EXTENDS Integers, Sequences, SequencesExt, Accumulate, TLC

-----------------------------------------------------------------------------
(* Characters.                                                             *)

Digit == {"0", "1", "2", "3", "4", "5", "6", "7", "8", "9"}
HexDigit == Digit \cup {"a", "b", "c", "d", "e", "f", "A", "B", "C", "D", "E", "F"}
WhiteSpace == {" ", "\n", "\t", "\r"}
IdentifierStart ==
    {"_", "$"}
    \cup {"a", "b", "c", "d", "e", "f", "g", "h", "i", "j", "k", "l", "m", "n", "o", "p", "q",
          "r", "s", "t", "u", "v", "w", "x", "y", "z"}
    \cup {"A", "B", "C", "D", "E", "F", "G", "H", "I", "J", "K", "L", "M", "N", "O", "P", "Q",
          "R", "S", "T", "U", "V", "W", "X", "Y", "Z"}
IdentifierPart == IdentifierStart \cup Digit
Quote == {"\"", "'"}

-----------------------------------------------------------------------------
(* CharStream.                                                             *)

IsPastEndOfInput(s, forward) == s.pos + forward >= Len(s.text)
Get(s, forward) == IF IsPastEndOfInput(s, forward) THEN "" ELSE s.text[s.pos + forward + 1]
AtPosition(s, p) == [s EXCEPT !.pos = p, !.char = IF p >= Len(s.text) THEN "" ELSE s.text[p + 1]]
AdvanceAndGet(s, n) == IF IsPastEndOfInput(s, 0) THEN [s EXCEPT !.char = ""] ELSE AtPosition(s, s.pos + n)
Rollback(s, n) == AtPosition(s, s.pos - n)
AdvanceChar(s) == AdvanceAndGet(s, 1)

-----------------------------------------------------------------------------
(* Literals.                                                               *)

AddLiteralChar(s, c) == [s EXCEPT !.literal = Append(@, c)]
AddCommentLiteralChar(s, c) == [s EXCEPT !.comment = Append(@, c)]
AddLiteralCharAndAdvance(s) == AdvanceChar(AddLiteralChar(s, s.char))
Scanned(s, token) == [s EXCEPT !.token = token]
\* The literal of a token that is not complete is dropped.
Dropped(s) == [s EXCEPT !.token = "Illegal", !.literal = <<>>]
SelectToken(s, token) == Scanned(AdvanceChar(s), token)

RECURSIVE SkipChars(_, _), TakeChars(_, _)
SkipChars(s, set) == IF s.char \in set THEN SkipChars(AdvanceChar(s), set) ELSE s
TakeChars(s, set) == IF s.char \in set THEN TakeChars(AddLiteralCharAndAdvance(s), set) ELSE s

-----------------------------------------------------------------------------
(* Comments.                                                               *)

RECURSIVE SkipLine(_), SkipBlock(_), DocLines(_), DocBlock(_, _)
SkipLine(s) == IF s.char = "\n" \/ IsPastEndOfInput(s, 0) THEN s ELSE SkipLine(AdvanceChar(s))

\* Mutant: the line terminator counts as part of the comment, and so does
\* the character behind it.
SkipSingleLineCommentPast(s) == Scanned(AdvanceChar(AdvanceChar(SkipLine(s))), "Whitespace")

SkipSingleLineComment(s) == Scanned(SkipLine(s), "Whitespace")

\* The closing "/" is consumed as a blank: the position stays on it.
SkipBlock(s) ==
    LET next == AdvanceChar(s) IN
    IF IsPastEndOfInput(s, 0) THEN Scanned(s, "Illegal")
    ELSE IF s.char = "*" /\ next.char = "/" THEN Scanned([next EXCEPT !.char = " "], "Whitespace")
    ELSE SkipBlock(next)
SkipMultiLineComment(s) == SkipBlock(AdvanceChar(s))

At(s, chars) == \A k \in DOMAIN chars : Get(s, k - 1) = chars[k]
Added(s) == AdvanceChar(AddCommentLiteralChar(s, s.char))

\* Lines that start with "///" continue the comment.
DocLines(s) ==
    LET next == SkipChars(s, WhiteSpace)
        joined == AdvanceAndGet(AddCommentLiteralChar(next, "\n"), 3) IN
    IF IsPastEndOfInput(s, 0) THEN s
    ELSE IF s.char # "\n" THEN DocLines(Added(s))
    ELSE IF ~IsPastEndOfInput(next, 3) /\ At(next, <<"/", "/", "/">>) THEN DocLines(Added(joined))
    ELSE next
ScanSingleLineDocComment(s) ==
    DocLines(SkipChars(AdvanceChar([s EXCEPT !.comment = <<>>]), WhiteSpace \ {"\n"}))

\* The first "*" of a line is left out; added says whether the comment has
\* any characters yet.
Closes(s) == ~IsPastEndOfInput(s, 1) /\ At(s, <<"*", "/">>)
DocBlock(s, added) ==
    LET line == SkipChars(s, WhiteSpace)
        broken == IF added THEN AddCommentLiteralChar(line, "\n") ELSE line
        now == CASE s.char # "\n" -> s
                 [] s.char = "\n" /\ Get(line, 0) = "*" /\ ~IsPastEndOfInput(line, 1) /\ ~Closes(line) ->
                      AdvanceAndGet(broken, 2)
                 [] s.char = "\n" /\ Closes(line) -> line
                 [] OTHER -> broken IN
    IF IsPastEndOfInput(s, 0) THEN s
    ELSE IF Closes(now) THEN AdvanceAndGet(now, 2)
    ELSE DocBlock(Added(now), TRUE)
ScanMultiLineDocComment(s) == DocBlock([s EXCEPT !.comment = <<>>], FALSE)

\* Whatever becomes of a documentation comment, it counts as a blank.
ScanSlash(s) ==
    LET second == AdvanceChar(s)
        third == AdvanceChar(second)
        inside == SkipChars(AdvanceChar(third), WhiteSpace \ {"\n"}) IN
    CASE second.char = "/" ->
           IF IsPastEndOfInput(third, 0) THEN Scanned(third, "Whitespace")
           ELSE IF third.char = "/" THEN Scanned(ScanSingleLineDocComment(third), "Whitespace")
           ELSE SkipSingleLineComment(third)
      [] second.char = "*" ->
           IF IsPastEndOfInput(third, 0) THEN Scanned(third, "Whitespace")
           ELSE IF third.char # "*" THEN SkipMultiLineComment(third)
           ELSE IF Get(inside, 0) = "/" THEN Scanned(AdvanceChar(inside), "Whitespace")
           ELSE Scanned(ScanMultiLineDocComment(inside), "Whitespace")
      [] second.char = "=" -> SelectToken(second, "AssignDiv")
      [] OTHER -> Scanned(second, "Div")

-----------------------------------------------------------------------------
(* Strings.                                                                *)

HexValue(c) ==
    IF c \in HexDigit
    THEN CHOOSE v \in 0..15 : c \in {<<"0", "1", "2", "3", "4", "5", "6", "7", "8", "9", "a", "b", "c",
                                       "d", "e", "f">>[v + 1],
                                     <<"0", "1", "2", "3", "4", "5", "6", "7", "8", "9", "A", "B", "C",
                                       "D", "E", "F">>[v + 1]}
    ELSE -1
\* n hexadecimal digits: the value, or -1 with everything rolled back.
RECURSIVE ScanHexDigits(_, _, _, _)
ScanHexDigits(s, n, i, x) ==
    IF i = n THEN [s |-> s, value |-> x]
    ELSE IF HexValue(s.char) < 0 THEN [s |-> Rollback(s, i), value |-> -1]
    ELSE ScanHexDigits(AdvanceChar(s), n, i + 1, x * 16 + HexValue(s.char))
ScanHexByte(s) == ScanHexDigits(s, 2, 0, 0)
ScanUnicode(s) == ScanHexDigits(s, 4, 0, 0)

\* Characters that do not stand for themselves are their codes.
UTF8(codepoint) ==
    IF codepoint <= 127 THEN <<codepoint>>
    ELSE IF codepoint <= 2047 THEN <<192 + (codepoint \div 64), 128 + (codepoint % 64)>>
    ELSE <<224 + (codepoint \div 4096), 128 + ((codepoint \div 64) % 64), 128 + (codepoint % 64)>>
AddUnicodeAsUTF8(s, codepoint) == [s EXCEPT !.literal = @ \o UTF8(codepoint)]
Escaped == [b |-> 8, f |-> 12, n |-> 10, r |-> 13, t |-> 9, v |-> 11]

\* After the backslash; a token is set only when the escape is wrong.
ScanEscape(s) ==
    LET next == AdvanceChar(s)
        unicode == ScanUnicode(next)
        byte == ScanHexByte(next) IN
    CASE s.char = "\n" -> next
      [] s.char = "u" -> IF unicode.value < 0 THEN Scanned(unicode.s, "Illegal")
                         ELSE AddUnicodeAsUTF8(unicode.s, unicode.value)
      [] s.char = "x" -> IF byte.value < 0 THEN Scanned(byte.s, "Illegal")
                         ELSE AddLiteralChar(byte.s, byte.value)
      [] OTHER -> AddLiteralChar(next, IF s.char \in DOMAIN Escaped THEN Escaped[s.char] ELSE s.char)

RECURSIVE StringRest(_, _), HexStringRest(_, _)
StringEnd(s, quote) == IF s.char = quote THEN SelectToken(s, "StringLiteral") ELSE Dropped(s)
StringRest(s, quote) ==
    LET next == AdvanceChar(s)
        escape == ScanEscape(next) IN
    IF s.char = quote \/ IsPastEndOfInput(s, 0) \/ s.char = "\n" THEN StringEnd(s, quote)
    ELSE IF s.char # "\\" THEN StringRest(AddLiteralChar(next, s.char), quote)
    ELSE IF IsPastEndOfInput(next, 0) THEN Dropped(next)
    ELSE IF escape.token = "Illegal" THEN Dropped(escape)
    ELSE StringRest(escape, quote)
ScanString(s) == StringRest(AdvanceChar(s), s.char)
HexStringRest(s, quote) ==
    LET byte == ScanHexByte(s) IN
    IF s.char = quote \/ IsPastEndOfInput(s, 0) \/ s.char = "\n" THEN StringEnd(s, quote)
    ELSE IF byte.value < 0 THEN Dropped(byte.s)
    ELSE HexStringRest(AddLiteralChar(byte.s, byte.value), quote)
ScanHexString(s) == HexStringRest(AdvanceChar([s EXCEPT !.literal = <<>>]), s.char)

-----------------------------------------------------------------------------
(* Numbers, identifiers and keywords.                                      *)

ScanDecimalDigits(s) == TakeChars(s, Digit)
Fraction(s) ==
    IF s.char = "." THEN ScanDecimalDigits(AddLiteralCharAndAdvance(s)) ELSE s
Number(s) == IF s.char \in Digit \cup IdentifierStart THEN Dropped(s) ELSE Scanned(s, "Number")
Exponent(s) ==
    LET e == AddLiteralCharAndAdvance(s)
        signed == IF e.char \in {"+", "-"} THEN AddLiteralCharAndAdvance(e) ELSE e IN
    IF s.char \notin {"e", "E"} THEN Number(s)
    ELSE IF signed.char \notin Digit THEN Dropped(signed)
    ELSE Number(ScanDecimalDigits(signed))
\* seen: the decimal point has been consumed already.
ScanNumber(s, seen) ==
    LET zero == IF s.char = "0" THEN AddLiteralCharAndAdvance(s) ELSE s
        x == AddLiteralCharAndAdvance(zero) IN
    IF seen THEN Exponent(ScanDecimalDigits(AddLiteralChar(s, ".")))
    ELSE IF s.char = "0" /\ zero.char \in {"x", "X"}
    THEN IF x.char \in HexDigit THEN Number(TakeChars(x, HexDigit)) ELSE Dropped(x)
    ELSE Exponent(Fraction(ScanDecimalDigits(zero)))

Keywords ==
    [delete |-> "Delete", anonymous |-> "Anonymous", as |-> "As", assembly |-> "Assembly",
     break |-> "Break", constant |-> "Const", continue |-> "Continue", contract |-> "Contract",
     default |-> "Default", do |-> "Do", else |-> "Else", enum |-> "Enum", event |-> "Event",
     external |-> "External", for |-> "For", function |-> "Function", hex |-> "Hex", if |-> "If",
     indexed |-> "Indexed", internal |-> "Internal", import |-> "Import", is |-> "Is",
     library |-> "Library", mapping |-> "Mapping", memory |-> "Memory", modifier |-> "Modifier",
     new |-> "New", payable |-> "Payable", public |-> "Public", pragma |-> "Pragma",
     private |-> "Private", return |-> "Return", returns |-> "Returns", storage |-> "Storage",
     struct |-> "Struct", throw |-> "Throw", using |-> "Using", var |-> "Var", while |-> "While"]
UnitsAndTypes ==
    [wei |-> "SubWei", szabo |-> "SubSzabo", finney |-> "SubFinney", gdtuer |-> "SubGdtuer",
     seconds |-> "SubSecond", minutes |-> "SubMinute", hours |-> "SubHour", days |-> "SubDay",
     weeks |-> "SubWeek", years |-> "SubYear",
     int |-> "Int", uint |-> "UInt", bytes |-> "Bytes", byte |-> "Byte", string |-> "String",
     address |-> "Address", bool |-> "Bool", fixed |-> "Fixed", ufixed |-> "UFixed",
     null |-> "NullLiteral", true |-> "TrueLiteral", false |-> "FalseLiteral"]
Reserved ==
    [abstract |-> "Abstract", after |-> "After", case |-> "Case", catch |-> "Catch",
     final |-> "Final", in |-> "In", inline |-> "Inline", interface |-> "Interface", let |-> "Let",
     match |-> "Match", of |-> "Of", pure |-> "Pure", relocatable |-> "Relocatable",
     static |-> "Static", switch |-> "Switch", try |-> "Try", type |-> "Type",
     typeof |-> "TypeOf", view |-> "View"]
KeywordByName(name) ==
    IF name \in DOMAIN Keywords THEN Keywords[name]
    ELSE IF name \in DOMAIN UnitsAndTypes THEN UnitsAndTypes[name]
    ELSE IF name \in DOMAIN Reserved THEN Reserved[name] ELSE "Identifier"

Text(chars) == Accumulated(LAMBDA text, c : text \o c, "", chars)
\* -1: no digits, or more than an int holds; MaxInt stands for its limit.
MaxInt == 2147483647
ParseSize(digits) ==
    LET add(v, c) == IF v < 0 \/ v > (MaxInt - HexValue(c)) \div 10 THEN -1 ELSE v * 10 + HexValue(c) IN
    IF digits = <<>> THEN -1 ELSE Accumulated(add, 0, digits)
Prefix(chars, set) ==
    LET outside == {i \in DOMAIN chars : chars[i] \notin set} IN
    IF outside = {} THEN chars ELSE SubSeq(chars, 1, (CHOOSE i \in outside : \A j \in outside : i <= j) - 1)
Drop(chars, n) == SubSeq(chars, n + 1, Len(chars))

\* A name with digits is a type of a given size or an identifier.
FromIdentifierOrKeyword(literal) ==
    LET base == Prefix(literal, IdentifierStart)
        digits == Prefix(Drop(literal, Len(base)), Digit)
        rest == Drop(literal, Len(base) + Len(digits))
        m == ParseSize(digits)
        n == ParseSize(Tail(rest))
        keyword == KeywordByName(Text(base))
        token(t, k, l) == [token |-> t, m |-> k, n |-> l] IN
    CASE digits = <<>> -> token(KeywordByName(Text(literal)), 0, 0)
      [] digits # <<>> /\ keyword = "Bytes" /\ rest = <<>> /\ 0 < m /\ m <= 32 -> token("BytesM", m, 0)
      [] digits # <<>> /\ keyword \in {"UInt", "Int"} /\ rest = <<>>
            /\ 0 < m /\ m <= 256 /\ m % 8 = 0 -> token(keyword \o "M", m, 0)
      [] digits # <<>> /\ keyword \in {"UFixed", "Fixed"} /\ rest # <<>> /\ rest[1] = "x"
            /\ (\A i \in 2..Len(rest) : rest[i] \in Digit) /\ 0 <= m /\ 8 <= n
            /\ m + n <= 256 /\ m % 8 = 0 /\ n % 8 = 0 -> token(keyword \o "MxN", m, n)
      [] OTHER -> token("Identifier", 0, 0)
ScanIdentifierOrKeyword(s) ==
    LET named(word, t) ==
            CASE t.token # "Hex" -> [word EXCEPT !.token = t.token, !.size = <<t.m, t.n>>]
              [] t.token = "Hex" /\ word.char \in Quote -> ScanHexString(word)
              [] OTHER -> Scanned(word, "Illegal") IN
    With(TakeChars(AddLiteralCharAndAdvance(s), IdentifierPart), LAMBDA word :
        With(FromIdentifierOrKeyword(word.literal), LAMBDA t : named(word, t)))

-----------------------------------------------------------------------------
(* scanToken.                                                              *)

\* What the switch does on an operator: a character leads on if it is in
\* next, otherwise the token is complete.
Op(token) == [token |-> token, next |-> <<>>]
Ops(token, next) == [token |-> token, next |-> next]
CompareOperators ==
    ("<" :> Ops("LessThan", "=" :> Op("LessThanOrEqual")
                            @@ "<" :> Ops("SHL", "=" :> Op("AssignShl"))))
    @@ (">" :> Ops("GreaterThan",
                   "=" :> Op("GreaterThanOrEqual")
                   @@ ">" :> Ops("SAR", "=" :> Op("AssignSar")
                                        @@ ">" :> Ops("SHR", "=" :> Op("AssignShr")))))
    @@ ("=" :> Ops("Assign", "=" :> Op("Equal") @@ ">" :> Op("Arrow")))
    @@ ("!" :> Ops("Not", "=" :> Op("NotEqual")))
ArithmeticOperators ==
    ("+" :> Ops("Add", "+" :> Op("Inc") @@ "=" :> Op("AssignAdd")))
    @@ ("-" :> Ops("Sub", "-" :> Op("Dec") @@ "=" :> Op("AssignSub")))
    @@ ("*" :> Ops("Mul", "*" :> Op("Exp") @@ "=" :> Op("AssignMul")))
    @@ ("%" :> Ops("Mod", "=" :> Op("AssignMod")))
    @@ ("&" :> Ops("BitAnd", "&" :> Op("And") @@ "=" :> Op("AssignBitAnd")))
    @@ ("|" :> Ops("BitOr", "|" :> Op("Or") @@ "=" :> Op("AssignBitOr")))
    @@ ("^" :> Ops("BitXor", "=" :> Op("AssignBitXor")))
Punctuators ==
    (":" :> Op("Colon")) @@ (";" :> Op("Semicolon")) @@ ("," :> Op("Comma"))
    @@ ("(" :> Op("LParen")) @@ (")" :> Op("RParen")) @@ ("[" :> Op("LBrack"))
    @@ ("]" :> Op("RBrack")) @@ ("{" :> Op("LBrace")) @@ ("}" :> Op("RBrace"))
    @@ ("?" :> Op("Conditional")) @@ ("~" :> Op("BitNot"))
Operators == CompareOperators @@ ArithmeticOperators @@ Punctuators

RECURSIVE ScanOperator(_, _)
ScanOperator(s, operator) ==
    LET next == AdvanceChar(s) IN
    IF next.char \in DOMAIN operator.next THEN ScanOperator(next, operator.next[next.char])
    ELSE Scanned(next, operator.token)

ScanPeriod(s) ==
    LET next == AdvanceChar(s) IN
    IF next.char \in Digit THEN ScanNumber(next, TRUE) ELSE Scanned(next, "Period")
ScanOne(s) ==
    CASE s.char \in {"\n", " ", "\t"} -> SelectToken(s, "Whitespace")
      [] s.char \in Quote -> ScanString(s)
      [] s.char \in DOMAIN Operators -> ScanOperator(s, Operators[s.char])
      [] s.char = "/" -> ScanSlash(s)
      [] s.char = "." -> ScanPeriod(s)
      [] s.char \in IdentifierStart -> ScanIdentifierOrKeyword(s)
      [] s.char \in Digit -> ScanNumber(s, FALSE)
      [] s.char = "\r" -> Scanned(SkipChars(s, WhiteSpace), "Whitespace")
      [] OTHER -> IF IsPastEndOfInput(s, 0) THEN Scanned(s, "EOS") ELSE SelectToken(s, "Illegal")

RECURSIVE ScanFrom(_), ScanRest(_)
ScanFrom(s) ==
    With(ScanOne([s EXCEPT !.from = s.pos, !.token = ""]), LAMBDA one :
        IF one.token = "Whitespace" THEN ScanFrom(one) ELSE one)
ScanToken(s) == ScanFrom([s EXCEPT !.literal = <<>>, !.comment = <<>>, !.size = <<0, 0>>])

\* The tokens next() returns one after the other, up to the end of the input.
ScanRest(s) ==
    With(ScanToken(s), LAMBDA t :
        IF t.token = "EOS" THEN <<>>
        ELSE <<[token |-> t.token, literal |-> t.literal, size |-> t.size, comment |-> t.comment,
                from |-> t.from, to |-> t.pos]>> \o ScanRest(t))
Scan(text) ==
    ScanRest(SkipChars(AtPosition([text |-> text, pos |-> 0, char |-> "", token |-> "", literal |-> <<>>,
                                   comment |-> <<>>, size |-> <<0, 0>>, from |-> 0], 0), WhiteSpace))
=============================================================================
