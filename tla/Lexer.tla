-------------------------------- MODULE Lexer --------------------------------
(***************************************************************************)
(* The lexer of src/script/CowScript.cpp: from the characters of a source  *)
(* to its tokens.                                                          *)
(*                                                                         *)
(* A source text is a sequence of characters.  Spelling gives each word of *)
(* the instance (keyword, name, numeral, string literal) its characters;   *)
(* all other tokens are the operators and marks of the language.  Numbers  *)
(* are whole, so the lexer keeps what is before the point.  Lines and      *)
(* columns, which only error messages use, are left out.                   *)
(***************************************************************************)
EXTENDS Integers, SequencesExt, TLC

CONSTANTS
    Spelling,  \* the characters of each word
    Literals   \* those words that are string literals; spelled without the quotes

Digits == {"0", "1", "2", "3", "4", "5", "6", "7", "8", "9"}
Letters == {"a", "b", "c", "d", "e", "f", "g", "h", "i", "j", "k", "l", "m", "n", "o", "p",
            "q", "r", "s", "t", "u", "v", "w", "x", "y", "z", "_"}
Blanks == {" ", "\t", "\r", "\n"}
Quote == "\""
Backslash == "\\"

Marks == {"+", "-", "*", "/", "%", "(", ")", "{", "}", ",", ";", ".", "=", "<", ">"}
Paired == ("=" :> "==") @@ ("!" :> "!=") @@ ("<" :> "<=") @@ (">" :> ">=")

\* peek(): "" behind the last character.
Peek(c, p) == IF p \in DOMAIN c THEN c[p] ELSE ""

\* The first position from p on whose character is not in the set.
Behind(c, p, set) == Min({q \in p..(Len(c) + 1) : Peek(c, q) \notin set})

RECURSIVE SkipWhitespace(_, _)
SkipWhitespace(c, p) ==
    IF Peek(c, p) \in Blanks THEN SkipWhitespace(c, p + 1)
    ELSE IF Peek(c, p) = "/" /\ Peek(c, p + 1) = "/"
    THEN SkipWhitespace(c, Min({q \in p..(Len(c) + 1) : Peek(c, q) \in {"\n", ""}}))
    ELSE p

Token(t, p) == [token |-> t, at |-> p]

Word(chars) == CHOOSE t \in DOMAIN Spelling \ Literals : Spelling[t] = chars
Literal(chars) == CHOOSE t \in Literals : Spelling[t] = chars

\* std::stod reads up to a second point; what is behind the first is not kept here.
WholePart(chars) ==
    LET whole == SubSeq(chars, 1, Behind(chars, 1, Digits) - 1)
    IN  IF whole = <<>> THEN <<"0">> ELSE whole

Meant(c) == CASE c = "n" -> "\n" [] c = "t" -> "\t" [] c = "r" -> "\r" [] OTHER -> c

\* The rest of a string literal.  One that is never closed ends with the source.
RECURSIVE StringFrom(_, _, _)
StringFrom(c, p, chars) ==
    IF Peek(c, p) \in {Quote, ""} THEN Token(Literal(chars), p + 1)
    ELSE IF c[p] = Backslash /\ p < Len(c) THEN StringFrom(c, p + 2, Append(chars, Meant(c[p + 1])))
    ELSE StringFrom(c, p + 1, Append(chars, c[p]))

NumberStarts(c, p) == Peek(c, p) \in Digits \/ (Peek(c, p) = "." /\ Peek(c, p + 1) \in Digits)
PairStarts(c, p) == Peek(c, p) \in DOMAIN Paired /\ Peek(c, p + 1) = "="

\* next(), from a character that is not skipped.
NextToken(c, p) ==
    CASE NumberStarts(c, p) ->
           LET q == Behind(c, p, Digits \union {"."})
           IN  Token(Word(WholePart(SubSeq(c, p, q - 1))), q)
      [] c[p] \in Letters ->
           LET q == Behind(c, p, Letters \union Digits) IN Token(Word(SubSeq(c, p, q - 1)), q)
      [] c[p] = Quote -> StringFrom(c, p + 1, <<>>)
      [] PairStarts(c, p) -> Token(Paired[c[p]], p + 2)
      [] c[p] \in Marks /\ ~NumberStarts(c, p) /\ ~PairStarts(c, p) -> Token(c[p], p + 1)
      [] OTHER -> Token("unexpected", Len(c) + 1)

\* All tokens from p on.
RECURSIVE TokensFrom(_, _, _)
TokensFrom(c, p, tokens) ==
    LET start == SkipWhitespace(c, p) IN
    IF start > Len(c) THEN tokens
    ELSE LET next == NextToken(c, start) IN TokensFrom(c, next.at, Append(tokens, next.token))

Lex(c) == TokensFrom(c, 1, <<>>)
=============================================================================
