---------------------------- MODULE MCCowScript ----------------------------
(***************************************************************************)
(* Instances of CowScript for TLC: programs, all short token sequences,    *)
(* and all small expression trees.                                         *)
(***************************************************************************)
EXTENDS CowScript

MCSpelling ==
    [t \in {"let", "if", "else", "while", "fn", "return", "on", "true", "false", "null", "and",
            "or", "not", "f", "x", "n", "d", "print", "start", "update", "0", "1", "2", "3"} |->
        CASE t = "let" -> <<"l", "e", "t">> [] t = "if" -> <<"i", "f">>
          [] t = "else" -> <<"e", "l", "s", "e">> [] t = "while" -> <<"w", "h", "i", "l", "e">>
          [] t = "fn" -> <<"f", "n">> [] t = "return" -> <<"r", "e", "t", "u", "r", "n">>
          [] t = "on" -> <<"o", "n">> [] t = "true" -> <<"t", "r", "u", "e">>
          [] t = "false" -> <<"f", "a", "l", "s", "e">> [] t = "null" -> <<"n", "u", "l", "l">>
          [] t = "and" -> <<"a", "n", "d">> [] t = "or" -> <<"o", "r">>
          [] t = "not" -> <<"n", "o", "t">> [] t = "print" -> <<"p", "r", "i", "n", "t">>
          [] t = "start" -> <<"s", "t", "a", "r", "t">>
          [] t = "update" -> <<"u", "p", "d", "a", "t", "e">>
          [] OTHER -> <<t>>]
    @@ ("'yes'" :> <<"y", "e", "s">>)
    @@ ("'odd'" :> <<"/", "/", "\n", "\\", "\"">>)
MCNames == {"f", "x", "n", "d", "print", "start", "update"}
MCNumerals == ("0" :> 0) @@ ("1" :> 1) @@ ("2" :> 2) @@ ("3" :> 3)
MCLiterals == {"'yes'", "'odd'"}

Counter == <<"let", "n", "=", "0",
             "on", "update", "(", "d", ")", "{",
             "n", "=", "(", "n", "+", "d", ")", "%", "3", ";", "print", "(", "n", ")", "}">>
Calls == <<"fn", "f", "(", "x", ")", "{", "return", "x", "+", "1", "}",
           "on", "update", "(", "d", ")", "{", "print", "(", "f", "(", "f", "(", "f", "(", "d", ")", ")", ")", ")", "}">>
Leak == <<"on", "start", "(", ")", "{", "x", "=", "1", ";", "if", "(", "x", ")", "{", "n", "=", "2", "}", "}",
          "on", "update", "(", "d", ")", "{", "print", "(", "n", ")", "}">>
Shadow == <<"let", "x", "=", "1", "on", "start", "(", ")", "{", "let", "x", "=", "2", ";", "x", "=", "0", "}",
            "on", "update", "(", "d", ")", "{", "print", "(", "d", "/", "x", ")", "}">>
Fails == <<"let", "n", "=", "1",
           "on", "update", "(", "d", ")", "{", "n", "=", "1", "-", "n", ";", "print", "(", "d", "/", "n", ")", "}">>
Loops == <<"on", "start", "(", ")", "{", "}",
           "on", "update", "(", "d", ")", "{", "while", "(", "true", ")", "{", "x", "=", "d", "}", "}">>
Nested == <<"on", "update", "(", "d", ")", "{", "while", "(", "true", ")",
            "{", "let", "x", "=", "0", "while", "(", "x", "<", "2", ")", "{", "x", "=", "x", "+", "1", "}", "}", "}">>
Recurses == <<"fn", "f", "(", ")", "{", "return", "f", "(", ")", "}", "on", "start", "(", ")", "{", "f", "(", ")", "}">>
TopLoop == <<"while", "(", "not", "null", ")", "{", "}">>
Chain == <<"on", "update", "(", "d", ")", "{", "if", "(", "d", "==", "2", ")", "{", "}",
           "else", "if", "(", "d", "==", "1", ")", "{", "print", "(", "'yes'", ")", "}", "else", "{", "}", "}">>

Programs == {Counter, Calls, Leak, Shadow, Fails, Loops, Nested, Recurses, TopLoop, Chain}
MCModest == {Counter, Calls, Shadow, Leak, Fails, Chain}

Short == UNION {[1..n -> {"let", "x", "=", "1", "-", "(", ")", "{", "}", "return"}] : n \in 1..4}
MCSources == Programs \union Short

Leaves == {[k |-> "ident", name |-> "x"], [k |-> "num", n |-> 1]}
Over(es) ==
    es \union {[k |-> "unary", op |-> op, e |-> e] : op \in {"-", "not"}, e \in es}
       \union {[k |-> "call", name |-> "f", args |-> <<e>>] : e \in es}
       \union {[k |-> "assign", name |-> "x", e |-> e] : e \in es}
       \union {Binary(op, l, r) : op \in {"or", "and", "==", "<", "-", "*"}, l \in es, r \in es}
MCExpressions == Over(Over(Leaves)) \union Over(Leaves \union {[k |-> "str", s |-> "'odd'"]})
=============================================================================
