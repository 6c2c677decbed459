----------------------------- MODULE CowScript -----------------------------
(***************************************************************************)
(* The script language of src/script/CowScript.cpp: the parser, the tree-  *)
(* walking interpreter with its execution limits, and a Script object that *)
(* is compiled and whose events are called, as ScriptHost does.            *)
(*                                                                         *)
(* A source is the sequence of the tokens that Lexer finds in its text.    *)
(* A parse yields a tree of records; `at` is the position behind what was  *)
(* parsed, 0 after an error.  An exception of the code is the outcome `r`  *)
(* of an evaluation: "return", "error" (any runtime_error) or "limit"      *)
(* (LimitExceeded).  Numbers are integers and quotients whole.  The only   *)
(* builtin is print; it fills `out`.  Handles and their properties belong  *)
(* to ScriptHost.  The clock of maxMillis is read every Sample steps and   *)
(* found past the deadline from step `late` on.                            *)
(* Operators whose name ends in Fault are seeded bugs, as in GameServer.   *)
(***************************************************************************)
EXTENDS Lexer

CONSTANTS
    Sources,       \* token sequences given to compile()
    Expressions,   \* expression trees, for the check of the parser
    Names,         \* tokens that are names
    Numerals,      \* the number of each numeral
    MaxSteps, MaxCallDepth,     \* Limits
    MaxLoop,       \* iterations of one while statement
    Sample,        \* steps between two looks at the clock
    Lates,         \* steps at which the deadline may pass, 0 for never
    Modest         \* sources that do little work whenever they are called

ASSUME LimitsAssumption ==
    MaxSteps \in Nat /\ MaxCallDepth \in Nat /\ MaxLoop \in Nat /\ Sample \in Nat \ {0}

VARIABLES
    source,     \* what was compiled last
    functions, events,  \* the declarations, in order of the source
    globals,    \* the outermost environment
    lastLimit,  \* lastErrorWasLimit()
    outcome,    \* how the last compile() or callEvent() ended
    steps,      \* the steps it was charged
    out,        \* what it printed
    expr        \* the expression that the parser is checked with

vars == <<source, functions, events, globals, lastLimit, outcome, steps, out, expr>>

-----------------------------------------------------------------------------
(* Parser.  Tok(s, p) is the current token, "end" behind the last.          *)

Tok(s, p) == IF p \in 1..Len(s) THEN s[p] ELSE "end"
Parsed(v, p) == [v |-> v, at |-> p]
Failed == Parsed([k |-> "null"], 0)
Ok(x) == x.at # 0

\* expect(): the position behind the token, 0 if it is another one.
Expect(s, p, t) == IF p # 0 /\ Tok(s, p) = t THEN p + 1 ELSE 0

\* The operators of parseOr, parseAnd, parseEq, parseRel, parseAdd and parseMul.
OperatorsFault == <<{"and"}, {"or"}, {"==", "!="}, {"<", "<=", ">", ">="}, {"+", "-"}, {"*", "/", "%"}>>
Operators == <<{"or"}, {"and"}, {"==", "!="}, {"<", "<=", ">", ">="}, {"+", "-"}, {"*", "/", "%"}>>

\* What is documented: or, and, equality, comparison, sums, products, from loose to tight.
Precedence == <<{"or"}, {"and"}, {"==", "!="}, {"<", "<=", ">", ">="}, {"+", "-"}, {"*", "/", "%"}>>

Binary(op, l, r) == [k |-> "binary", op |-> op, l |-> l, r |-> r]

\* What comes after a part that was parsed; an error ends it all.
Then(x, Rest(_)) == IF Ok(x) THEN Rest(x) ELSE Failed

RECURSIVE ParseAssign(_, _), ParseBinary(_, _, _), Operands(_, _, _), ParseUnary(_, _),
          ParseArgs(_, _, _)

ParsePrimary(s, p) ==
    LET t == Tok(s, p) IN
    CASE t \in DOMAIN Numerals -> Parsed([k |-> "num", n |-> Numerals[t]], p + 1)
      [] t \in Literals -> Parsed([k |-> "str", s |-> t], p + 1)
      [] t \in {"true", "false"} -> Parsed([k |-> "bool", b |-> t = "true"], p + 1)
      [] t = "null" -> Parsed([k |-> "null"], p + 1)
      [] t \in Names -> Parsed([k |-> "ident", name |-> t], p + 1)
      [] t = "(" -> Then(ParseAssign(s, p + 1), LAMBDA x : Parsed(x.v, Expect(s, x.at, ")")))
      [] OTHER -> Failed

\* parseCall: only a name can be called, so a call is never called again.
ParseCall(s, p) ==
    Then(ParsePrimary(s, p), LAMBDA f :
        IF Tok(s, f.at) # "(" THEN f
        ELSE IF f.v.k # "ident" THEN Failed
        ELSE Then(IF Tok(s, f.at + 1) = ")" THEN Parsed(<<>>, f.at + 1)
                  ELSE ParseArgs(s, f.at + 1, <<>>),
                  LAMBDA args :
                      LET end == Expect(s, args.at, ")") IN
                      IF end = 0 \/ Tok(s, end) = "(" THEN Failed
                      ELSE Parsed([k |-> "call", name |-> f.v.name, args |-> args.v], end)))

ParseArgs(s, p, args) ==
    Then(ParseAssign(s, p), LAMBDA a :
        IF Tok(s, a.at) = "," THEN ParseArgs(s, a.at + 1, Append(args, a.v))
        ELSE Parsed(Append(args, a.v), a.at))

ParseUnary(s, p) ==
    IF Tok(s, p) \notin {"-", "not"} THEN ParseCall(s, p)
    ELSE Then(ParseUnary(s, p + 1), LAMBDA x :
             Parsed([k |-> "unary", op |-> s[p], e |-> x.v], x.at))

ParseBinary(level, s, p) ==
    IF level > Len(Operators) THEN ParseUnary(s, p)
    ELSE Then(ParseBinary(level + 1, s, p), LAMBDA lhs : Operands(level, s, lhs))

\* The while loop of a level: left associative.
Operands(level, s, lhs) ==
    IF Tok(s, lhs.at) \notin Operators[level] THEN lhs
    ELSE Then(ParseBinary(level + 1, s, lhs.at + 1), LAMBDA rhs :
             Operands(level, s, Parsed(Binary(s[lhs.at], lhs.v, rhs.v), rhs.at)))

\* parseAssign: right associative, onto a name (or a property, left out here).
ParseAssign(s, p) ==
    Then(ParseBinary(1, s, p), LAMBDA lhs :
        IF Tok(s, lhs.at) # "=" THEN lhs
        ELSE Then(ParseAssign(s, lhs.at + 1), LAMBDA rhs :
                 IF lhs.v.k # "ident" THEN Failed
                 ELSE Parsed([k |-> "assign", name |-> lhs.v.name, e |-> rhs.v], rhs.at)))

RECURSIVE ParseStatement(_, _), ParseStatements(_, _, _)

\* parseBlock: the opening brace is expected at p.
ParseBlock(s, p) ==
    IF Expect(s, p, "{") = 0 THEN Failed
    ELSE Then(ParseStatements(s, p + 1, <<>>), LAMBDA body : Parsed(body.v, Expect(s, body.at, "}")))

ParseStatements(s, p, body) ==
    IF Tok(s, p) \in {"}", "end"} THEN Parsed(body, p)
    ELSE Then(ParseStatement(s, p), LAMBDA x : ParseStatements(s, x.at, Append(body, x.v)))

\* A semicolon is optional.
Semi(s, p) == IF Tok(s, p) = ";" THEN p + 1 ELSE p

\* A condition in parentheses and a block: of if, else if and while.
ParseGuarded(s, p) ==
    IF Tok(s, p) # "(" THEN Failed
    ELSE Then(ParseAssign(s, p + 1), LAMBDA c :
             Then(ParseBlock(s, Expect(s, c.at, ")")), LAMBDA body :
                 Parsed([c |-> c.v, body |-> body.v], body.at)))

If(g, else) == [k |-> "if", c |-> g.c, body |-> g.body, else |-> else]
ParseLast(s, p) == IF Tok(s, p) = "else" THEN ParseBlock(s, p + 1) ELSE Parsed(<<>>, p)

\* `else` behind an `else if` takes a block only.
ParseElse(s, p) ==
    IF Tok(s, p) # "else" \/ Tok(s, p + 1) # "if" THEN ParseLast(s, p)
    ELSE Then(ParseGuarded(s, p + 2), LAMBDA g :
             Then(ParseLast(s, g.at), LAMBDA b : Parsed(<<If(g.v, b.v)>>, b.at)))

ParseStatement(s, p) ==
    CASE Tok(s, p) = "let" ->
           IF Tok(s, p + 1) \notin Names \/ Tok(s, p + 2) # "=" THEN Failed
           ELSE Then(ParseAssign(s, p + 3), LAMBDA e :
                    Parsed([k |-> "let", name |-> s[p + 1], e |-> e.v], Semi(s, e.at)))
      [] Tok(s, p) = "if" ->
           Then(ParseGuarded(s, p + 1), LAMBDA g :
               Then(ParseElse(s, g.at), LAMBDA b : Parsed(If(g.v, b.v), b.at)))
      [] Tok(s, p) = "while" ->
           Then(ParseGuarded(s, p + 1), LAMBDA g :
               Parsed([k |-> "while", c |-> g.v.c, body |-> g.v.body], g.at))
      [] Tok(s, p) = "return" ->
           Then(IF Tok(s, p + 1) \in {";", "}", "end"} THEN Parsed([k |-> "none"], p + 1)
                ELSE ParseAssign(s, p + 1),
                LAMBDA e : Parsed([k |-> "return", e |-> e.v], Semi(s, e.at)))
      [] OTHER ->
           Then(ParseAssign(s, p), LAMBDA e : Parsed([k |-> "expr", e |-> e.v], Semi(s, e.at)))

RECURSIVE ParseParams(_, _, _), ParseProgram(_, _, _)

ParseParams(s, p, params) ==
    IF Tok(s, p) \notin Names THEN Failed
    ELSE IF Tok(s, p + 1) = "," THEN ParseParams(s, p + 2, Append(params, s[p]))
    ELSE Parsed(Append(params, s[p]), p + 1)

\* parseFnLike: `fn` or `on` is at p.
ParseFn(s, p) ==
    IF Tok(s, p + 1) \notin Names \/ Tok(s, p + 2) # "(" THEN Failed
    ELSE Then(IF Tok(s, p + 3) = ")" THEN Parsed(<<>>, p + 3) ELSE ParseParams(s, p + 3, <<>>),
              LAMBDA params :
                  Then(ParseBlock(s, Expect(s, params.at, ")")), LAMBDA body :
                      Parsed([name |-> s[p + 1], params |-> params.v, body |-> body.v], body.at)))

\* What is declared before an error stays declared.
Empty == [fns |-> <<>>, events |-> <<>>, top |-> <<>>, ok |-> TRUE]

Declared(prog, t, x) ==
    CASE t = "fn" -> [prog EXCEPT !.fns = Append(@, x)]
      [] t = "on" -> [prog EXCEPT !.events = Append(@, x)]
      [] OTHER -> [prog EXCEPT !.top = Append(@, x)]

\* From the declaration x on.
More(s, t, prog, x) ==
    IF Ok(x) THEN ParseProgram(s, x.at, Declared(prog, t, x.v)) ELSE [prog EXCEPT !.ok = FALSE]

ParseProgram(s, p, prog) ==
    LET t == Tok(s, p) IN
    IF t = "end" THEN prog
    ELSE More(s, t, prog, IF t \in {"fn", "on"} THEN ParseFn(s, p) ELSE ParseStatement(s, p))

-----------------------------------------------------------------------------
(* Values.                                                                  *)

Null == [t |-> "null"]
Num(n) == [t |-> "num", n |-> n]
Bool(b) == [t |-> "bool", b |-> b]
Str(s) == [t |-> "str", s |-> s]

Truthy(v) == CASE v.t = "bool" -> v.b [] v.t = "num" -> v.n # 0
               [] v.t = "str" -> v.s # "" [] OTHER -> FALSE

\* std::stod of a string that is a numeral; 0 for any other string.
ToNumber(v) ==
    CASE v.t = "num" -> v.n
      [] v.t = "bool" -> IF v.b THEN 1 ELSE 0
      [] v.t = "str" /\ v.s \in DOMAIN Numerals -> Numerals[v.s]
      [] OTHER -> 0

Text(v) ==
    CASE v.t = "num" -> ToString(v.n)
      [] v.t = "bool" -> IF v.b THEN "true" ELSE "false"
      [] v.t = "str" -> v.s
      [] OTHER -> "null"

\* null equals null only; a string compares as text, all else as numbers.
Equal(l, r) ==
    IF l.t = "null" \/ r.t = "null" THEN l.t = r.t
    ELSE IF l.t = "str" \/ r.t = "str" THEN Text(l) = Text(r)
    ELSE ToNumber(l) = ToNumber(r)

Abs(n) == IF n < 0 THEN -n ELSE n
Quotient(a, b) == IF (a < 0) = (b < 0) THEN Abs(a) \div Abs(b) ELSE -(Abs(a) \div Abs(b))

\* A strict binary operator; division by zero is dealt with by its caller.
Operate(op, l, r) ==
    LET a == ToNumber(l)
        b == ToNumber(r)
    IN  CASE op = "+" /\ (l.t = "str" \/ r.t = "str") -> Str(Text(l) \o Text(r))
          [] op = "+" -> Num(a + b) [] op = "-" -> Num(a - b) [] op = "*" -> Num(a * b)
          [] op = "/" -> Num(Quotient(a, b)) [] op = "%" -> Num(a - b * Quotient(a, b))
          [] op = "==" -> Bool(Equal(l, r)) [] op = "!=" -> Bool(~Equal(l, r))
          [] op = "<" -> Bool(a < b) [] op = "<=" -> Bool(a <= b)
          [] op = ">" -> Bool(a > b) [] op = ">=" -> Bool(a >= b)

-----------------------------------------------------------------------------
(* Interpreter.  A state holds the outcome r and value v of what ran last,  *)
(* the global environment g, the local ones env (the innermost last), the   *)
(* steps charged, the call depth, and the text printed.                     *)

Running(st) == st.r = "ok"
Throw(st, r) == [st EXCEPT !.r = r]
Yields(st, v) == IF Running(st) THEN [st EXCEPT !.v = v] ELSE st

\* charge()
Charged(st) ==
    LET n == st.steps + 1 IN
    IF n > MaxSteps \/ (st.late # 0 /\ n >= st.late /\ n % Sample = 0)
    THEN [st EXCEPT !.steps = n, !.r = "limit"]
    ELSE [st EXCEPT !.steps = n]

\* Env::find: the innermost environment that has the name, 0 for the globals.
Holders(st, x) == {i \in 1..Len(st.env) : x \in DOMAIN st.env[i]}
Holder(st, x) == CHOOSE i \in Holders(st, x) \union {0} : \A j \in Holders(st, x) : j <= i
Known(st, x) == Holders(st, x) # {} \/ x \in DOMAIN st.g
Lookup(st, x) == IF Holder(st, x) = 0 THEN st.g[x] ELSE st.env[Holder(st, x)][x]

Bind(frame, x, v) == (x :> v) @@ frame
BindAt(st, i, x, v) ==
    IF i = 0 THEN [st EXCEPT !.g = Bind(@, x, v)] ELSE [st EXCEPT !.env[i] = Bind(@, x, v)]

Define(st, x, v) == BindAt(st, Len(st.env), x, v)

\* Env::assign, and define() in the current environment for a name nobody has.
Assign(st, x, v) == IF Known(st, x) THEN BindAt(st, Holder(st, x), x, v) ELSE Define(st, x, v)

Enter(st) == [st EXCEPT !.env = Append(@, <<>>)]
Leave(st) == [st EXCEPT !.env = SubSeq(@, 1, Len(@) - 1)]

Find(decls, name) == SelectSeq(decls, LAMBDA d : d.name = name)

\* A call that breaches the depth limit undoes its own count; every other call gives
\* its level back however it ends.
DepthAfter(before, st) == before.depth

\* What runs after x, unless x threw.
After(x, Rest(_)) == IF Running(x) THEN Rest(x) ELSE x

RECURSIVE Eval(_, _), EvalAll(_, _, _), Loop(_, _, _)

\* Statements in order, until one throws or returns.
ExecAll(body, st) == FoldLeft(LAMBDA t, s : After(t, LAMBDA u : Eval(s, u)), st, body)

\* A block runs in an environment of its own.
ExecBlock(body, st) == Leave(ExecAll(body, Enter(st)))

\* The arguments of a call, in order; the value is the sequence of theirs.
EvalAll(es, st, vs) ==
    IF es = <<>> THEN [st EXCEPT !.v = vs]
    ELSE After(Eval(Head(es), st), LAMBDA x : EvalAll(Tail(es), x, Append(vs, x.v)))

\* Parameters by their names: the last of the same name counts, missing ones are null.
Locals(params, args) ==
    [x \in Range(params) |->
        LET i == CHOOSE j \in DOMAIN params :
                   params[j] = x /\ \A m \in DOMAIN params : params[m] = x => m <= j
        IN  IF i \in DOMAIN args THEN args[i] ELSE Null]

\* How a call ends: `return` ends the function only, and a function without one gives null.
Returned(end, st) ==
    LET back == [end EXCEPT !.env = st.env, !.depth = DepthAfter(st, end)] IN
    IF end.r = "return" THEN [back EXCEPT !.r = "ok"] ELSE Yields(back, Null)

\* execCall and execFunction: a builtin first, then the first function of that name.
\* The locals of the caller are out of sight, the globals are not.
Call(name, args, st) ==
    LET fns == Find(st.fns, name) IN
    IF name = "print" THEN Yields([st EXCEPT !.out = Append(@, args)], Null)
    ELSE IF fns = <<>> THEN Throw(st, "error")
    ELSE IF st.depth + 1 > MaxCallDepth THEN Throw(st, "limit")
    ELSE Returned(ExecAll(fns[1].body, [st EXCEPT !.env = <<Locals(fns[1].params, args)>>,
                                                  !.depth = @ + 1]),
                  st)

\* The iterations of a while statement.
Loop(s, st, safety) ==
    After(Eval(s.c, st), LAMBDA c :
        IF ~Truthy(c.v) THEN c
        ELSE After(ExecBlock(s.body, c), LAMBDA b :
                 IF safety + 1 > MaxLoop THEN Throw(b, "limit") ELSE Loop(s, b, safety + 1)))

\* The right operand of a binary operator, when the left one does not decide.
Combined(e, l) ==
    IF (e.op = "and" /\ ~Truthy(l.v)) \/ (e.op = "or" /\ Truthy(l.v)) THEN l
    ELSE After(Eval(e.r, l), LAMBDA r :
             IF e.op \in {"and", "or"} THEN r
             ELSE IF e.op \in {"/", "%"} /\ ToNumber(r.v) = 0 THEN Throw(r, "error")
             ELSE Yields(r, Operate(e.op, l.v, r.v)))

\* eval and execStmt of what a step was charged for.
Step(e, st) ==
    CASE e.k = "num" -> Yields(st, Num(e.n))
      [] e.k = "str" -> Yields(st, Str(e.s))
      [] e.k = "bool" -> Yields(st, Bool(e.b))
      [] e.k = "null" -> Yields(st, Null)
      [] e.k = "ident" -> IF Known(st, e.name) THEN Yields(st, Lookup(st, e.name))
                          ELSE Throw(st, "error")
      [] e.k = "assign" -> After(Eval(e.e, st), LAMBDA x : Assign(x, e.name, x.v))
      [] e.k = "call" -> After(EvalAll(e.args, st, <<>>), LAMBDA x : Call(e.name, x.v, x))
      [] e.k = "unary" -> After(Eval(e.e, st), LAMBDA x :
                              Yields(x, IF e.op = "-" THEN Num(-ToNumber(x.v)) ELSE Bool(~Truthy(x.v))))
      [] e.k = "binary" -> After(Eval(e.l, st), LAMBDA l : Combined(e, l))
      [] e.k = "expr" -> Eval(e.e, st)
      [] e.k = "let" -> After(Eval(e.e, st), LAMBDA x : Define(x, e.name, x.v))
      [] e.k = "return" -> After(IF e.e.k = "none" THEN Yields(st, Null) ELSE Eval(e.e, st),
                                 LAMBDA x : Throw(x, "return"))
      [] e.k = "if" -> After(Eval(e.c, st), LAMBDA c :
                           ExecBlock(IF Truthy(c.v) THEN e.body ELSE e.else, c))
      [] e.k = "while" -> Loop(e, st, 0)

Eval(e, st) == After(Charged(st), LAMBDA charged : Step(e, charged))

-----------------------------------------------------------------------------
(* The Script object.                                                       *)

\* beginBudget(): every entry from outside starts with a fresh one.
StartStepsFault == steps
StartSteps == 0

Fresh(fns, g, late) ==
    [r |-> "ok", v |-> Null, g |-> g, env |-> <<>>, fns |-> fns,
     steps |-> StartSteps, depth |-> 0, out |-> <<>>, late |-> late]

\* The catch clauses: LimitExceeded is caught before the exceptions it derives from.
Breached(st) == st.r = "limit"

Init ==
    /\ source = <<>> /\ functions = <<>> /\ events = <<>>
    /\ globals = <<>>
    /\ lastLimit = FALSE /\ outcome = "new" /\ steps = 0 /\ out = <<>>
    /\ expr \in Expressions \union {[k |-> "none"]}

\* What a call from outside leaves: globals, steps, output, and how it ended.
Ends(end, result) ==
    /\ globals' = end.g /\ steps' = end.steps /\ out' = end.out
    /\ lastLimit' = Breached(end) /\ outcome' = result

\* How compile() ends: a failing top level is reported like a parse error.
Compiled(end) ==
    Ends(end, CASE end.r = "return" -> "escaped" [] end.r = "error" -> "parse error" [] OTHER -> end.r)

\* compile() parses, then runs the statements of the top level.
Loaded(prog, late) ==
    /\ functions' = prog.fns /\ events' = prog.events
    /\ IF prog.ok
       THEN Compiled(ExecAll(prog.top, Fresh(prog.fns, <<>>, late)))
       ELSE Ends(Fresh(<<>>, <<>>, late), "parse error")

Compile(src, late) ==
    /\ outcome = "new" /\ expr.k = "none"
    /\ source' = src
    /\ Loaded(ParseProgram(src, 1, Empty), late)
    /\ UNCHANGED expr

Called(end) == Ends(end, end.r)

\* callEvent(): ScriptSystem keeps a script that compiled and disables it when
\* lastErrorWasLimit(); an event the script does not define changes nothing.
CallEvent(name, args, late) ==
    LET decl == Find(events, name) IN
    /\ outcome \notin {"new", "parse error", "escaped"} /\ ~lastLimit
    /\ decl # <<>>
    /\ Called(Call("on", args, Fresh(<<[decl[1] EXCEPT !.name = "on"]>> \o functions, globals, late)))
    /\ UNCHANGED <<source, functions, events, expr>>

Next ==
    \E late \in Lates :
        \/ \E src \in Sources : Compile(src, late)
        \/ CallEvent("start", <<>>, late)
        \/ CallEvent("update", <<Num(1)>>, late)

Spec == Init /\ [][Next]_vars

-----------------------------------------------------------------------------
(* Properties.                                                              *)

\* Types of the variables.
ScriptTypeOK ==
    /\ source \in Sources \union {<<>>}
    /\ \A f \in {functions[i] : i \in DOMAIN functions} \union {events[i] : i \in DOMAIN events} :
           f.name \in Names
    /\ DOMAIN globals \subseteq Names
    /\ lastLimit \in BOOLEAN /\ steps \in 0..(MaxSteps + 1)
    /\ outcome \in {"new", "ok", "error", "limit", "parse error", "escaped"}

\* The tokens of a tree with the fewest parentheses that the levels of Operators allow;
\* `least` is the level an operand must have to go without.
Level(e) == CASE e.k = "assign" -> 0
              [] e.k = "binary" -> CHOOSE i \in 1..6 : e.op \in Precedence[i]
              [] e.k = "unary" -> 7
              [] OTHER -> 8

RECURSIVE Render(_, _)
Render(e, least) ==
    LET bare == CASE e.k = "num" -> <<CHOOSE t \in DOMAIN Numerals : Numerals[t] = e.n>>
                  [] e.k = "ident" -> <<e.name>>
                  [] e.k = "str" -> <<e.s>>
                  [] e.k = "assign" -> <<e.name, "=">> \o Render(e.e, 0)
                  [] e.k = "call" -> <<e.name, "(">> \o Render(e.args[1], 0) \o <<")">>
                  [] e.k = "unary" -> <<e.op>> \o Render(e.e, 7)
                  [] e.k = "binary" -> Render(e.l, Level(e)) \o <<e.op>> \o Render(e.r, Level(e) + 1)
    IN  IF Level(e) < least THEN <<"(">> \o bare \o <<")">> ELSE bare

\* A token as an author would type it, and tokens with `glue` between them: between words,
\* where it is needed, or everywhere.
Escaped(chars) ==
    FoldLeft(LAMBDA text, c : text \o (CASE c \in {Quote, Backslash} -> <<Backslash, c>>
                                         [] c = "\n" -> <<Backslash, "n">>
                                         [] OTHER -> <<c>>), <<>>, chars)
Typed(t) ==
    CASE t \in Literals -> <<Quote>> \o Escaped(Spelling[t]) \o <<Quote>>
      [] t \in DOMAIN Spelling \ Literals -> Spelling[t]
      [] t \in Marks -> <<t>>
      [] OTHER -> <<CHOOSE c \in DOMAIN Paired : Paired[c] = t, "=">>
Typeset(tokens, everywhere, glue) ==
    FoldLeft(LAMBDA text, t :
                 IF text # <<>> /\ (everywhere \/ {Last(text), Typed(t)[1]} \subseteq Letters \union Digits)
                 THEN text \o glue \o Typed(t) ELSE text \o Typed(t), <<>>, tokens)

\* What an author types is what runs: the lexer finds the tokens of a text, with blanks where
\* words would run together or comments between all of them, escapes in strings, and an
\* operator of two characters beside one of one; and the parser reads an expression back as
\* it was meant: precedence, associativity of operators, assignments and signs, and
\* parentheses, over all small trees.
ParsesWhatIsMeant ==
    /\ ScriptTypeOK
    /\ Lex(Typeset(source, TRUE, <<" ", "/", "/", Quote, "\n">>)) = source
    /\ expr.k # "none" =>
           LET s == Lex(Typeset(Render(expr, 0), FALSE, <<" ">>))
           IN  ParseAssign(s, 1) = Parsed(expr, Len(s) + 1)

\* No call leaves behind what a later one could stumble over: a script that breached a limit
\* is never run again (CowScript.hpp, lastErrorWasLimit); budgets are per call, so that a
\* script that does a little work every frame is never cut, however often it is called; and
\* a name that an event or a function assigns without declaring it is gone with its block.
CallsStartAfresh ==
    [][/\ outcome # "limit"
       /\ source' \in Modest => outcome' \in {"ok", "error"}
       /\ source' = source => DOMAIN globals' = DOMAIN globals]_vars

\* compile() "returns an empty string on success or a human-readable error message"
\* (CowScript.hpp).
CompileAnswers == outcome # "escaped"
=============================================================================
