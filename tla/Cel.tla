-------------------------------- MODULE Cel --------------------------------
(***************************************************************************)
(* The languages of policy_as_code.  That of the control checks (cel.py):  *)
(* its regular expressions, its grammar and its values.  A source text is  *)
(* its tokens; doubles are left out.  Err is a CELError and Crash any      *)
(* other exception: both leave evaluate() as a CELError, but has() catches *)
(* the first kind only.  And that of the policies (evaluator.py), with the *)
(* same values: Raised is its error.                                       *)
(***************************************************************************)
EXTENDS Integers, SequencesExt

CONSTANTS
  MaxPattern,  \* bound: operators in a pattern
  MaxSource,   \* and in an expression
  MaxText      \* the longest text a pattern is tried on

VARIABLES
  pattern,   \* what a pattern should mean, as a fragment
  anchors,   \* whether it is anchored at either end
  tree,      \* what an expression should mean
  written    \* the operators written so far

Char(s, i) == IF i \in 1..Len(s) THEN SubSeq(s, i, i) ELSE ""
Chars(s) == {Char(s, i) : i \in 1..Len(s)}

\* The characters of the patterns and texts, in code order.
Alphabet == "\n -09AZ_abz"
Rank(c) == CHOOSE i \in 1..Len(Alphabet) : Char(Alphabet, i) = c
Within(c, lo, hi) ==
    {c, lo, hi} \subseteq Chars(Alphabet) /\ Rank(lo) <= Rank(c) /\ Rank(c) <= Rank(hi)

-----------------------------------------------------------------------------
\* Patterns: a fragment and the index after it, or index 0 when malformed.

Bad == <<<<"bad">>, 0>>

Digits == {<<"0", "9">>}
WordChars == Digits \cup {<<"a", "z">>, <<"A", "Z">>, <<"_", "_">>}
Blanks == {<<" ", " ">>, <<"\n", "\n">>}
Escapes == [d |-> Digits, w |-> WordChars, s |-> Blanks]
Negated == [D |-> Digits, W |-> WordChars, S |-> Blanks]

RECURSIVE ClassItems(_, _, _)
ClassItems(p, i, ranges) ==
    LET escaped == Char(p, i) = "\\" /\ Char(p, i + 1) # ""
        at == IF escaped THEN i + 1 ELSE i
        c == Char(p, at)
        range == Char(p, at + 1) = "-" /\ Char(p, at + 2) \notin {"", "]"}
    IN CASE Char(p, i) \in {"", "]"} -> <<ranges, i>>
         [] escaped /\ c \in DOMAIN Negated -> <<ranges, 0>>
         [] escaped /\ c \in DOMAIN Escapes -> ClassItems(p, i + 2, ranges \cup Escapes[c])
         [] OTHER ->
              IF range THEN ClassItems(p, at + 3, ranges \cup {<<c, Char(p, at + 2)>>})
              ELSE ClassItems(p, at + 1, ranges \cup {<<c, c>>})

CharClass(p, i) ==
    LET negate == Char(p, i) = "^"
        items == ClassItems(p, IF negate THEN i + 1 ELSE i, {})
    IN IF Char(p, items[2]) = "]" THEN <<<<"class", items[1], negate>>, items[2] + 1>> ELSE Bad

RECURSIVE AltFrom(_, _), CatFrom(_, _, _), Repeated(_, _)

Atom(p, i) ==
    LET c == Char(p, i)
        e == Char(p, i + 1)
        inner == AltFrom(p, i + 1)
    IN CASE c = "(" -> IF Char(p, inner[2]) = ")" THEN <<inner[1], inner[2] + 1>> ELSE Bad
         [] c = "." -> <<<<"any">>, i + 1>>
         [] c = "[" -> CharClass(p, i + 1)
         [] c = "\\" ->
              (CASE e = "" -> Bad
                 [] e \in DOMAIN Escapes -> <<<<"class", Escapes[e], FALSE>>, i + 2>>
                 [] e \in DOMAIN Negated -> <<<<"class", Negated[e], TRUE>>, i + 2>>
                 [] OTHER -> <<<<"char", e>>, i + 2>>)
         [] OTHER -> <<<<"char", c>>, i + 1>>

Repeated(p, piece) ==
    IF Char(p, piece[2]) \in {"*", "+", "?"}
    THEN Repeated(p, <<<<Char(p, piece[2]), piece[1]>>, piece[2] + 1>>)
    ELSE piece

CatFrom(p, i, node) ==
    IF Char(p, i) \in {"", "|", ")"} THEN <<node, i>>
    ELSE LET piece == Repeated(p, Atom(p, i))
         IN IF piece[2] = 0 THEN Bad
            ELSE CatFrom(p, piece[2],
                         IF node = <<"empty">> THEN piece[1] ELSE <<"cat", node, piece[1]>>)

AltFrom(p, i) ==
    LET RECURSIVE More(_)
        More(left) ==
            IF Char(p, left[2]) = "|"
            THEN LET right == CatFrom(p, left[2] + 1, <<"empty">>)
                 IN IF right[2] = 0 THEN Bad ELSE More(<<<<"alt", left[1], right[1]>>, right[2]>>)
            ELSE left
    IN More(CatFrom(p, i, <<"empty">>))

-----------------------------------------------------------------------------
\* The automaton: states numbered from 1, 0 accepts.

Accept == 0

RECURSIVE Compile(_, _, _)
\* <<states, entry>>: from the entry control flows through node to next.
Compile(node, states, next) ==
    LET k == node[1]
        split == Len(states) + 1
        Loop == LET body == Compile(node[2], Append(states, <<"split", next, next>>), split)
                IN [body EXCEPT ![1][split] = <<"split", body[2], next>>]
    IN CASE k = "empty" -> <<states, next>>
         [] k = "cat" -> LET second == Compile(node[3], states, next)
                         IN Compile(node[2], second[1], second[2])
         [] k = "alt" -> LET a == Compile(node[2], states, next)
                             b == Compile(node[3], a[1], next)
                         IN <<Append(b[1], <<"split", a[2], b[2]>>), Len(b[1]) + 1>>
         [] k = "?" -> LET a == Compile(node[2], states, next)
                       IN <<Append(a[1], <<"split", a[2], next>>), Len(a[1]) + 1>>
         [] k = "*" -> <<Loop[1], split>>
         [] k = "+" -> Loop
         [] OTHER -> <<Append(states, <<"read", node, next>>), split>>

\* The states reached from todo without reading a character.
RECURSIVE AddState(_, _, _)
AddState(states, todo, seen) ==
    IF todo = {} THEN {i \in seen : i = Accept \/ states[i][1] = "read"}
    ELSE LET splits == {i \in todo : i # Accept /\ states[i][1] = "split"}
             reached == UNION {{states[i][2], states[i][3]} : i \in splits}
         IN AddState(states, reached \ (seen \cup todo), seen \cup todo)

StateMatches(node, c) ==
    CASE node[1] = "any" -> c # "\n"
      [] node[1] = "char" -> c = node[2]
      [] OTHER -> (\E r \in node[2] : Within(c, r[1], r[2])) # node[3]

Anchored(p) == [start |-> Char(p, 1) = "^",
                end |-> LET body == IF Char(p, 1) = "^" THEN SubSeq(p, 2, Len(p)) ELSE p
                        IN Char(body, Len(body)) = "$" /\ Char(body, Len(body) - 1) # "\\"]

Body(p) == SubSeq(p, IF Anchored(p).start THEN 2 ELSE 1,
                  IF Anchored(p).end THEN Len(p) - 1 ELSE Len(p))

\* A malformed pattern is Bad's fragment.
ParsePattern(p) ==
    LET parsed == AltFrom(Body(p), 1)
    IN IF parsed[2] = Len(Body(p)) + 1 THEN parsed[1] ELSE <<"bad">>

\* An unanchored pattern may start at every offset.
Restart(ends, entry) == IF ends.start THEN {} ELSE {entry}

Search(node, ends, text) ==
    LET nfa == Compile(node, <<>>, Accept)
        Read(now, i) == {s \in now \ {Accept} : StateMatches(nfa[1][s][2], Char(text, i))}
        Step(now, i) == AddState(nfa[1], {nfa[1][s][3] : s \in Read(now, i)}
                                           \cup Restart(ends, nfa[2]), {})
        RECURSIVE Scan(_, _)
        Scan(now, i) == \/ Accept \in now /\ (~ends.end \/ i > Len(text))
                        \/ i <= Len(text) /\ now # {} /\ Scan(Step(now, i), i + 1)
    IN Scan(AddState(nfa[1], {nfa[2]}, {}), 1)

RegexSearch(p, text) == Search(ParsePattern(p), Anchored(p), text)

-----------------------------------------------------------------------------
\* The grammar over tokens <<kind, value>>.  A node and the index after it,
\* or index 0 when the source is malformed.

At(t, i, value) == i # 0 /\ t[i][1] \in {"punct", "ident"} /\ t[i][2] = value

\* eat() looks at the value only: a string in the place of a bracket is taken.
Eat(t, i, value) ==
    IF i # 0 /\ t[i][1] \in {"punct", "ident", "str"} /\ t[i][2] = value THEN i + 1 ELSE 0

BinaryPrecedence == <<{"||"}, {"&&"}, {"==", "!=", "<", "<=", ">", ">=", "in"},
                      {"+", "-"}, {"*", "/", "%"}>>
Keywords == [true |-> <<"bool", TRUE>>, false |-> <<"bool", FALSE>>, null |-> <<"null">>]

RECURSIVE Ternary(_, _), Binary(_, _, _), Unary(_, _), Postfix(_, _), Listed(_, _, _, _)

Ternary(t, i) ==
    LET c == Binary(t, i, 1)
        a == Ternary(t, c[2] + 1)
        b == Ternary(t, Eat(t, a[2], ":"))
    IN CASE i = 0 -> Bad
         [] i # 0 /\ ~At(t, c[2], "?") -> c
         [] OTHER -> IF b[2] = 0 THEN Bad ELSE <<<<"cond", c[1], a[1], b[1]>>, b[2]>>

Binary(t, i, level) ==
    LET RECURSIVE More(_)
        More(left) ==
            IF \E o \in BinaryPrecedence[level] : At(t, left[2], o)
            THEN LET right == Binary(t, left[2] + 1, level + 1)
                 IN IF right[2] = 0 THEN Bad
                    ELSE More(<<<<"bin", t[left[2]][2], left[1], right[1]>>, right[2]>>)
            ELSE left
    IN IF level > Len(BinaryPrecedence) THEN Unary(t, i) ELSE More(Binary(t, i, level + 1))

Unary(t, i) ==
    LET operand == Unary(t, i + 1)
    IN IF At(t, i, "!") \/ At(t, i, "-")
       THEN IF operand[2] = 0 THEN Bad
            ELSE <<<<IF At(t, i, "!") THEN "not" ELSE "neg", operand[1]>>, operand[2]>>
       ELSE Postfix(t, i)

\* What stands between an opening bracket, at i - 1, and close.
Listed(t, i, close, items) ==
    IF items = <<>> /\ At(t, i, close) THEN <<items, i + 1>>
    ELSE LET item == Ternary(t, i)
         IN CASE item[2] = 0 -> <<items, 0>>
              [] At(t, item[2], ",") -> Listed(t, item[2] + 1, close, Append(items, item[1]))
              [] OTHER -> <<Append(items, item[1]), Eat(t, item[2], close)>>

\* The key and value pairs of a map, from i.
RECURSIVE Pairs(_, _, _)
Pairs(t, i, pairs) ==
    LET key == Ternary(t, i)
        value == Ternary(t, Eat(t, key[2], ":"))
        now == Append(pairs, <<key[1], value[1]>>)
    IN CASE value[2] = 0 -> <<pairs, 0>>
         [] At(t, value[2], ",") -> Pairs(t, value[2] + 1, now)
         [] OTHER -> <<now, Eat(t, value[2], "}")>>

Primary(t, i) ==
    LET k == t[i][1]
        v == t[i][2]
        inner == Ternary(t, i + 1)
        args == Listed(t, i + 2, ")", <<>>)
        items == Listed(t, i + 1, "]", <<>>)
        pairs == IF At(t, i + 1, "}") THEN <<<<>>, i + 2>> ELSE Pairs(t, i + 1, <<>>)
        Only(node, at) == IF at = 0 THEN Bad ELSE <<node, at>>
    IN CASE i = 0 -> Bad
         [] k = "num" -> <<<<"lit", <<"int", v>>>>, i + 1>>
         [] k = "str" -> <<<<"lit", <<"str", v>>>>, i + 1>>
         [] k = "ident" ->
              (CASE v \in DOMAIN Keywords -> <<<<"lit", Keywords[v]>>, i + 1>>
                 [] v \notin DOMAIN Keywords /\ At(t, i + 1, "(") -> Only(<<"call", v, args[1]>>, args[2])
                 [] OTHER -> <<<<"ident", v>>, i + 1>>)
         [] At(t, i, "(") -> Only(inner[1], Eat(t, inner[2], ")"))
         [] At(t, i, "[") -> Only(<<"list", items[1]>>, items[2])
         [] At(t, i, "{") -> Only(<<"map", pairs[1]>>, pairs[2])
         [] OTHER -> Bad

Postfix(t, i) ==
    LET RECURSIVE More(_)
        More(node) ==
            LET at == node[2]
                args == Listed(t, at + 3, ")", <<node[1]>>)
                none == <<<<node[1]>>, at + 4>>
                idx == Ternary(t, at + 1)
            IN CASE At(t, at, ".") ->
                      (CASE t[at + 1][1] # "ident" -> Bad
                         [] t[at + 1][1] = "ident" /\ ~At(t, at + 2, "(") ->
                              More(<<<<"select", node[1], t[at + 1][2]>>, at + 2>>)
                         [] OTHER ->
                              LET all == IF At(t, at + 3, ")") THEN none ELSE args
                              IN IF all[2] = 0 THEN Bad
                                 ELSE More(<<<<"call", t[at + 1][2], all[1]>>, all[2]>>))
                 [] At(t, at, "[") ->
                      LET next == Eat(t, idx[2], "]")
                      IN IF next = 0 THEN Bad ELSE More(<<<<"index", node[1], idx[1]>>, next>>)
                 [] OTHER -> node
    IN More(Primary(t, i))

\* The tree of a source text, which ends where its tokens end.
Parse(t) ==
    LET node == Ternary(Append(t, <<"eof", "">>), 1)
    IN IF node[2] = Len(t) + 1 THEN node[1] ELSE <<"bad">>

-----------------------------------------------------------------------------
\* Values: <<"int", n>>, <<"str", s>>, <<"bool", b>>, <<"list", values>>,
\* <<"map", a function of strings>>, <<"null">>, and the failures.

Err == <<"error">>
Crash == <<"exception">>
Failures == {Err, Crash}

\* What is evaluated in order and fails raises the first failure.
Unless(values, result) ==
    LET failed == SelectInSeq(values, LAMBDA v : v \in Failures)
    IN IF failed = 0 THEN result ELSE values[failed]

Bool(b) == <<"bool", b>>
True == Bool(TRUE)
False == Bool(FALSE)

\* Python's ==, for which a bool is an int.
AsInt(v) == IF v[1] = "bool" THEN IF v[2] THEN 1 ELSE 0 ELSE v[2]
Countable(v) == v[1] \in {"int", "bool"}
Same(a, b) == IF Countable(a) /\ Countable(b) THEN AsInt(a) = AsInt(b) ELSE a = b

Magnitude(n) == IF n < 0 THEN -n ELSE n

\* MUTANT: the quotient is Python's, rounded down.
QuotientFloor(a, b) == IF b > 0 THEN a \div b ELSE (-a) \div (-b)

\* The quotient is rounded towards zero.
Quotient(a, b) == LET q == Magnitude(a) \div Magnitude(b) IN IF (a < 0) # (b < 0) THEN -q ELSE q

Arithmetic(op, a, b) ==
    CASE op = "+" -> a + b
      [] op = "-" -> a - b
      [] op = "*" -> a * b
      [] op = "/" -> Quotient(a, b)
      [] OTHER -> a - b * Quotient(a, b)

Compare(op, a, b) ==
    CASE op = "<" -> a < b
      [] op = "<=" -> a <= b
      [] op = ">" -> a > b
      [] OTHER -> a >= b

HasPart(s, part) == \E i \in 1..(Len(s) + 1) : SubSeq(s, i, i + Len(part) - 1) = part

Member(a, b) ==
    CASE b[1] = "list" -> Bool(\E i \in DOMAIN b[2] : Same(a, b[2][i]))
      [] b[1] = "map" /\ a[1] \notin {"list", "map"} -> Bool(a[1] = "str" /\ a[2] \in DOMAIN b[2])
      [] b[1] = "str" /\ a[1] = "str" -> Bool(HasPart(b[2], a[2]))
      [] OTHER -> IF b[1] \in {"map", "str"} THEN Crash ELSE Err

\* Strings and lists are never ordered by a check: only integers are, here.
\* What cannot be ordered is an error of the host language, but for bools and
\* null.
BinaryOp(op, a, b) ==
    LET ints == a[1] = "int" /\ b[1] = "int"
        ordering == op \in {"<", "<=", ">", ">="}
    IN CASE op = "==" -> Bool(Same(a, b))
         [] op = "!=" -> Bool(~Same(a, b))
         [] op = "in" -> Member(a, b)
         [] ordering /\ ints -> Bool(Compare(op, a[2], b[2]))
         [] ordering /\ {"bool", "null"} \cap {a[1], b[1]} = {} /\ ~ints -> Crash
         [] op = "+" /\ a[1] = b[1] /\ a[1] \in {"str", "list"} -> <<a[1], a[2] \o b[2]>>
         [] op \in {"+", "-", "*"} /\ ints -> <<"int", Arithmetic(op, a[2], b[2])>>
         [] op \in {"/", "%"} /\ ints /\ b # <<"int", 0>> -> <<"int", Arithmetic(op, a[2], b[2])>>
         [] OTHER -> Err

\* Subscripting is Python's: from the end when negative, by a bool as by an int.
Index(base, idx) ==
    LET n == Len(base[2])
        i == IF AsInt(idx) < 0 THEN AsInt(idx) + n + 1 ELSE AsInt(idx) + 1
    IN CASE base[1] = "map" /\ idx[1] = "str" /\ idx[2] \in DOMAIN base[2] -> base[2][idx[2]]
         [] base[1] = "list" /\ Countable(idx) /\ i \in 1..n -> base[2][i]
         [] base[1] = "str" /\ Countable(idx) /\ i \in 1..n -> <<"str", Char(base[2], i)>>
         [] OTHER -> Err

Select(base, name) ==
    IF base[1] = "map" /\ name \in DOMAIN base[2] THEN base[2][name] ELSE Err

Extreme(values, Better(_, _)) ==
    CASE values = <<>> -> Err
      [] Len(values) = 1 -> values[1]
      [] Len(values) > 1 /\ \A i \in DOMAIN values : Countable(values[i]) ->
           values[CHOOSE i \in DOMAIN values :
                    /\ \A j \in DOMAIN values : ~Better(AsInt(values[j]), AsInt(values[i]))
                    /\ \A j \in 1..(i - 1) : AsInt(values[j]) # AsInt(values[i])]
      [] OTHER -> Crash

\* The text functions, on strings; matches is linear in both.
TextFunction(name, a, b) ==
    CASE name = "startsWith" -> Bool(SubSeq(a, 1, Len(b)) = b)
      [] name = "endsWith" -> Bool(Len(a) >= Len(b) /\ SubSeq(a, Len(a) - Len(b) + 1, Len(a)) = b)
      [] name = "contains" -> Bool(HasPart(a, b))
      [] OTHER -> IF ParsePattern(b) = <<"bad">> THEN Err ELSE Bool(RegexSearch(b, a))

\* The conversions, int, double, string, lower and upper, are left out.
Function(name, v) ==
    LET n == Len(v)
        several == IF n = 1 /\ v[1][1] = "list" THEN v[1][2] ELSE v
    IN CASE name = "size" /\ n = 1 /\ v[1][1] \in {"str", "list"} -> <<"int", Len(v[1][2])>>
         [] name = "size" /\ n = 1 /\ v[1][1] = "map" -> <<"int", Cardinality(DOMAIN v[1][2])>>
         [] name = "abs" /\ n = 1 -> IF Countable(v[1]) THEN <<"int", Magnitude(AsInt(v[1]))>> ELSE Crash
         [] name = "min" -> Extreme(several, <)
         [] name = "max" -> Extreme(several, >)
         [] name \in {"startsWith", "endsWith", "contains", "matches"} /\ n = 2
              /\ v[1][1] = "str" /\ v[2][1] = "str" -> TextFunction(name, v[1][2], v[2][2])
         [] OTHER -> Err

-----------------------------------------------------------------------------
Macros == {"all", "exists", "exists_one", "filter", "map"}

\* The results of the predicate on every item, combined: all and exists stop
\* at the item that decides, filter and exists_one ask every one for a bool.
Combine(name, items, results) ==
    LET bools == \A i \in DOMAIN results : results[i][1] = "bool"
        First(other) == SelectInSeq(results, LAMBDA r : r # other)
        true == {i \in DOMAIN results : results[i] = True}
        Until(other) == LET i == First(other)
                        IN CASE i = 0 -> other
                             [] i # 0 /\ results[i][1] = "bool" -> results[i]
                             [] OTHER -> Err
    IN CASE name = "map" -> <<"list", results>>
         [] name = "all" -> Until(True)
         [] name = "exists" -> Until(False)
         [] ~bools -> Err
         [] name = "exists_one" -> Bool(Cardinality(true) = 1)
         [] OTHER -> <<"list", SelectSeq(items, LAMBDA v : \E i \in true : items[i] = v)>>

RECURSIVE Eval(_, _)

Macro(name, args, ctx) ==
    LET n == Len(args)
        var == IF n = 3 THEN args[2][2] ELSE "x"
        seq == Eval(args[1], ctx)
        Bound(item) == [y \in DOMAIN ctx \cup {var} |-> IF y = var THEN item ELSE ctx[y]]
        results == [i \in DOMAIN seq[2] |-> Eval(args[n], Bound(seq[2][i]))]
    IN IF n \notin {2, 3} \/ (n = 3 /\ args[2][1] # "ident") THEN Err
       ELSE IF seq[1] # "list" THEN Unless(<<seq>>, Err)
       ELSE Unless(results, Combine(name, seq[2], results))

\* has() catches a CELError and lets every other exception pass.
Has(args, ctx) ==
    IF Len(args) = 1 /\ args[1][1] = "select"
    THEN LET base == Eval(args[1][2], ctx)
         IN IF base = Crash THEN Crash
            ELSE Bool(base[1] = "map" /\ args[1][3] \in DOMAIN base[2])
    ELSE Err

\* && and || look at the right operand only when the left one does not decide.
Logical(op, a, b) ==
    CASE a = Bool(op = "||") -> a
      [] a = Bool(op = "&&") -> IF b[1] = "bool" THEN b ELSE Unless(<<b>>, Err)
      [] OTHER -> Unless(<<a>>, Err)

\* A map: the last entry of a key counts, and keys are strings here.
MapOf(keys, values) ==
    IF \A i \in DOMAIN keys : keys[i][1] = "str"
    THEN <<"map", [k \in {keys[i][2] : i \in DOMAIN keys} |->
                     values[SelectLastInSeq(keys, LAMBDA v : v[2] = k)]]>>
    ELSE Err

Eval(node, ctx) ==
    LET k == node[1]
        One == Eval(node[2], ctx)
        Two == Eval(node[3], ctx)
        All(nodes) == [i \in DOMAIN nodes |-> Eval(nodes[i], ctx)]
    IN CASE k = "lit" -> node[2]
         [] k = "ident" -> IF node[2] \in DOMAIN ctx THEN ctx[node[2]] ELSE Err
         [] k = "list" -> Unless(All(node[2]), <<"list", All(node[2])>>)
         [] k = "map" -> LET keys == All([i \in DOMAIN node[2] |-> node[2][i][1]])
                             values == All([i \in DOMAIN node[2] |-> node[2][i][2]])
                         IN Unless(FlattenSeq([i \in DOMAIN node[2] |-> All(node[2][i])]),
                                   MapOf(keys, values))
         [] k = "not" -> IF One[1] = "bool" THEN Bool(~One[2]) ELSE Unless(<<One>>, Err)
         [] k = "neg" -> IF One[1] = "int" THEN <<"int", -One[2]>> ELSE Unless(<<One>>, Err)
         [] k = "cond" -> (CASE One = True -> Two [] One = False -> Eval(node[4], ctx)
                             [] OTHER -> Unless(<<One>>, Err))
         [] k = "select" -> Unless(<<One>>, Select(One, node[3]))
         [] k = "index" -> Unless(<<One, Two>>, Index(One, Two))
         [] k = "bin" /\ node[2] \in {"&&", "||"} -> Logical(node[2], Two, Eval(node[4], ctx))
         [] k = "bin" /\ node[2] \notin {"&&", "||"} ->
              LET a == Two
                  b == Eval(node[4], ctx)
              IN Unless(<<a, b>>, BinaryOp(node[2], a, b))
         [] k = "call" /\ node[2] \in Macros -> Macro(node[2], node[3], ctx)
         [] k = "call" /\ node[2] = "has" -> Has(node[3], ctx)
         [] OTHER -> Unless(All(node[3]), Function(node[2], All(node[3])))

\* A source text that does not parse has no value; one error type leaves.
Evaluate(tokens, ctx) ==
    LET value == IF Parse(tokens) = <<"bad">> THEN Err ELSE Eval(Parse(tokens), ctx)
    IN IF value = Crash THEN Err ELSE value

-----------------------------------------------------------------------------
\* The language of the policies: SafeEvaluator (evaluator.py).  An expression is
\* <<"const", v>>, <<"name", n>>, <<"dotted", n, key>>, <<"and" or "or", e, f>>,
\* <<"not", e>>, <<"compare", op, e, f>>, <<"minus", e, f>>, <<"call", function, e>>,
\* <<"all", "any" or "count", collection, predicate>>.  A policy's parameters are
\* constants of its expressions.

Null == <<"null">>
Raised == <<"raised">>

Truthy(v) ==
    CASE v[1] = "bool" -> v[2]
      [] v[1] = "int" -> v[2] # 0
      [] v[1] = "str" -> v[2] # ""
      [] v[1] = "list" -> v[2] # <<>>
      [] v[1] = "map" -> DOMAIN v[2] # {}
      [] OTHER -> FALSE

Names(ctx, n) == IF n \in DOMAIN ctx THEN ctx[n] ELSE Null

Functions == {"len"}

\* What cannot be compared is not so.
Compared(op, a, b) ==
    CASE op = "==" -> Same(a, b)
      [] op = "!=" -> ~Same(a, b)
      [] op = "<=" -> Countable(a) /\ Countable(b) /\ AsInt(a) <= AsInt(b)
      [] OTHER -> b[1] = "list" /\ \E v \in ToSet(b[2]) : Same(a, v)

RECURSIVE Walk(_, _)

Across(node, ctx) ==
    LET seq == Walk(node[2], ctx)
        items == IF seq[1] = "list" THEN seq[2] ELSE <<>>
        tests == [i \in DOMAIN items |->
                    Walk(node[3], IF items[i][1] = "map" THEN items[i][2] ELSE [value |-> items[i]])]
        \* all and any stop at the item that decides; an error before it escapes.
        Stops(i) == Truthy(tests[i]) = (node[1] = "any")
        first == SelectInSeq([i \in DOMAIN tests |-> tests[i] = Raised \/ Stops(i)], LAMBDA b : b)
    IN IF seq = Raised THEN Raised
       ELSE IF node[1] = "count"
         THEN IF Raised \in ToSet(tests) THEN Raised
              ELSE <<"int", Len(SelectSeq(tests, Truthy))>>
       ELSE IF first = 0 THEN Bool(node[1] = "all")
       ELSE IF tests[first] = Raised THEN Raised ELSE Bool(node[1] = "any")

Walk(node, ctx) ==
    LET k == node[1]
        One == Walk(node[2], ctx)
        Two == Walk(node[3], ctx)
        Three == Walk(node[4], ctx)
    IN CASE k = "const" -> node[2]
         [] k = "name" -> Names(ctx, node[2])
         [] k = "dotted" -> LET base == Names(ctx, node[2])
                            IN IF base[1] = "map" THEN Names(base[2], node[3]) ELSE Null
         [] k \in {"and", "or"} ->
              (CASE One = Raised -> Raised
                 [] One # Raised /\ Truthy(One) = (k = "or") -> Bool(k = "or")
                 [] OTHER -> IF Two = Raised THEN Raised ELSE Bool(Truthy(Two)))
         [] k = "not" -> IF One = Raised THEN Raised ELSE Bool(~Truthy(One))
         [] k = "compare" -> IF Raised \in {Two, Three} THEN Raised
                             ELSE Bool(Compared(node[2], Two, Three))
         [] k = "minus" -> IF Raised \in {One, Two} THEN Raised
                           ELSE IF Countable(One) /\ Countable(Two)
                                THEN <<"int", AsInt(One) - AsInt(Two)>> ELSE <<"int", 0>>
         [] k = "call" /\ node[2] \in Functions ->
              (CASE Two = Raised -> Raised
                 [] Two[1] \in {"list", "str"} -> <<"int", Len(Two[2])>>
                 [] Two[1] = "map" -> <<"int", Cardinality(DOMAIN Two[2])>>
                 [] OTHER -> <<"int", 0>>)
         [] k = "call" /\ node[2] \notin Functions -> Raised
         [] OTHER -> Across(node, ctx)

\* The fields an expression reads: a predicate's are the items', and a name
\* that is also called is taken for a function.
RECURSIVE NamesIn(_), Called(_)
Parts(node) ==
    CASE node[1] \in {"const", "name", "dotted"} -> {}
      [] node[1] = "compare" -> {node[3], node[4]}
      [] node[1] \in {"and", "or", "minus"} -> {node[2], node[3]}
      [] node[1] = "call" -> {node[3]}
      [] OTHER -> {node[2]}
NamesIn(node) == (IF node[1] \in {"name", "dotted"} THEN {node[2]} ELSE {})
                 \cup UNION {NamesIn(part) : part \in Parts(node)}
Called(node) == (CASE node[1] = "call" -> {node[2]}
                   [] node[1] \in {"all", "any", "count"} -> {node[1]}
                   [] OTHER -> {}) \cup UNION {Called(part) : part \in Parts(node)}
FreeNames(node) == NamesIn(node) \ Called(node)

\* Whether a rule holds, "yes" or "no", or "raised".
Truth(e, ctx) ==
    LET value == Walk(e, ctx)
    IN IF value = Raised THEN "raised" ELSE IF Truthy(value) THEN "yes" ELSE "no"

\* A field has the name of a function the expression calls.
Shadowed(e) == NamesIn(e) \cap Called(e) # {}

\* The names of the evidence the evaluation comes to ask for.
RECURSIVE Consulted(_, _)
Consulted(node, ctx) ==
    CASE node[1] \in {"name", "dotted"} -> {node[2]}
      [] node[1] \in {"and", "or"} ->
           Consulted(node[2], ctx)
             \cup IF Truthy(Walk(node[2], ctx)) = (node[1] = "or") THEN {} ELSE Consulted(node[3], ctx)
      [] OTHER -> UNION {Consulted(part, ctx) : part \in Parts(node)}

-----------------------------------------------------------------------------
\* Patterns and expressions are written one operator at a time.

Letters == {<<"char", "a">>, <<"any">>, <<"class", WordChars, FALSE>>,
            <<"class", {<<"a", "b">>, <<"-", "-">>}, TRUE>>}

Longer(f) ==
    {<<op, f>> : op \in {"*", "+", "?"}}
    \cup {<<op, f, g>> : op \in {"cat", "alt"}, g \in Letters \cup {<<"empty">>}}
    \cup {<<op, g, f>> : op \in {"cat", "alt"}, g \in Letters}

Num(n) == <<"lit", <<"int", n>>>>
Leaves == {Num(2), <<"ident", "n">>}
Seeds == Leaves \cup {<<"ident", "x">>, <<"ident", "xs">>, <<"ident", "m">>, <<"ident", "b">>,
                     <<"lit", True>>, <<"lit", <<"null">>>>}
\* The other comparisons stand where < stands.
Operators == UNION Range(BinaryPrecedence) \ {"!=", "<=", ">", ">="}
Call(name, args) == <<"call", name, args>>

Wider(e) ==
    {<<"bin", op, e, f>> : op \in Operators, f \in Leaves}
    \cup {<<"bin", op, f, e>> : op \in Operators, f \in Leaves}
    \cup {<<op, e>> : op \in {"not", "neg"}}
    \cup {<<"cond", e, Num(2), Num(3)>>, <<"cond", <<"ident", "b">>, e, Num(3)>>,
          <<"cond", <<"ident", "b">>, Num(3), e>>}
    \cup {<<"select", e, "k">>, <<"index", e, Num(0)>>, <<"index", <<"ident", "xs">>, e>>,
          <<"list", <<e, Num(2)>>>>, <<"map", <<<<<<"lit", <<"str", "k">>>>, e>>>>>>}
    \cup {Call(m, <<<<"ident", "xs">>, e>>) : m \in Macros}
    \cup {Call(f, <<e>>) : f \in {"size", "abs", "max"}}

\* Nothing is written.
Blank == /\ pattern = <<"any">> /\ tree = Num(2) /\ written = 0
         /\ anchors = [start |-> TRUE, end |-> TRUE]

Init ==
    /\ pattern \in Letters /\ anchors \in [start : BOOLEAN, end : BOOLEAN]
    /\ tree \in Seeds
    /\ written = 0
    /\ pattern = <<"any">> \/ tree = Num(2)

\* A behaviour writes a pattern or an expression.
WritePattern ==
    /\ written < MaxPattern /\ tree = Num(2)
    /\ pattern' \in Longer(pattern) /\ written' = written + 1
    /\ UNCHANGED <<anchors, tree>>

WriteExpression ==
    /\ written < MaxSource /\ pattern = <<"any">> /\ anchors.start /\ anchors.end
    /\ tree' \in Wider(tree) /\ written' = written + 1
    /\ UNCHANGED <<pattern, anchors>>

Next == WritePattern \/ WriteExpression

texts == <<pattern, anchors, tree, written>>

Spec == Init /\ [][Next]_texts

-----------------------------------------------------------------------------
\* How they are written, with the brackets the grammar calls for.

RECURSIVE Shown(_, _)
ClassText(f) == IF f[2] = WordChars THEN "\\w" ELSE "[" \o (IF f[3] THEN "^" ELSE "") \o "a-b-]"

\* Binding: 0 alternatives, 1 concatenation, 2 repetition.
Shown(f, binding) ==
    LET own == CASE f[1] = "alt" -> 0 [] f[1] \in {"cat", "empty"} -> 1 [] OTHER -> 2
        raw == CASE f[1] = "alt" -> Shown(f[2], 0) \o "|" \o Shown(f[3], 1)
                 [] f[1] = "cat" -> Shown(f[2], 1) \o Shown(f[3], 2)
                 [] f[1] = "empty" -> ""
                 [] f[1] = "any" -> "."
                 [] f[1] = "char" -> f[2]
                 [] f[1] = "class" -> ClassText(f)
                 [] OTHER -> Shown(f[2], 2) \o f[1]
    IN IF own < binding THEN "(" \o raw \o ")" ELSE raw

PatternText ==
    (IF anchors.start THEN "^" ELSE "") \o Shown(pattern, 0) \o (IF anchors.end THEN "$" ELSE "")

\* Where a match of f that starts in a place of S may end: what a pattern means.
RECURSIVE Ends(_, _, _)
Ends(f, text, S) ==
    LET RECURSIVE Again(_)
        Again(T) == LET more == T \cup Ends(f[2], text, T) IN IF more = T THEN T ELSE Again(more)
    IN CASE f[1] = "empty" -> S
         [] f[1] = "cat" -> Ends(f[3], text, Ends(f[2], text, S))
         [] f[1] = "alt" -> Ends(f[2], text, S) \cup Ends(f[3], text, S)
         [] f[1] = "?" -> S \cup Ends(f[2], text, S)
         [] f[1] = "*" -> Again(S)
         [] f[1] = "+" -> Again(Ends(f[2], text, S))
         [] OTHER -> {i + 1 : i \in {j \in S : j <= Len(text) /\ StateMatches(f, Char(text, j))}}

Found(text) ==
    LET last == Len(text) + 1
        matched == Ends(pattern, text, IF anchors.start THEN {1} ELSE 1..last)
    IN IF anchors.end THEN last \in matched ELSE matched # {}

RECURSIVE TextsOf(_)
TextsOf(n) == IF n = 0 THEN {""}
              ELSE LET shorter == TextsOf(n - 1)
                   IN shorter \cup {t \o c : t \in shorter, c \in {"a", "b", "-"}}

\* The automaton of the written pattern finds it in exactly the texts that
\* hold a match, wherever it starts: the anchors are the whole pattern's.
SearchIsExact ==
    \A text \in TextsOf(MaxText) : RegexSearch(PatternText, text) = Found(text)

Binding(e) ==
    CASE e[1] = "cond" -> 0
      [] e[1] = "bin" /\ e[2] = "||" -> 1
      [] e[1] = "bin" /\ e[2] = "&&" -> 2
      [] e[1] = "bin" /\ e[2] \in {"+", "-"} -> 4
      [] e[1] = "bin" /\ e[2] \in {"*", "/", "%"} -> 5
      [] e[1] = "bin" -> 3
      [] e[1] \in {"not", "neg"} -> 6
      [] OTHER -> 7

Punct(c) == <<<<"punct", c>>>>
ValueTokens(v) ==
    CASE v[1] = "int" -> <<<<"num", v[2]>>>>
      [] v[1] = "str" -> <<<<"str", v[2]>>>>
      [] v[1] = "bool" -> <<<<"ident", IF v[2] THEN "true" ELSE "false">>>>
      [] OTHER -> <<<<"ident", "null">>>>

RECURSIVE Written(_, _)

\* A method call, x.startsWith(y), is not written: its arguments are a call's.
Written(e, binding) ==
    LET own == Binding(e)
        RECURSIVE Items(_)
        Items(s) == CASE s = <<>> -> <<>>
                      [] Len(s) = 1 -> Written(s[1], 0)
                      [] OTHER -> Written(s[1], 0) \o Punct(",") \o Items(Tail(s))
        In(open, inner, close) == Punct(open) \o inner \o Punct(close)
        raw == CASE e[1] = "lit" -> ValueTokens(e[2])
                 [] e[1] = "ident" -> <<e>>
                 [] e[1] = "list" -> In("[", Items(e[2]), "]")
                 [] e[1] = "map" -> In("{", Written(e[2][1][1], 0) \o Punct(":")
                                              \o Written(e[2][1][2], 0), "}")
                 [] e[1] = "not" -> Punct("!") \o Written(e[2], 6)
                 [] e[1] = "neg" -> Punct("-") \o Written(e[2], 6)
                 [] e[1] = "select" -> Written(e[2], 7) \o Punct(".") \o <<<<"ident", e[3]>>>>
                 [] e[1] = "index" -> Written(e[2], 7) \o In("[", Written(e[3], 0), "]")
                 [] e[1] = "call" -> <<<<"ident", e[2]>>>> \o In("(", Items(e[3]), ")")
                 [] e[1] = "cond" -> Written(e[2], 1) \o Punct("?") \o Written(e[3], 0)
                                       \o Punct(":") \o Written(e[4], 0)
                 [] OTHER -> Written(e[3], own) \o Punct(e[2]) \o Written(e[4], own + 1)
    IN IF own < binding THEN In("(", raw, ")") ELSE raw

\* n is negative, b holds, m has a key, x is bound by macros only.
Context == [n |-> <<"int", -7>>, b |-> True, m |-> <<"map", [k |-> <<"int", 3>>]>>,
            xs |-> <<"list", <<<<"int", 3>>, <<"int", -2>>, <<"int", 0>>>>>>]
\* The written expression, and those the laws compare it with.
Over(macro, e) == Call(macro, <<<<"ident", "xs">>, e>>)
Selected == <<"select", tree, "k">>
Remainder == [tree EXCEPT ![2] = "%"]
Related ==
    {tree, Selected, Call("has", <<Selected>>), Over("exists", <<"not", tree>>)}
    \cup {Over(m, tree) : m \in Macros}
    \cup (IF tree[1] = "bin" /\ tree[2] = "/" THEN {tree[3], tree[4], Remainder} ELSE {})

\* An expression written by the grammar, with no bracket it can do without,
\* is read back as itself: || binds loosest, then &&, the comparisons, sums,
\* products, and what repeats groups to the left.
ReadsAsWritten == Parse(Written(tree, 0)) = tree

\* Division as CEL has it: the quotient towards zero, the remainder with the
\* sign of the dividend, and together they give the dividend back.
Divided(value) ==
    tree[1] = "bin" /\ tree[2] = "/" /\ value[tree] \notin Failures =>
        LET a == value[tree[3]][2]
            b == value[tree[4]][2]
            r == value[Remainder][2]
        IN a = b * value[tree][2] + r /\ r * a >= 0 /\ Magnitude(r) < Magnitude(b)

\* A predicate that is a bool of every item holds of all exactly when its
\* negation holds of none, and of one exactly when the filter keeps one.
Quantified(value) ==
    LET Of(macro) == value[Over(macro, tree)]
        each == Of("map")
    IN each \notin Failures /\ (\A i \in DOMAIN each[2] : each[2][i][1] = "bool") =>
        /\ Of("all")[2] = ~value[Over("exists", <<"not", tree>>)][2]
        /\ Of("exists_one")[2] = (Len(Of("filter")[2]) = 1)

\* has() answers whether the selection would succeed, and fails only where
\* the selection fails of an exception that is not the language's own.
Asked(value) ==
    value[Call("has", <<Selected>>)] = IF value[Selected] = Crash THEN Crash
                                       ELSE Bool(value[Selected] # Err)

\* What is written in the language is read by its grammar and means what its
\* specification says (the sections Regex, Parser and Evaluation of cel.py).
ExpressionsAreCel ==
    /\ ReadsAsWritten
    /\ \A value \in {[e \in Related |-> Eval(e, Context)]} :
          Divided(value) /\ Quantified(value) /\ Asked(value)

\* Both languages of a check mean what is written in them: no pattern matches
\* more or less than it says, and no expression is read or valued otherwise.
CelIsExact == SearchIsExact /\ ExpressionsAreCel

=============================================================================
