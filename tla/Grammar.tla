------------------------------ MODULE Grammar ------------------------------
(***************************************************************************)
(* The reference the parser is compared with: the language (grammar.ebnf,  *)
(* with the operators %, ^, casts, members, indexes and literals the       *)
(* parser has beyond it) as productions, the sentential forms a text       *)
(* leaves open, and the trees a text stands for.                           *)
(***************************************************************************)
EXTENDS Syntax, FiniteSets, TLC

Operators == << {"or"}, {"and"}, {}, {"==", "<"}, {"+", "-"}, {"*", "%"} >>
AssignOperators == {"=", "+=", "*="}
StepOperators   == {"=", "+="}       \* what the last part of a for may use
Increments      == {"++"}

After(ops, rest) == {<<op>> \o rest : op \in ops}
Optional(S)      == {<<>>} \cup S
BinaryTails      == <<"power tail", "mul tail", "add tail", "compare tail", "and tail", "or tail">>
Assigns(ops)     == After(ops, <<"expression">>) \cup After(Increments, <<>>)

\* The alternatives of each nonterminal.
Productions == [
  program    |-> Optional({<<"statement", "program">>}),
  statements |-> Optional({<<"statement", "statements">>}),
  block      |-> {<<"{", "statements", "}">>},
  statement  |-> {<<"export", "function">>, <<"function">>, <<"link", "word", ";">>,
                  <<"type", "new alias", "=", "type name", ";">>, <<"import", "str", ";">>,
                  <<"if statement">>, <<"while", "expression", "block">>, <<"variable">>,
                  <<"for", "variable", "expression", ";", "id", "step", "block">>,
                  <<"return", ";">>, <<"return", "expression", ";">>,
                  <<"break", ";">>, <<"continue", ";">>, <<"id", "assign", ";">>,
                  <<"id", "callable">> \o BinaryTails \o <<";">>},
  function   |-> {<<"signature", "block">>, <<"extern", "signature", ";">>},
  signature  |-> {<<"fun", "id", "(", "parameters", ")", ":", "type name", "metadata">>},
  parameters |-> Optional({<<"...", "id", ":", "type name">>,
                           <<"id", ":", "type name", "more parameters">>}),
  assign     |-> Assigns(AssignOperators),
  step       |-> Assigns(StepOperators),
  metadata   |-> Optional({<<"link", "word", "metadata">>, <<"abi", "word", "metadata">>}),
  word       |-> {<<"str">>, <<"id">>},
  variable   |-> UNION {{<<k, "id", ":", "type name", "=", "expression", ";">>,
                         <<k, "id", "=", "expression", ";">>,
                         <<k, "id", "+=", "expression", ";">>} : k \in {"set", "const"}},
  expression |-> {<<"and level", "or tail">>},
  callable   |-> Optional({<<"(", "arguments", ")", "applied">>, <<".", "id", "callable">>,
                           <<"[", "expression", "]", "applied">>}),
  applied    |-> Optional({<<".", "id", "callable">>, <<"[", "expression", "]", "applied">>}),
  interpolation |-> Optional({<<"${", "expression", "}$", "str", "interpolation">>}),
  arguments  |-> Optional({<<"expression", "more arguments">>}),
  elements   |-> Optional({<<"expression", "more elements">>}),
  entries    |-> Optional({<<"id", ":", "expression", "more entries">>}),
  fields     |-> Optional({<<"id", ":", "type name", "more fields">>}),
  brackets   |-> Optional({<<"[", "]", "brackets">>})]
  @@ ("if statement" :> {<<"if", "expression", "block">>,
                         <<"if", "expression", "block", "else", "block">>,
                         <<"if", "expression", "block", "else", "if statement">>})
  @@ ("more parameters" :> Optional({<<",", "id", ":", "type name", "more parameters">>,
                                     <<",", "...", "id", ":", "type name">>}))
  @@ ("more arguments"  :> Optional({<<",", "arguments">>}))
  @@ ("more elements"   :> Optional({<<",", "elements">>}))
  @@ ("more entries"    :> Optional({<<",", "entries">>}))
  @@ ("more fields"     :> Optional({<<",", "fields">>}))
  @@ ("type name"       :> ({<<t, "brackets">> : t \in TypeTokens}
                            \cup {<<"alias", "brackets">>, <<"{", "fields", "}", "brackets">>}))
  @@ ("or tail"         :> Optional({<<"or", "and level", "or tail">>}))
  @@ ("and level"       :> {<<"not level", "and tail">>})
  @@ ("and tail"        :> Optional({<<"and", "not level", "and tail">>}))
  @@ ("not level"       :> {<<"compare level">>, <<"not", "compare level">>})
  @@ ("compare level"   :> {<<"add level", "compare tail">>})
  @@ ("compare tail"    :> Optional(After(Operators[4], <<"add level", "compare tail">>)))
  @@ ("add level"       :> {<<"mul level", "add tail">>})
  @@ ("add tail"        :> Optional(After(Operators[5], <<"mul level", "add tail">>)))
  @@ ("mul level"       :> {<<"power level", "mul tail">>})
  @@ ("mul tail"        :> Optional(After(Operators[6], <<"power level", "mul tail">>)))
  @@ ("power level"     :> {<<"postfix level", "power tail">>})
  @@ ("power tail"      :> Optional({<<"^", "power level">>}))
  \* Only names and members can be called; a cast takes every suffix behind it.
  @@ ("postfix level"   :> {<<"name", "callable">>, <<"literal", "applied">>,
                            <<"(", "target", "end", "callable">>, <<"(", "expression", "end", "applied">>,
                            <<"(", "cast type", ")", "postfix level">>})
  @@ ("name"            :> {<<"id">>, <<"module type">>})
  @@ ("target"          :> {<<"name", "to member">>, <<"literal", "to its member">>,
                            <<"(", "target", "end", "to member">>,
                            <<"(", "expression", "end", "to its member">>})
  @@ ("to member"       :> {<<>>, <<"(", "arguments", ")", "to its member">>,
                            <<".", "id", "to member">>, <<"[", "expression", "]", "to its member">>})
  @@ ("to its member"   :> {<<".", "id", "to member">>, <<"[", "expression", "]", "to its member">>})
  @@ ("cast type"       :> ({<<t>> : t \in CastTypes} \cup {<<"alias">>}))
  @@ ("literal"         :> {<<"num">>, <<"true">>, <<"str", "interpolation">>,
                            <<"{", "entries", "}">>, <<"[", "elements", "]">>})

\* The places in a text where a declaration of a type alias name ends before i.
AliasAt(text, name, i) ==
  {k \in 1 .. i - 3 : text[k] = "type" /\ text[k + 1] = name /\ \E m \in k .. i - 1 : text[m] = ";"}

\* Whether name is a module at i: the first of its declarations in the innermost open scope
\* that has one is an import.  Parameters declare nothing.
Depth(text, k) == Cardinality({m \in 1 .. k - 1 : text[m] = "{"})
                  - Cardinality({m \in 1 .. k - 1 : text[m] = "}"})
IsModule(text, name, i) ==
  LET Ended(k)    == \E m \in k + 2 .. i - 1 : text[m] = ";"
      Declares(k) ==
        \/ text[k] = "import" /\ Namespace(text[k + 1]) = name /\ Ended(k)
        \/ text[k] \in {"set", "const"} /\ text[k + 1] = name /\ text[k + 2] = ":" /\ Ended(k)
        \/ text[k] = "fun" /\ text[k + 1] = name
      seen  == {k \in 1 .. i - 3 : Declares(k) /\ \A m \in k .. i : Depth(text, m) >= Depth(text, k)}
      inner == {k \in seen : \A m \in seen : Depth(text, m) <= Depth(text, k)}
  IN \E k \in inner : text[k] = "import" /\ \A m \in inner : k <= m

\* A type alone behind the parenthesis makes a cast of what could be a group.
OnlyType(text) == /\ text[Len(text) - 1] = "("
                  /\ \/ text[Len(text)] \in CastTypes
                     \/ AliasAt(text, text[Len(text)], Len(text)) # {}

\* Whether t can stand for a terminal behind text.
IsTerminal(t, symbol, text) ==
  CASE symbol = "alias"       -> t \in Identifiers /\ AliasAt(text, t, Len(text) + 1) # {}
    [] symbol = "new alias"   -> t \in Identifiers /\ AliasAt(text, t, Len(text) + 1) = {}
    [] symbol = "module type" -> t \in TypeTokens /\ IsModule(text, t, Len(text) + 1)
    [] symbol = "abi"         -> t = "abi"
    [] symbol = "end"         -> t = ")" /\ ~OnlyType(text)
    [] OTHER                  -> Class(t) = symbol

\* The forms that remain when a form begins with t.
RECURSIVE Behind(_, _, _)
Behind(form, t, text) ==
  IF form = <<>> THEN {}
  ELSE IF Head(form) \in DOMAIN Productions
       THEN UNION {Behind(p \o Tail(form), t, text) : p \in Productions[Head(form)]}
       ELSE IF IsTerminal(t, Head(form), text) THEN {Tail(form)} ELSE {}

Whole == <<"program", "eof">>
Following(forms, t, text) == UNION {Behind(form, t, text) : form \in forms}

(***************************************************************************)
(* Which span of a text a tree stands for, from i up to but not including  *)
(* j.  Levels: 1 or, 2 and, 3 not, 4 comparison, 5 sum, 6 product, 7 power,*)
(* 8 cast, 9 a primary with its suffixes.                                  *)
(***************************************************************************)
RECURSIVE IsExpression(_, _, _, _, _), IsList(_, _, _, _, _, _), IsLiteral(_, _, _, _)
RECURSIVE IsType(_, _, _, _), IsStatement(_, _, _, _), AreStatements(_, _, _, _)

\* Items between commas, with one comma more where that is allowed.
IsList(Item(_, _, _), trees, text, i, j, more) ==
  IF trees = <<>> THEN i = j
  ELSE \E k \in i .. j : /\ Item(Head(trees), i, k)
                        /\ \/ Len(trees) = 1 /\ (k = j \/ (more /\ k = j - 1 /\ text[k] = ","))
                           \/ /\ Len(trees) > 1 /\ k < j /\ text[k] = ","
                              /\ IsList(Item, Tail(trees), text, k + 1, j, more)

IsLiteral(tree, text, i, j) ==
  \/ tree = StringLiteral(text[i]) /\ j = i + 1 /\ text[i] \in Strings
  \/ /\ tree[1] = "binary" /\ Kids(tree)[1][1] = "binary" /\ j - i > 3
     /\ tree[2] = "+" /\ Kids(tree)[1][2] = "+" /\ text[j - 2] = "}$"
     /\ Kids(tree)[2] = StringLiteral(text[j - 1])
     /\ \E k \in i + 1 .. j - 3 :
          /\ text[k] = "${" /\ IsLiteral(Kids(Kids(tree)[1])[1], text, i, k)
          /\ IsExpression(Kids(Kids(tree)[1])[2], 1, text, k + 1, j - 2)

LeftOf(level)  == IF level = 7 THEN 8 ELSE level
RightOf(level) == IF level = 7 THEN 7 ELSE level + 1
Level(op) == IF op = "^" THEN 7 ELSE CHOOSE l \in 1 .. 6 : op \in Operators[l]
Arguments(trees, text, i, j) ==
  IsList(LAMBDA tree, a, b : IsExpression(tree, 1, text, a, b), trees, text, i, j, TRUE)

IsExpression(tree, level, text, i, j) ==
  LET kids == Kids(tree)
      \* The last suffix of the span is from k on.
      Calls(callee, args) == \E k \in i + 1 .. j - 2 :
        text[k] = "(" /\ IsExpression(callee, 9, text, i, k) /\ Arguments(args, text, k + 1, j - 1)
  IN i < j /\
  ( \/ text[i] = "(" /\ text[j - 1] = ")" /\ IsExpression(tree, 1, text, i + 1, j - 1)
    \/ tree[1] \in {"identifier", "number", "boolean"} /\ j = i + 1 /\ text[i] = tree[2]
    \/ tree[1] \in {"string", "binary"} /\ IsLiteral(tree, text, i, j)
    \/ /\ tree[1] = "binary" /\ tree[2] = "not" /\ level <= 3 /\ text[i] = "not"
       /\ kids[1] = Nil /\ IsExpression(kids[2], 4, text, i + 1, j)
    \/ /\ tree[1] = "binary" /\ tree[2] # "not" /\ level <= Level(tree[2])
       /\ \E k \in i + 1 .. j - 2 :
            /\ text[k] = tree[2]
            /\ IsExpression(kids[1], LeftOf(Level(tree[2])), text, i, k)
            /\ IsExpression(kids[2], RightOf(Level(tree[2])), text, k + 1, j)
    \/ /\ tree[1] = "cast" /\ level <= 8 /\ j - i > 3 /\ text[i] = "(" /\ text[i + 2] = ")"
       /\ IsType(kids[1], text, i + 1, i + 2) /\ IsExpression(kids[2], 8, text, i + 3, j)
    \/ tree[1] = "call" /\ text[j - 1] = ")" /\ Calls(Identifier(tree[2]), kids)
    \/ /\ tree[1] \in {"method call", "module call"} /\ text[j - 1] = ")"
       /\ tree[1] = "module call" <=> IsIdentifier(kids[1]) /\ IsModule(text, kids[1][2], i)
       /\ Calls(MemberAccess(kids[1], tree[2]), Tail(kids))
    \/ /\ tree[1] = "member" /\ j - i > 2 /\ text[j - 1] = tree[2] /\ text[j - 2] = "."
       /\ IsExpression(kids[1], 9, text, i, j - 2)
    \/ /\ tree[1] = "index" /\ text[j - 1] = "]"
       /\ \E k \in i + 1 .. j - 2 : /\ text[k] = "[" /\ IsExpression(kids[1], 9, text, i, k)
                                  /\ IsExpression(kids[2], 1, text, k + 1, j - 1)
    \/ /\ tree[1] = "array" /\ j - i > 1 /\ text[i] = "[" /\ text[j - 1] = "]"
       /\ Arguments(kids, text, i + 1, j - 1)
    \/ /\ tree[1] = "object" /\ j - i > 1 /\ text[i] = "{" /\ text[j - 1] = "}"
       /\ IsList(LAMBDA p, a, b : /\ b > a + 2 /\ text[a] = p[2] /\ text[a + 1] = ":"
                                 /\ IsExpression(Kids(p)[1], 1, text, a + 2, b),
                 kids, text, i + 1, j - 1, TRUE) )

IsType(tree, text, i, j) ==
  i < j /\
  ( \/ tree = Type(text[i]) /\ j = i + 1 /\ text[i] \in TypeTokens
    \/ \E k \in AliasAt(text, text[i], i), m \in 1 .. i - 1 :
         j = i + 1 /\ text[m] = ";" /\ IsType(tree, text, k + 3, m)
    \/ /\ tree[2] = "array" /\ j - i > 2 /\ text[j - 2] = "[" /\ text[j - 1] = "]"
       /\ IsType(Kids(tree)[1], text, i, j - 2)
    \/ /\ tree[2] = "object" /\ text[i] = "{" /\ text[j - 1] = "}"
       /\ IsList(LAMBDA p, a, b : /\ b > a + 2 /\ text[a] = p[2] /\ text[a + 1] = ":"
                                 /\ IsType(Kids(p)[1], text, a + 2, b),
                 Kids(tree), text, i + 1, j - 1, TRUE) )

IsBlock(tree, text, i, j) ==
  /\ tree[1] = "block" /\ j - i > 1 /\ text[i] = "{" /\ text[j - 1] = "}"
  /\ AreStatements(Kids(tree), text, i + 1, j - 1)

\* name op e, name++: the value is written out, name op e for += and *=.
IsAssignment(tree, text, i, j) ==
  LET value == Kids(tree)[1]
      computed(op, right) == value = BinaryOp(op, Identifier(tree[2]), right)
      Compound(token, op) ==
        text[i + 1] = token /\ value[1] = "binary" /\ computed(op, Kids(value)[2])
        /\ IsExpression(Kids(value)[2], 1, text, i + 2, j)
  IN /\ tree[1] = "assignment" /\ j > i + 1 /\ text[i] = tree[2]
     /\ \/ text[i + 1] = "=" /\ IsExpression(value, 1, text, i + 2, j)
        \/ Compound("+=", "+") \/ Compound("*=", "*")
        \/ text[i + 1] = "++" /\ j = i + 2 /\ computed("+", NumberLiteral("1"))

IsVariable(tree, text, i, j) ==
  /\ j > i + 3 /\ text[j - 1] = ";"
  /\ \/ text[i] \in {"set", "const"} /\ IsAssignment(tree, text, i + 1, j - 1)
     \/ /\ tree[1] = text[i] /\ tree[1] \in {"set", "const"}
        /\ tree[2] = text[i + 1] /\ text[i + 2] = ":"
        /\ \E k \in i + 4 .. j - 2 : /\ text[k] = "=" /\ IsType(Kids(tree)[1], text, i + 3, k)
                                   /\ IsExpression(Kids(tree)[2], 1, text, k + 1, j - 1)

\* The last word given for each key.
IsMetadata(metadata, text, i, j) ==
  LET Given(key) == {k \in i .. j - 2 : text[k] = key /\ (k - i) % 2 = 0}
      Last(key)  == IF Given(key) = {} THEN Nil
                    ELSE Leaf("word", text[(CHOOSE k \in Given(key) : \A m \in Given(key) : m <= k) + 1])
  IN (j - i) % 2 = 0 /\ Kids(metadata) = <<Last("link"), Last("abi")>>

IsFunction(tree, text, i, j) ==
  LET kids     == Kids(tree)
      exported == IF text[i] = "export" THEN 1 ELSE 0
      external == IF text[i + exported] = "extern" THEN 1 ELSE 0
      start    == i + exported + external
      IsParameter(p, a, b) ==
        LET dots == IF p[1] = "variadic" THEN 1 ELSE 0
        IN /\ b > a + 2 + dots /\ (dots = 1 => text[a] = "...")
           /\ text[a + dots] = p[2] /\ text[a + dots + 1] = ":"
           /\ IsType(Kids(p)[1], text, a + dots + 2, b)
  IN /\ tree[1] = "function" /\ j > start + 6 /\ text[start] = "fun" /\ text[start + 1] = tree[2]
     /\ kids[1] = Leaf("flags", <<exported, external>>)
     /\ \E close \in start + 3 .. j - 4, returns, body \in start + 6 .. j :
          /\ text[close] = ")" /\ text[close + 1] = ":"
          /\ IsList(IsParameter, Kids(kids[2]), text, start + 3, close, FALSE)
          /\ close + 2 < returns /\ IsType(kids[3], text, close + 2, returns)
          /\ returns <= body /\ IsMetadata(kids[4], text, returns, body)
          /\ IF external = 1 THEN kids[5] = Nil /\ body = j - 1 /\ text[body] = ";"
             ELSE IsBlock(kids[5], text, body, j)

IsStatement(tree, text, i, j) ==
  LET kids == Kids(tree)
      ends == text[j - 1] = ";"
      Control(word, A(_, _), B(_, _)) == /\ tree[1] = word /\ text[i] = word
                                         /\ \E k \in i + 2 .. j - 1 : A(i + 1, k) /\ B(k, j)
      Condition(a, b) == IsExpression(kids[1], 1, text, a, b)
      Then(a, b)      == IsBlock(kids[2], text, a, b)
      Else(a, b) ==
        \/ kids[3] = Nil /\ Then(a, b)
        \/ \E k \in a .. b - 2 :
             /\ Then(a, k) /\ text[k] = "else"
             /\ IF text[k + 1] = "if" THEN kids[3][1] = "if" /\ IsStatement(kids[3], text, k + 1, b)
                ELSE IsBlock(kids[3], text, k + 1, b)
      Loop(a, b) == \E k, m \in a + 1 .. b - 1 :
        /\ k < m /\ text[k - 1] = ";" /\ IsExpression(kids[2], 1, text, a, k - 1)
        /\ IsAssignment(kids[3], text, k, m) /\ IsBlock(kids[4], text, m, b)
  IN \/ IsFunction(tree, text, i, j)
     \/ IsVariable(tree, text, i, j)
     \/ ends /\ text[i] \in Identifiers /\ IsAssignment(tree, text, i, j - 1)
     \/ ends /\ tree[1] = "expression" /\ text[i] \in Identifiers /\ IsExpression(kids[1], 1, text, i, j - 1)
     \/ Control("while", Condition, Then)
     \/ Control("if", Condition, Else)
     \/ Control("for", LAMBDA a, b : IsVariable(kids[1], text, a, b), Loop)
     \/ ends /\ tree[1] \in {"break", "continue"} /\ j = i + 2 /\ text[i] = tree[1]
     \/ /\ ends /\ tree[1] = "return" /\ text[i] = "return"
        /\ IF kids[1] = Nil THEN j = i + 2 ELSE IsExpression(kids[1], 1, text, i + 1, j - 1)
     \/ ends /\ tree[1] = "import" /\ j = i + 3 /\ text[i] = "import" /\ tree[2] = text[i + 1]
     \/ ends /\ tree[1] = "link" /\ j = i + 3 /\ text[i] = "link" /\ kids[1] = Leaf("word", text[i + 1])
     \/ /\ ends /\ tree[1] = "type alias" /\ text[i] = "type" /\ text[i + 1] = tree[2]
        /\ IsType(kids[1], text, i + 3, j - 1)

AreStatements(trees, text, i, j) ==
  IF trees = <<>> THEN i = j
  ELSE \E k \in i + 2 .. j : IsStatement(Head(trees), text, i, k) /\ AreStatements(Tail(trees), text, k, j)

IsProgram(tree, text) ==
  tree[1] = "program" /\ AreStatements(Kids(tree), text, 1, Len(text) + 1)
=============================================================================
