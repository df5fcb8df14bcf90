------------------------------- MODULE Parser -------------------------------
(***************************************************************************)
(* The recursive descent parser of parser.c as a machine with an explicit  *)
(* stack: what its pending calls will still do is the agenda, what they    *)
(* hold in local variables is on the stack values.  Tokens are read when   *)
(* the parser looks at them; the text is any text of a dialect, and        *)
(* forms records what the grammar still allows behind it.                  *)
(***************************************************************************)
EXTENDS Grammar

\* Records [prefix, tokens, max, errors]: the texts that begin with prefix, go on with up to
\* max tokens of tokens, and end early behind errors errors; more are not counted.
CONSTANT Dialects

VARIABLES agenda,    \* the items <<operation, argument, number>> still to do
          values,    \* the trees built for calls that have not returned
          ahead,     \* current, ahead1 and ahead2 as far as the parser has looked
          errors, recovery,
          scopes,    \* the symbol table stack: "module" or "value" for each name
          aliases,   \* the type each alias stands for
          text,      \* every token scanned so far
          forms, dialect

parserVars == <<agenda, values, ahead, errors, recovery, scopes, aliases>>
vars == <<parserVars, text, forms, dialect>>

Rule(name)    == <<"rule", name, 0>>
Operand(l)    == <<"rule", "operand", l>>
Loop(l)       == <<"rule", "tail", l>>
Expect(token) == <<"expect", token, 0>>
Make(kind, n) == <<"make", kind, n>>
Join(op, n)   == <<"join", op, n>>       \* n: the items that a missing right side skips
Collect       == <<"collect", "all", 0>>
Keep          == <<"collect", "some", 0>>
Declare(kind) == <<"declare", kind, 0>>
Scope(step)   == <<"scope", step, 0>>
Lexeme        == <<"lexeme", "", 0>>     \* strlen of the current lexeme
Fail          == <<"fail", "", 0>>
Skip          == <<"skip", "", 0>>
Crash         == << <<"crash", "", 0>> >>
Name          == <<Lexeme, Rule("name")>>

Current == ahead[1]
Top     == values[Len(values)]
List    == <<"list", "", <<>> >>

\* What a step does: tokens eaten, values popped and pushed, items to do first, items dropped.
Nothing == [eat |-> 0, pop |-> 0, push |-> <<>>, todo |-> <<>>, drop |-> 0, bad |-> 0,
            recover |-> recovery]
Do(items)           == [Nothing EXCEPT !.todo = items]
Eat(items)          == [Do(items) EXCEPT !.eat = 1]
Push(value, items)  == [Do(items) EXCEPT !.push = <<value>>]
Take(value, items)  == [Push(value, items) EXCEPT !.eat = 1]
Give(n, value)      == [Push(value, <<>>) EXCEPT !.pop = n]
Wrong(n)            == [Give(n, Nil) EXCEPT !.bad = 1]
When(ok, e)         == IF ok THEN e ELSE Nothing

Perform(e) ==
  /\ agenda'   = e.todo \o SubSeq(agenda, 2 + e.drop, Len(agenda))
  /\ values'   = SubSeq(values, 1, Len(values) - e.pop) \o e.push
  /\ ahead'    = SubSeq(ahead, 1 + e.eat, Len(ahead))
  /\ errors'   = IF errors = dialect.errors THEN errors ELSE errors + e.bad
  /\ recovery' = e.recover

(***************************************************************************)
(* Symbols.                                                                *)
(***************************************************************************)
Lookup(name) ==
  LET holders == {k \in DOMAIN scopes : name \in DOMAIN scopes[k]}
  IN IF holders = {} THEN "none" ELSE scopes[CHOOSE k \in holders : \A m \in holders : m <= k][name]
IsNamespaceSymbol(name) == Lookup(name) = "module"

Insert(name, kind) ==
  scopes' = [scopes EXCEPT ![Len(scopes)] = @ @@ (name :> kind)]

(***************************************************************************)
(* Expressions.                                                            *)
(***************************************************************************)
\* The loops of the levels from l on, innermost first; the level of not has none.
Loops == <<6, 5, 4, 2, 1>>
Tails(l) == LET levels == SelectSeq(Loops, LAMBDA m : m >= l)
            IN [k \in DOMAIN levels |-> Loop(levels[k])]

ParseOperand(l) ==
  IF l <= 3 /\ Current = "not"
  THEN Eat(<<Operand(4), Make("not", 1)>> \o SelectSeq(Tails(l), LAMBDA item : item[3] < 3))
  ELSE Do(<<Rule("primary"), Rule("postfix"), Rule("power")>> \o Tails(l))

ParseTail(l) ==
  When(Current \in Operators[l], Eat(<<Operand(l + 1), Join(Current, 1), Loop(l)>>))
\* Mutant: the right side of ^ is a suffix, not a power: ^ groups from the left.
MutParsePower ==
  When(Current = "^", Eat(<<Rule("primary"), Rule("postfix"), Join("^", 0), Rule("power")>>))
ParsePower == When(Current = "^", Eat(<<Operand(7), Join("^", 0)>>))

JoinOperands(op, n) ==
  IF Top = Nil THEN [Nothing EXCEPT !.pop = 1, !.drop = n]
  ELSE Give(2, BinaryOp(op, values[Len(values) - 1], Top))

\* Mutant: an alias is no cast type.
MutIsCast == ahead[3] = ")" /\ ahead[2] \in CastTypes
IsCast == /\ ahead[3] = ")"
          /\ \/ ahead[2] \in CastTypes
             \/ ahead[2] \in Identifiers \cap DOMAIN aliases

ParsePrimary ==
  CASE Current \in Identifiers \/ (Current \in TypeTokens /\ IsNamespaceSymbol(Current)) ->
         Take(Identifier(Current), <<>>)
    [] Current \in Strings  -> Take(StringLiteral(Current), <<Rule("interpolation")>>)
    [] Current \in Numbers  -> Take(NumberLiteral(Current), <<>>)
    [] Current \in Booleans -> Take(BooleanLiteral(Current), <<>>)
    [] Current = "(" ->
         IF IsCast
         THEN Eat(<<Rule("type"), Expect(")"), Rule("primary"), Rule("postfix"), Make("cast", 2)>>)
         ELSE Eat(<<Operand(1), Expect(")")>>)
    [] Current = "{" -> Take(List, <<Rule("entries"), Expect("}"), Make("object", 1)>>)
    [] Current = "[" -> Take(List, <<Rule("elements"), Expect("]"), Make("array", 1)>>)
    [] OTHER -> Do(<<Fail>>)

\* The expression in ${ } and the part of the string behind it, if there is one.
ParseInterpolation ==
  When(Current = "${",
       Eat(<<Operand(1), Expect("}$"), Make("+", 2), Rule("rest of string"), Rule("interpolation")>>))
ParseStringRest == When(Current \in Strings, Take(StringLiteral(Current), <<Make("+", 2)>>))

ParseCallArguments(close, rule, more) ==
  When(Current # close, Do(<<Operand(1), Collect, Rule(more)>>))
ParseMore(rule) == When(Current = ",", Eat(<<Rule(rule)>>))

ParseEntries == When(Current # "}", Do(Name \o <<Expect(":"), Operand(1), Make("entry", 2),
                                                Collect, Rule("more entries")>>))

BuildCallFromCallee ==
  LET callee == values[Len(values) - 1]
      object == Kids(callee)[1]
  IN CASE IsIdentifier(callee) -> Give(2, Call(callee[2], Kids(Top)))
       [] callee[1] = "member" ->
            Give(2, <<IF IsIdentifier(object) /\ IsNamespaceSymbol(object[2])
                      THEN "module call" ELSE "method call", callee[2], <<object>> \o Kids(Top)>>)
       [] OTHER -> Wrong(2)

ApplyPostfix ==
  When(Top # Nil,
       CASE Current = "(" -> Take(List, <<Rule("arguments"), Expect(")"), Rule("callee"), Rule("postfix")>>)
         [] Current = "." -> Eat(<<Rule("property")>>)
         [] Current = "[" -> Eat(<<Operand(1), Expect("]"), Make("index", 2), Rule("postfix")>>)
         [] OTHER -> Nothing)

ParseProperty ==
  IF Current \in Identifiers
  THEN [Take(MemberAccess(Top, Current), <<Rule("postfix")>>) EXCEPT !.pop = 1]
  ELSE Wrong(1)

(***************************************************************************)
(* Types.                                                                  *)
(***************************************************************************)
ParseType ==
  CASE Current \in TypeTokens -> Take(Type(Current), <<Rule("brackets")>>)
    [] Current \in Identifiers \cap DOMAIN aliases -> Take(aliases[Current], <<Rule("brackets")>>)
    [] Current = "{" -> Take(List, <<Rule("fields"), Rule("brackets")>>)
    [] OTHER -> Do(<<Fail>>)

ParseBrackets ==
  When(Current = "[" /\ ahead[2] = "]",
       [(IF Top = Nil THEN Nothing ELSE [Push(ArrayType(Top), <<Rule("brackets")>>) EXCEPT !.pop = 1])
        EXCEPT !.eat = 2])

ParseFields ==
  Do(IF Current = "}" THEN <<Expect("}"), Make("object type", 1)>> ELSE <<Rule("field")>>)
\* A field that fails ends the object type: the list gives way to Nil.
ParseField ==
  IF Current \in Identifiers
  THEN Take(Identifier(Current), <<Expect(":"), Rule("type"), Rule("rest of field")>>)
  ELSE Wrong(1)
ParseFieldRest ==
  IF Top = Nil THEN Give(3, Nil) ELSE Do(<<Make("field", 2), Collect, Rule("more fields")>>)
ParseMoreFields ==
  IF Current = "," THEN Eat(<<Rule("fields")>>) ELSE Do(<<Expect("}"), Make("object type", 1)>>)

(***************************************************************************)
(* Declarations.                                                           *)
(***************************************************************************)
ParseParameter ==
  IF Current = "..." THEN Eat(<<Rule("variadic")>>)
  ELSE Do(Name \o <<Expect(":"), Rule("type"), Make("parameter", 2), Collect, Rule("more parameters")>>)
ParseVariadic ==
  IF Current \in Identifiers
  THEN Do(Name \o <<Expect(":"), Rule("type"), Make("variadic", 2), Keep>>)
  ELSE [Nothing EXCEPT !.bad = 1]

ParseVariable ==
  LET names(kind) == Name \o << <<"rule", "variable", kind>> >>
  IN CASE Current = "set"   -> Eat(names(1))
       [] Current = "const" -> Eat(names(0))
       [] OTHER             -> Do(<<Expect("const")>> \o names(0))
ParseVariableRest(kind) ==
  IF Current \in {"=", "+="}
  THEN Eat(<<Operand(1), Make(IF Current = "=" THEN "=" ELSE "+= of a set", 2), Expect(";")>>)
  ELSE Do(<<Expect(":"), <<"rule", "variable type", kind>> >>)
ParseVariableType(kind) ==
  IF Current = "eof" THEN [Wrong(1) EXCEPT !.recover = TRUE]
  ELSE Do(<<Rule("type"), Expect("="), Operand(1), Expect(";"), Declare("variable"),
            Make(IF kind = 1 THEN "set" ELSE "const", 3)>>)

ParseTypeDeclaration ==
  Eat(Name \o <<Expect("="), Rule("type"), Expect(";"), Declare("alias")>>)
ParseImport == Eat(<<Lexeme, Rule("path"), Expect(";"), Declare("module")>>)
ParseLink   == Eat(<<Rule("word"), Expect(";"), Make("link", 1)>>)
ParseWord   ==
  IF Current \in Strings \cup Identifiers THEN Take(Leaf("word", Current), <<>>)
  ELSE [Push(Nil, <<>>) EXCEPT !.bad = 1, !.recover = TRUE]

ParseFunction == LET export == IF Current = "export" THEN 1 ELSE 0
                 IN [Do(<< <<"rule", "extern", export>> >>) EXCEPT !.eat = export]
ParseExtern(export) ==
  LET extern == IF Current = "extern" THEN 1 ELSE 0
  IN [Push(Leaf("flags", <<export, extern>>),
           <<Expect("fun")>> \o Name \o
           <<Expect("("), Rule("parameters"), Expect(")"), Expect(":"), Lexeme, Rule("type"),
             Declare("function"), <<"rule", "body", extern>> >>)
      EXCEPT !.eat = extern]
ParseParameterList == Push(List, IF Current = ")" THEN <<>> ELSE <<Rule("parameter")>>)
ParseBody(extern) ==
  Push(<<"list", "", <<Nil, Nil>> >>,
       <<Rule("metadata")>>
       \o (IF extern = 1 THEN <<Expect(";"), Make("extern", 5)>>
           ELSE <<Rule("block"), Make("function", 6)>>))

ParseMetadata ==
  When(~recovery /\ Current \in {"link", "abi"},
       Eat(<<Rule("word"), <<"rule", "metadata value", IF Current = "link" THEN 1 ELSE 2>> >>))
ParseMetadataValue(slot) ==
  IF Top = Nil THEN [Nothing EXCEPT !.pop = 1]
  ELSE [Push(<<"list", "", [Kids(values[Len(values) - 1]) EXCEPT ![slot] = Top]>>,
             <<Rule("metadata")>>) EXCEPT !.pop = 2]

(***************************************************************************)
(* Statements.                                                             *)
(***************************************************************************)
ParseBlock == Push(List, <<Scope("enter"), Expect("{"), Rule("statements"), Expect("}"),
                           Scope("exit"), Make("block", 1)>>)
ParseStatements ==
  IF Current \in {"}", "eof"} \/ recovery THEN [Nothing EXCEPT !.recover = FALSE]
  ELSE Do(<<Rule("statement"), Collect, Rule("statements")>>)

StatementRules ==
  [export |-> "function", extern |-> "function", fun |-> "function", link |-> "link",
   type |-> "alias", import |-> "import", if |-> "if", while |-> "while", for |-> "for",
   set |-> "declaration", const |-> "declaration", return |-> "return", break |-> "break",
   continue |-> "continue"]
Anchors == {"fun", "import", "set", "const", "type", "return", "break", "continue", "}", "eof"}

ParseStatement ==
  CASE Current \in DOMAIN StatementRules -> Do(<<Rule(StatementRules[Current])>>)
    [] Current \in Identifiers           -> Do(<<Operand(1), Rule("command")>>)
    [] OTHER                             -> Do(<<Fail>>)

ParseCommand ==
  CASE Current \notin AssignOperators \cup Increments -> Do(<<Expect(";"), Make("expression", 1)>>)
    [] ~ IsIdentifier(Top)   -> Wrong(1)
    [] Current \in Increments -> Take(NumberLiteral("1"), <<Make("+=", 2), Expect(";")>>)
    [] OTHER                 -> Eat(<<Operand(1), Make(Current, 2), Expect(";")>>)

ParseIf     == Eat(<<Operand(1), Rule("block"), Rule("else")>>)
ParseElse   == IF Current = "else" THEN Eat(<<Rule("else branch"), Make("if", 3)>>)
               ELSE Push(Nil, <<Make("if", 3)>>)
ParseElseBranch == Do(<<Rule(IF Current = "if" THEN "if" ELSE "block")>>)
ParseWhile  == Eat(<<Operand(1), Rule("block"), Make("while", 2)>>)
ParseFor    == Eat(<<Rule("declaration"), Operand(1), Expect(";"), Rule("name"), Rule("step"),
                     Rule("block"), Make("for", 4)>>)
ParseStep ==
  CASE Current \in Increments    -> Take(NumberLiteral("1"), <<Make("+=", 2)>>)
    [] Current \in StepOperators -> Eat(<<Operand(1), Make(Current, 2)>>)
    [] OTHER                     -> [Push(Nil, <<Make("=", 2)>>) EXCEPT !.bad = 1]
ParseReturn   == Eat(<<Rule("result"), Expect(";"), Make("return", 1)>>)
ParseResult   == IF Current = ";" THEN Push(Nil, <<>>) ELSE Do(<<Operand(1)>>)
ParseBreak    == Eat(<<Expect(";"), Make("break", 0)>>)
ParseContinue == Eat(<<Expect(";"), Make("continue", 0)>>)

ParseProgram ==
  [(IF Current = "eof" THEN Do(<<Make("program", 1)>>)
    ELSE Do(<<Rule("statement"), Keep, Rule("program")>>)) EXCEPT !.recover = FALSE]

Parse(name, n) ==
  CASE name = "operand" -> ParseOperand(n)            [] name = "tail" -> ParseTail(n)
    [] name = "power" -> ParsePower                   [] name = "primary" -> ParsePrimary
    [] name = "interpolation" -> ParseInterpolation   [] name = "rest of string" -> ParseStringRest
    [] name = "postfix" -> ApplyPostfix               [] name = "property" -> ParseProperty
    [] name = "arguments" -> ParseCallArguments(")", "arguments", "more arguments")
    [] name = "elements" -> ParseCallArguments("]", "elements", "more elements")
    [] name = "more arguments" -> ParseMore("arguments")
    [] name = "more elements" -> ParseMore("elements")
    [] name = "more entries" -> ParseMore("entries")  [] name = "entries" -> ParseEntries
    [] name = "more parameters" -> ParseMore("parameter")
    [] name = "callee" -> BuildCallFromCallee
    [] name = "type" -> ParseType                     [] name = "brackets" -> ParseBrackets
    [] name = "field" -> ParseField                   [] name = "rest of field" -> ParseFieldRest
    [] name = "more fields" -> ParseMoreFields        [] name = "fields" -> ParseFields
    [] name = "name" -> Push(Identifier(Current), <<Expect("id")>>)
    [] name = "path" -> Push(Import(Current), <<Expect("str")>>)
    [] name = "word" -> ParseWord                     [] name = "link" -> ParseLink
    [] name = "function" -> ParseFunction             [] name = "extern" -> ParseExtern(n)
    [] name = "parameters" -> ParseParameterList      [] name = "parameter" -> ParseParameter
    [] name = "variadic" -> ParseVariadic             [] name = "body" -> ParseBody(n)
    [] name = "metadata" -> ParseMetadata             [] name = "metadata value" -> ParseMetadataValue(n)
    [] name = "declaration" -> ParseVariable          [] name = "variable" -> ParseVariableRest(n)
    [] name = "variable type" -> ParseVariableType(n) [] name = "alias" -> ParseTypeDeclaration
    [] name = "import" -> ParseImport                 [] name = "block" -> ParseBlock
    [] name = "statements" -> ParseStatements         [] name = "statement" -> ParseStatement
    [] name = "command" -> ParseCommand               [] name = "if" -> ParseIf
    [] name = "else" -> ParseElse                     [] name = "else branch" -> ParseElseBranch
    [] name = "while" -> ParseWhile                   [] name = "for" -> ParseFor
    [] name = "step" -> ParseStep                     [] name = "return" -> ParseReturn
    [] name = "result" -> ParseResult                 [] name = "break" -> ParseBreak
    [] name = "continue" -> ParseContinue             [] name = "program" -> ParseProgram

\* The node a function creates from its parts, or what it returns instead.
Build(kind, v) ==
  CASE kind = "+"      -> BinaryOp("+", v[1], v[2])
    [] kind = "not"    -> IF v[1] = Nil THEN Nil ELSE BinaryOp("not", Nil, v[1])
    [] kind = "cast"   -> Cast(v[1], v[2])
    [] kind = "index"  -> ArrayAccess(v[1], v[2])
    [] kind = "array"  -> ArrayLiteral(Kids(v[1]))
    [] kind = "object" -> ObjectLiteral(Kids(v[1]))
    [] kind \in {"entry", "field"} -> Property(v[1][2], v[2])
    [] kind = "object type"  -> ObjectType(Kids(v[1]))
    [] kind = "="      -> Assignment(v[1][2], v[2])
    [] kind = "+="     -> Assignment(v[1][2], BinaryOp("+", Identifier(v[1][2]), v[2]))
    [] kind = "+= of a set" ->
         Assignment(v[1][2], IF v[2] = Nil THEN Nil ELSE BinaryOp("+", Identifier(v[1][2]), v[2]))
    [] kind = "*="     -> Assignment(v[1][2], BinaryOp("*", Identifier(v[1][2]), v[2]))
    [] kind = "expression" -> ExpressionStatement(v[1])
    [] kind = "if"     -> If(v[1], v[2], v[3])
    [] kind = "while"  -> While(v[1], v[2])
    [] kind = "for"    -> For(v[1], v[2], v[3], v[4])
    [] kind = "return" -> Return(v[1])
    [] kind = "break"  -> Break
    [] kind = "continue"  -> Continue
    [] kind = "block"     -> Block(Kids(v[1]))
    [] kind = "parameter" -> Parameter(v[1][2], v[2])
    [] kind = "variadic"  -> IF v[2] = Nil THEN Nil ELSE Variadic(v[1][2], v[2])
    [] kind = "link"      -> IF v[1] = Nil THEN Nil ELSE LinkDirective(v[1])
    [] kind \in {"set", "const"} -> VariableDeclaration(kind = "set", v[1][2], v[2], v[3])
    [] kind = "function"  -> FunctionDeclaration(v[1], v[2][2], Kids(v[3]), v[4], Kids(v[5]), v[6])
    [] kind = "extern"    -> FunctionDeclaration(v[1], v[2][2], Kids(v[3]), v[4], Kids(v[5]), Nil)
    [] kind = "program"   -> Program(Kids(v[1]))

(***************************************************************************)
(* The steps.                                                              *)
(***************************************************************************)
Doing(operation) == agenda # <<>> /\ Head(agenda)[1] = operation
Argument == Head(agenda)[2]
Number   == Head(agenda)[3]
outside  == <<text, forms, dialect>>

\* How many tokens the next item looks at.
Looks ==
  IF agenda = <<>> \/ Head(agenda)[1] \in {"make", "join", "collect", "declare", "scope", "crash"} THEN 0
  ELSE IF ahead # <<>> /\ Current \in {"(", "["} /\ Argument \in {"primary", "brackets"} THEN 3
  ELSE 1
Ready(operation) == Doing(operation) /\ Len(ahead) >= Looks

\* A loop that finds no operator of its own, or no suffix, returns.
Idle(item) == /\ item[1] = "rule"
              /\ \/ item[2] = "tail"    /\ Current \notin Operators[item[3]]
                 \/ item[2] = "power"   /\ Current # "^"
                 \/ item[2] = "postfix" /\ (Top = Nil \/ Current \notin {"(", ".", "["})
Ascend == /\ Ready("rule") /\ Idle(Head(agenda))
           /\ LET n == CHOOSE k \in 0 .. Len(agenda) - 1 :
                         /\ \A i \in 1 .. k + 1 : Idle(agenda[i])
                         /\ k + 1 = Len(agenda) \/ ~Idle(agenda[k + 2])
              IN Perform([Nothing EXCEPT !.drop = n])
           /\ UNCHANGED <<scopes, aliases, outside>>

Descend == /\ Ready("rule") /\ ~Idle(Head(agenda))
         /\ Perform(Parse(Argument, Number))
         /\ UNCHANGED <<scopes, aliases, outside>>

Consume == /\ Ready("expect")
           /\ Perform(IF Class(Current) = Argument THEN Eat(<<>>) ELSE [Nothing EXCEPT !.bad = 1])
           /\ UNCHANGED <<scopes, aliases, outside>>

\* The end of file has no lexeme to take the length of.
ReadLexeme == /\ Ready("lexeme")
              /\ IF Current = "eof" THEN agenda' = Crash ELSE agenda' = Tail(agenda)
              /\ UNCHANGED <<values, ahead, errors, recovery, scopes, aliases, outside>>

Create == /\ Doing("make")
          /\ LET parts == SubSeq(values, Len(values) - Number + 1, Len(values))
             IN Perform(Give(Number, Build(Argument, parts)))
          /\ UNCHANGED <<scopes, aliases, outside>>

Combine == /\ Doing("join")
           /\ Perform(JoinOperands(Argument, Number))
           /\ UNCHANGED <<scopes, aliases, outside>>

AddItem == /\ Doing("collect")
           /\ LET list  == Kids(values[Len(values) - 1])
                  items == IF Argument = "some" /\ Top = Nil THEN list ELSE Append(list, Top)
              IN Perform(Give(2, <<"list", "", items>>))
           /\ UNCHANGED <<scopes, aliases, outside>>

ChangeScope == /\ Doing("scope")
               /\ scopes' = IF Argument = "enter" THEN Append(scopes, <<>>)
                            ELSE SubSeq(scopes, 1, Len(scopes) - 1)
               /\ Perform(Nothing)
               /\ UNCHANGED <<aliases, outside>>

DeclareVariable == /\ Doing("declare") /\ Argument = "variable"
                   /\ IF values[Len(values) - 1] # Nil /\ ~recovery
                      THEN Insert(values[Len(values) - 2][2], "value") ELSE UNCHANGED scopes
                   /\ Perform(Nothing)
                   /\ UNCHANGED <<aliases, outside>>

DeclareFunction == /\ Doing("declare") /\ Argument = "function"
                   /\ IF ~recovery THEN Insert(values[Len(values) - 2][2], "value") ELSE UNCHANGED scopes
                   /\ Perform(Nothing)
                   /\ UNCHANGED <<aliases, outside>>

DeclareNamespace == /\ Doing("declare") /\ Argument = "module"
                    /\ Insert(Namespace(Top[2]), "module")
                    /\ Perform(Nothing)
                    /\ UNCHANGED <<aliases, outside>>

\* The first declaration of an alias stays.
DeclareAlias ==
  LET name == values[Len(values) - 1][2]
  IN /\ Doing("declare") /\ Argument = "alias"
     /\ aliases' = IF Top = Nil THEN aliases ELSE aliases @@ (name :> Top)
     /\ Perform(IF Top = Nil THEN Give(2, Nil)
                ELSE [Give(2, TypeDeclaration(name, Top))
                      EXCEPT !.bad = IF name \in DOMAIN aliases THEN 1 ELSE 0])
     /\ UNCHANGED <<scopes, outside>>

\* Mutant: synchronize begins at the token that was not expected.
MutFailHere == /\ Ready("fail")
               /\ Perform([Push(Nil, <<Skip>>) EXCEPT !.bad = 1, !.recover = TRUE])
               /\ UNCHANGED <<scopes, aliases, outside>>
\* error_expected, enter_recovery_mode and the first step of synchronize.
FailHere == /\ Ready("fail")
            /\ Perform([Push(Nil, <<Skip>>) EXCEPT !.bad = 1, !.recover = TRUE, !.eat = 1])
            /\ UNCHANGED <<scopes, aliases, outside>>

Synchronize == /\ Ready("skip")
               /\ Perform(CASE Current = ";"        -> Eat(<<>>)
                            [] Current \in Anchors -> Nothing
                            [] OTHER               -> Eat(<<Skip>>))
               /\ UNCHANGED <<scopes, aliases, outside>>

(***************************************************************************)
(* The text.  A part of a string stands before each ${ and behind each }   *)
(* that closes one: the scanner makes them so.                             *)
(***************************************************************************)
Places(token) == {k \in DOMAIN text : text[k] = token}
Scannable(t) ==
  /\ t = "${" => text # <<>> /\ text[Len(text)] \in Strings
  /\ t = "}$" => Cardinality(Places("${")) > Cardinality(Places("}$"))
  /\ text # <<>> /\ text[Len(text)] = "}$" => t \in Strings \cup {"eof"}

NextTokens ==
  IF Len(text) < Len(dialect.prefix) THEN {dialect.prefix[Len(text) + 1]}
  ELSE IF errors >= dialect.errors \/ Len(text) >= Len(dialect.prefix) + dialect.max THEN {"eof"}
  ELSE {t \in dialect.tokens \cup {"eof"} : Scannable(t)}

\* advance_token takes a token from the scanner; behind the end it is the end again.
Scan ==
  /\ Len(ahead) < Looks
  /\ IF text # <<>> /\ text[Len(text)] = "eof"
     THEN ahead' = Append(ahead, "eof") /\ UNCHANGED <<text, forms>>
     ELSE \E t \in NextTokens : /\ ahead' = Append(ahead, t)
                                /\ text' = Append(text, t)
                                /\ forms' = Following(forms, t, text)
  /\ UNCHANGED <<agenda, values, errors, recovery, scopes, aliases, dialect>>

Init == /\ agenda = <<Rule("program")>> /\ values = <<List>> /\ ahead = <<>>
        /\ errors = 0 /\ recovery = FALSE
        /\ scopes = << <<>> >> /\ aliases = <<>>
        /\ text = <<>> /\ forms = {Whole} /\ dialect \in Dialects

Next == \/ Scan \/ Descend \/ Ascend \/ Consume \/ ReadLexeme \/ Create \/ Combine \/ AddItem
        \/ ChangeScope \/ DeclareVariable \/ DeclareFunction \/ DeclareNamespace \/ DeclareAlias
        \/ FailHere \/ Synchronize

Spec == Init /\ [][Next]_vars /\ WF_vars(Next)

Crashed == agenda = Crash
Parsed  == agenda = <<>>

\* The grammar and the parser agree on every text: an error, or a crash, comes only where no
\* text of the language goes on that way, and a text parsed without error is in the language.
SameLanguage == /\ errors > 0 \/ Crashed => forms = {}
                /\ Parsed /\ errors = 0 => <<>> \in forms

\* The tree of a text parsed without error stands for that text: operators bind as the grammar
\* has it, an else belongs to the nearest if, no part is lost.
SameTree == Parsed /\ errors = 0 => IsProgram(values[1], SubSeq(text, 1, Len(text) - 1) )

\* Recovery never keeps the parser from the end of the file.
Terminates == <>(Parsed \/ Crashed)
=============================================================================
