------------------------------- MODULE Syntax -------------------------------
(***************************************************************************)
(* Tokens and syntax trees.  A token is a name for a class of lexemes that *)
(* the parser does not tell apart; a tree is <<kind, label, children>>.    *)
(* What a node is created from is what it keeps: lines and columns are     *)
(* left out, and so is the memory of a node.                               *)
(***************************************************************************)
EXTENDS Sequences, Integers

Identifiers == {"id", "abi"}     \* "abi" is a word of function metadata too
Strings     == {"str", "sstr"}   \* paths, or parts of a text: see Namespace
Numbers     == {"num"}
Booleans    == {"true"}
CastTypes   == {"i32"}           \* the types a cast may name
TypeTokens  == CastTypes \cup {"u8"}

\* The kind of token consume asks for.
Class(t) == CASE t \in Identifiers -> "id" [] t \in Strings -> "str" [] OTHER -> t

\* The last part of a path names the module: "sstr" is a path that ends in a type's name.
Namespace(t) == CASE t = "str" -> "id" [] t = "sstr" -> "u8" [] OTHER -> t

Leaf(kind, label) == <<kind, label, <<>> >>
Nil == Leaf("null", "")
Kids(tree) == tree[3]
IsIdentifier(tree) == tree[1] = "identifier"

Identifier(name)      == Leaf("identifier", name)
StringLiteral(value)  == Leaf("string", value)
NumberLiteral(value)  == Leaf("number", value)
BooleanLiteral(value) == Leaf("boolean", value)
BinaryOp(op, left, right)      == <<"binary", op, <<left, right>> >>
Cast(type, expr)               == <<"cast", "", <<type, expr>> >>
Call(callee, args)             == <<"call", callee, args>>
MemberAccess(object, property) == <<"member", property, <<object>> >>
ArrayAccess(array, index)      == <<"index", "", <<array, index>> >>
ObjectLiteral(properties)      == <<"object", "", properties>>
ArrayLiteral(elements)         == <<"array", "", elements>>

Type(name)             == Leaf("type", name)
ArrayType(inner)       == <<"type", "array", <<inner>> >>
ObjectType(fields)     == <<"type", "object", fields>>
Property(name, value)  == <<"property", name, <<value>> >>

Assignment(name, value)   == <<"assignment", name, <<value>> >>
ExpressionStatement(expr) == <<"expression", "", <<expr>> >>
Return(expr)              == <<"return", "", <<expr>> >>
Break                     == Leaf("break", "")
Continue                  == Leaf("continue", "")
If(condition, then, else) == <<"if", "", <<condition, then, else>> >>
While(condition, body)    == <<"while", "", <<condition, body>> >>
For(declaration, condition, increment, body) ==
  <<"for", "", <<declaration, condition, increment, body>> >>
Block(statements) == <<"block", "", statements>>
Program(decls)    == <<"program", "", decls>>

Import(path)        == Leaf("import", path)
LinkDirective(value) == <<"link", "", <<value>> >>
TypeDeclaration(name, type) == <<"type alias", name, <<type>> >>
VariableDeclaration(mutable, name, type, initializer) ==
  <<IF mutable THEN "set" ELSE "const", name, <<type, initializer>> >>
Parameter(name, type) == <<"parameter", name, <<type>> >>
Variadic(name, type)  == <<"variadic", name, <<type>> >>
\* metadata is <<the link name or Nil, the abi or Nil>>; an extern function has no body.
FunctionDeclaration(flags, name, parameters, type, metadata, body) ==
  <<"function", name, <<flags, <<"parameters", "", parameters>>, type,
                        <<"metadata", "", metadata>>, body>> >>
=============================================================================
