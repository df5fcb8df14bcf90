---------------------------- MODULE MCAlgorithms ----------------------------
(***************************************************************************)
(* Patterns of up to four pieces, texts of up to three characters, escaped *)
(* texts, bytes and sources of four, programs of five declarations in main *)
(* and three modules, two of which share their last segment.               *)
(***************************************************************************)
EXTENDS Algorithms

XA == <<"adan", "x", "a">>
YA == <<"adan", "y", "a">>
XB == <<"adan", "x", "b">>
MCPaths == <<XA, YA, XB>>
Files   == {Modules!MainFile, XA, YA, XB}

Imports(p)     == [op |-> "import", path |-> p]
Variable(p, v) == [op |-> "variable", name |-> <<v>>, type |-> <<"i32">>, home |-> p]
Function(p, f) == [op |-> "function", name |-> <<f>>, type |-> <<"i32">>, home |-> p,
                   params |-> IF p = YA THEN 1 ELSE 0, library |-> "", extern |-> FALSE,
                   body |-> <<>>]
UseOf(module, name, call) ==
  [in |-> module, name |-> name, call |-> call, args |-> 0, callee |-> <<>>, ok |-> FALSE]
MCCalls == <<UseOf("", "f", TRUE), UseOf("", "__p", TRUE), UseOf("a", "f", TRUE),
             UseOf("b", "f", TRUE), UseOf("a", "__p", TRUE), UseOf("b", "__p", TRUE),
             UseOf("", "f", FALSE), UseOf("", "v", FALSE), UseOf("a", "v", FALSE),
             UseOf("b", "f", FALSE), UseOf("b", "v", FALSE)>>

Declarations ==
  {[at |-> p, decl |-> Imports(q)] : p \in Files, q \in {XA, YA, XB}}
    \cup {[at |-> p, decl |-> Function(p, f)] : p \in Files, f \in {"f", "__p"}}
    \cup {[at |-> XB, decl |-> Variable(XB, v)] : v \in {"f", "v"}}

MCPieces ==
  [pattern |-> {<<"a">>, <<"a", "b">>, <<"|">>, <<"(">>, <<")">>, <<"(", "?", ":">>,
                <<"(", "?", "=">>, <<"(", "?", "<", "!">>, <<"*">>, <<"?">>, <<"+", "?">>,
                <<"{", "2", "}">>, <<"\\", "1">>, <<"$">>, <<"\\", "b">>, <<"[", "^", "a", "]">>},
   text    |-> {<<c>> : c \in {"\"", "'", "\\", "(", "{", "*", "a", "1"}},
   bytes   |-> {<<b>> : b \in {97, 128, 143, 144, 159, 160, 191, 193, 194, 224, 225, 240, 244}},
   source  |-> {<<c>> : c \in {"a", "1", "\"", "\\", "$", "{", "}", "/", "*", "newline", "!", "=",
                               ".", "+", "#"}} \cup {<<"$", "{">>, <<"\"", "$", "{">>},
   modules |-> {<<d>> : d \in {x \in Declarations : x.decl.op = "import" => x.decl.path # x.at}}]
MCMaxPieces == [pattern |-> 4, text |-> 4, bytes |-> 4, source |-> 4, modules |-> 5]
MCTexts == {<<>>, <<"a">>, <<"b">>, <<"a", "a">>, <<"a", "b">>,
            <<"a", "a", "b">>, <<"b", "a", "b">>, <<"a", " ", "b">>}
\* Only programs, for the run that looks at nothing else.
MCModulePieces == [modules |-> MCPieces.modules]
=============================================================================
