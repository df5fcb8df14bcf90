----------------------------- MODULE Algorithms -----------------------------
(***************************************************************************)
(* The parts of the system that are functions of an input, over inputs     *)
(* that grow piece by piece: the regular expression engine and the decoder *)
(* of characters, the scanner, and the import of modules.                  *)
(* For the engine, Outcomes is the reference: all the ways a tree can      *)
(* match, with no order of attempts and no commitment.                     *)
(***************************************************************************)
EXTENDS RegexMatch, Utf8

Sources == INSTANCE Scanner
Modules == INSTANCE ImportsReference

CONSTANTS Pieces,    \* Pieces[kind]: the sequences an input of a kind grows by
          MaxPieces, \* MaxPieces[kind]: how many of them
          Texts,     \* the texts a pattern is tried on
          Paths,     \* the modules there are, in an order
          Calls      \* the uses every function of a program makes

VARIABLES kind,   \* "pattern", "text", "bytes", "source" or "modules"
          input,  \* a sequence of characters, of bytes or of [at, decl], a declaration in a file
          pieces  \* how many pieces it is made of

vars == <<kind, input, pieces>>

Init == kind \in DOMAIN Pieces /\ input = <<>> /\ pieces = 0

\* The declarations of a program come file by file, and none twice.
Rank(path) == IF path = Modules!MainFile THEN 0 ELSE CHOOSE k \in DOMAIN Paths : Paths[k] = path
Fits(s) == kind = "modules" /\ input # <<>> =>
             /\ Rank(s[1].at) >= Rank(input[Len(input)].at)
             /\ \A k \in DOMAIN input : input[k] # s[1]

Extend == /\ pieces < MaxPieces[kind]
          /\ \E s \in Pieces[kind] : Fits(s) /\ input' = input \o s
          /\ pieces' = pieces + 1
          /\ UNCHANGED kind

Next == Extend
Spec == Init /\ [][Next]_vars

\* The program the input stands for, if it is a pattern.
Programs == IF kind = "pattern" THEN {p \in {Compile(input)} : p.ok} ELSE {}

(***************************************************************************)
(* The reference semantics: the set of <<end, captures>> that the pairs in *)
(* S can become.                                                           *)
(***************************************************************************)
RECURSIVE Outcomes(_, _, _)
RECURSIVE OutcomesOfItems(_, _, _, _)
RECURSIVE OutcomesOfRepeat(_, _, _, _, _)

OutcomesOfItems(items, k, t, S) ==
  IF k > Len(items) THEN S ELSE OutcomesOfItems(items, k + 1, t, Outcomes(items[k], t, S))

\* Once the minimum is reached, every round adds what one more time gives.
OutcomesOfRepeat(child, min, max, t, S) ==
  LET more == Outcomes(child, t, S)
  IN IF min > 0 THEN OutcomesOfRepeat(child, min - 1, max - 1, t, more)
     ELSE IF max = 0 \/ more \subseteq S THEN S
     ELSE OutcomesOfRepeat(child, 0, max - 1, t, S \cup more)

Outcomes(node, t, S) ==
  LET each(Of(_)) == UNION {Of(s) : s \in S}
      child(s)    == Outcomes(node.child, t, {s})
      behind(s)   == {o \in UNION {child(<<start, s[2]>>) : start \in 0 .. s[1]} : o[1] = s[1]}
      looked(s)   == IF node.behind THEN behind(s) ELSE child(s)
  IN CASE node.kind = "SEQUENCE"    -> OutcomesOfItems(node.items, 1, t, S)
       [] node.kind = "ALTERNATION" ->
            UNION {Outcomes(node.items[k], t, S) : k \in DOMAIN node.items}
       [] node.kind = "REPEAT" ->
            IF node.max >= 0 /\ node.max < node.min THEN {}
            ELSE OutcomesOfRepeat(node.child, node.min, node.max, t, S)
       [] node.kind = "GROUP" -> each(LAMBDA s :
            {<<o[1], IF node.index = 0 THEN o[2] ELSE [o[2] EXCEPT ![node.index] = <<s[1], o[1]>>]>>
               : o \in child(s)})
       [] node.kind = "LOOK" -> each(LAMBDA s :
            IF node.positive THEN {<<s[1], o[2]>> : o \in looked(s)}
            ELSE IF looked(s) = {} THEN {s} ELSE {})
       [] OTHER -> each(LAMBDA s : LET m == MatchNode(node, t, s[1], s[2])
                                   IN IF m.ok THEN {<<m.end, m.caps>>} ELSE {})

OutcomesAt(program, t, pos) == Outcomes(program.root, t, {<<pos, NoCaptures(program)>>})

\* Every node of a tree.
RECURSIVE Nodes(_)
Nodes(node) ==
  {node} \cup IF node.kind \in {"SEQUENCE", "ALTERNATION"}
              THEN UNION {Nodes(node.items[k]) : k \in DOMAIN node.items}
              ELSE IF node.kind \in {"REPEAT", "GROUP", "LOOK"} THEN Nodes(node.child) ELSE {}

Kinds(node) == {n.kind : n \in Nodes(node)}

\* Without a group nothing below the top commits to a first success.
Flat(program) ==
  /\ Kinds(program.root) \cap {"GROUP", "LOOK", "BACKREF"} = {}
  /\ \A n \in Nodes(program.root) :
       n.kind = "REPEAT" => n.child.kind \in {"LITERAL", "DOT", "CLASS"}

\* A negated look-around turns an attempt given up too early into a match.
Monotone(program) == \A n \in Nodes(program.root) : n.kind = "LOOK" => n.positive

(***************************************************************************)
(* Properties.                                                             *)
(***************************************************************************)
\* Every match the engine reports, with the captures it reports, is one the
\* tree allows: nothing is left behind by an attempt that was given up.
MatchSound ==
  \A program \in Programs : Monotone(program) => \A t \in Texts : \A pos \in 0 .. Len(t) :
    LET m == MatchAt(program, t, pos) IN m.ok => <<m.end, m.caps>> \in OutcomesAt(program, t, pos)

\* A flat pattern is found exactly when it can match somewhere, and at the
\* first place it can: backtracking through repetitions misses nothing.
FlatComplete ==
  \A program \in Programs : Flat(program) => \A t \in Texts :
    LET possible == {pos \in 0 .. Len(t) : OutcomesAt(program, t, pos) # {}}
    IN Find(program, t) = IF possible = {} THEN -1
                          ELSE CHOOSE pos \in possible : \A q \in possible : pos <= q

RECURSIVE Join(_, _)
Join(parts, by) ==
  IF Len(parts) = 1 THEN Head(parts) ELSE Head(parts) \o by \o Join(Tail(parts), by)

\* The two loops over the matches agree: joining what split cuts out with a
\* word gives the text in which replace_all puts the word, also where matches
\* are empty, stand side by side or end the text.
SplitJoin ==
  \A program \in Programs : \A t \in Texts :
    Join(Split(program, t), <<"#">>) = ReplaceAll(program, t, <<"#">>)

\* Replacing every match by itself gives the text back, in each notation.
ReplaceSelf ==
  \A program \in Programs : \A t \in Texts : \A r \in {<<"$", "&">>, <<"$", "0">>, <<"\\", "0">>} :
    ReplaceAll(program, t, r) = t

\* The calls tell one story of a pattern and a text, although each walks
\* over the positions in a loop of its own.
CallsAgree ==
  \A program \in Programs : \A t \in Texts :
    \A found \in {Find(program, t)}, parts \in {Split(program, t)},
       replaced \in {Replace(program, t, <<"#">>)} :
      /\ StartsWith(program, t) <=> found = 0
      /\ Matches(program, t) => found = 0 /\ EndsWith(program, t)
      /\ EndsWith(program, t) => found >= 0
      /\ found = -1 <=> Len(parts) = 1
      /\ found = -1 => replaced = t
      /\ found >= 0 => Slice(replaced, 0, found + 1) = Append(Head(parts), "#")

\* The pattern made of an escaped text matches this text and nothing else,
\* whatever its characters mean in a pattern.  A text quoted twice loses one
\* more pair of quotes in the pattern than in the text, and is left out.
EscapeExact ==
  LET raw == Unwrap(input)
  IN kind = "text" /\ Unwrap(raw) = raw =>
       Compile(Escape(input)) = [ok |-> TRUE, capture_count |-> 0,
         root |-> FromList("SEQUENCE", [k \in DOMAIN raw |-> Literal(raw[k])])]

\* The engine works on whole characters: see Decodes in module Utf8.
CharactersWhole == kind = "bytes" => Decodes(input)

\* The tokens of a source are the lexemes that stand in it, in order and with nothing but layout
\* between them, and interpolations nest in strings as braces do in blocks: see module Scanner.
SourceScanned ==
  kind = "source" => Sources!WellScanned(Sources!Tokens(input), input, 1, <<>>, "none")

\* The program an input stands for: its files, the functions in them with their uses, and main.
With(decl) == IF decl.op = "function" THEN [decl EXCEPT !.body = Calls] ELSE decl
DeclarationsOf(path) ==
  LET here == SelectSeq(input, LAMBDA x : x.at = path)
  IN [k \in DOMAIN here |-> With(here[k].decl)]
Library == [p \in {Paths[k] : k \in DOMAIN Paths} |->
              [decls |-> DeclarationsOf(p), embedded |-> TRUE, bundle |-> ""]]
EntryPoint == [op |-> "function", name |-> <<"main">>, type |-> <<"i32">>, params |-> 0,
               library |-> "", extern |-> FALSE, body |-> Calls, home |-> Modules!MainFile]
Main == Append(DeclarationsOf(Modules!MainFile), EntryPoint)
IsModules == kind = "modules"

\* A call ns.f means the f of the module it names, and an unqualified one the function of its own
\* module, through imports in any order and re-exports: see Bind in module ImportsReference.
CallsMean == IsModules => Modules!CallsMean(Library, Main)

\* The same where a module defines what one of its imports exports too.
OwnFirst == IsModules => Modules!OwnFirst(Library, Main)

\* Every module is merged once, whatever diamonds and cycles the imports make; the walk over them
\* ends unless a module imports one with its own last segment; and a program never gets to call a
\* private function of a module.
ModulesMerged == IsModules => /\ Modules!MergedOnce(Library, Main)
                              /\ Modules!Ends(Library, Main)
                              /\ Modules!PrivateKept(Library, Main)
=============================================================================
