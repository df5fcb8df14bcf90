------------------------------- MODULE Regex --------------------------------
(***************************************************************************)
(* libs/regex/regex.c, the native regular expression engine: a recursive   *)
(* descent parser from a pattern to a tree, a backtracking matcher over    *)
(* the tree, and the library calls built from the two.                     *)
(*                                                                         *)
(* A pattern and a text are sequences of characters, a character is a one  *)
(* letter string.  Positions count from 0 as in the code: At(s, i) is      *)
(* s->codepoints[i].  Bytes and their decoding are in module Utf8.         *)
(* Allocation failures are left out.                                       *)
(***************************************************************************)
EXTENDS Integers, Sequences, FiniteSets, TLC

(***************************************************************************)
(* Characters.                                                             *)
(***************************************************************************)
\* The printable characters in the order of their codes; the first is 32.
\* The backquote is named.
Ascii == << " ", "!", "\"", "#", "$", "%", "&", "'", "(", ")", "*", "+", ",",
  "-", ".", "/", "0", "1", "2", "3", "4", "5", "6", "7", "8", "9", ":", ";",
  "<", "=", ">", "?", "@", "A", "B", "C", "D", "E", "F", "G", "H", "I", "J",
  "K", "L", "M", "N", "O", "P", "Q", "R", "S", "T", "U", "V", "W", "X", "Y",
  "Z", "[", "\\", "]", "^", "_", "backquote", "a", "b", "c", "d", "e", "f", "g", "h",
  "i", "j", "k", "l", "m", "n", "o", "p", "q", "r", "s", "t", "u", "v", "w",
  "x", "y", "z", "{", "|", "}", "~" >>

Between(lo, hi) == {Ascii[i - 31] : i \in lo .. hi}
Digits  == Between(48, 57)
Upper   == Between(65, 90)
Lower   == Between(97, 122)
Letters == Upper \cup Lower

CodeOf == [c \in {Ascii[i] : i \in 1 .. 95} |-> 31 + CHOOSE i \in 1 .. 95 : Ascii[i] = c]
\* Codes outside the table are one character.
CharOf(code) == IF code \in 32 .. 126 THEN Ascii[code - 31] ELSE "other"
Code(c) == IF c \in DOMAIN CodeOf THEN CodeOf[c] ELSE 0

Newlines == {"\n", "\r"}
IsWord(c) == c = "_" \/ c \in Letters \cup Digits

\* The character sets a class can name.
Builtin == [DIGIT |-> Digits, SPACE |-> {" ", "\n", "\r", "\t", "\f"},
            WORD |-> Letters \cup Digits \cup {"_"}, ALPHA |-> Letters,
            ALNUM |-> Letters \cup Digits, LOWER |-> Lower, UPPER |-> Upper,
            XDIGIT |-> Digits \cup Between(65, 70) \cup Between(97, 102)]

At(s, i) == s[i + 1]
Is(s, i, c) == i < Len(s) /\ At(s, i) = c
Slice(s, from, to) == SubSeq(s, from + 1, to)

(***************************************************************************)
(* Parsing.  A parse ends with [ok, node, at, caps]: the tree, the index   *)
(* behind it and the captures numbered so far; or with Fail.               *)
(***************************************************************************)
Fail == [ok |-> FALSE]
Parsed(node, at, caps) == [ok |-> TRUE, node |-> node, at |-> at, caps |-> caps]
Cases(r, Goes(_), otherwise) == IF r.ok THEN Goes(r) ELSE otherwise
Then(r, Goes(_)) == Cases(r, Goes, r)   \* the first failure is the result
Node(kind) == [kind |-> kind]
Literal(c) == [kind |-> "LITERAL", literal |-> c]

HexValue(c) ==
  IF c \in Digits THEN Code(c) - 48
  ELSE IF c \in Between(97, 102) THEN Code(c) - 87
  ELSE IF c \in Between(65, 70) THEN Code(c) - 55
  ELSE -1

\* The value of a number written in `base`.
RECURSIVE Value(_, _)
Value(digits, base) ==
  IF digits = <<>> THEN 0
  ELSE base * Value(SubSeq(digits, 1, Len(digits) - 1), base) + HexValue(digits[Len(digits)])

ParseHexDigits(p, i, n) ==
  LET digits == Slice(p, i, i + n)
  IN IF i + n > Len(p) \/ \E k \in 1 .. n : HexValue(digits[k]) < 0
     THEN Fail
     ELSE [ok |-> TRUE, char |-> CharOf(Value(digits, 16)), at |-> i + n]

\* i is the index behind the backslash.
ParseLiteralEscape(p, i) ==
  LET control == [n |-> "\n", r |-> "\r", t |-> "\t", f |-> "\f"] @@ ("v" :> "VT") @@ ("0" :> "NUL")
      digits  == [x |-> 2, u |-> 4, U |-> 8]
      ch      == At(p, i)
  IN IF i >= Len(p) THEN Fail
     ELSE IF ch \in DOMAIN digits THEN ParseHexDigits(p, i + 1, digits[ch])
     ELSE [ok |-> TRUE, at |-> i + 1,
           char |-> IF ch \in DOMAIN control THEN control[ch] ELSE ch]

ClassLetter == [d |-> "DIGIT", s |-> "SPACE", w |-> "WORD"]

Posix == (<<"a","l","p","h","a">> :> "ALPHA") @@ (<<"a","l","n","u","m">> :> "ALNUM")
      @@ (<<"d","i","g","i","t">> :> "DIGIT") @@ (<<"s","p","a","c","e">> :> "SPACE")
      @@ (<<"l","o","w","e","r">> :> "LOWER") @@ (<<"u","p","p","e","r">> :> "UPPER")
      @@ (<<"x","d","i","g","i","t">> :> "XDIGIT") @@ (<<"w","o","r","d">> :> "WORD")

\* The ends of the "[:name:]" items that open at i; the first is taken.
PosixEnds(p, i) == {k \in i + 2 .. Len(p) - 2 : At(p, k) = ":" /\ At(p, k + 1) = "]"}

\* An item is a literal, or the name of a set with literal "".
ParseClassItem(p, i) ==
  LET item(literal, builtins, at) ==
        [ok |-> TRUE, literal |-> literal, builtins |-> builtins, at |-> at]
      close  == CHOOSE k \in PosixEnds(p, i) : \A j \in PosixEnds(p, i) : k <= j
  IN IF i >= Len(p) THEN Fail
     ELSE IF At(p, i) = "\\"
     THEN IF i + 1 < Len(p) /\ At(p, i + 1) \in DOMAIN ClassLetter
          THEN item("", {ClassLetter[At(p, i + 1)]}, i + 2)
          ELSE Then(ParseLiteralEscape(p, i + 1), LAMBDA e : item(e.char, {}, e.at))
     ELSE IF /\ At(p, i) = "[" /\ Is(p, i + 1, ":")
             /\ PosixEnds(p, i) # {} /\ Slice(p, i + 2, close) \in DOMAIN Posix
     THEN item("", {Posix[Slice(p, i + 2, close)]}, close + 2)
     ELSE item(At(p, i), {}, i + 1)

\* The ends of a range are exchanged when they are out of order.
AddRange(class, a, b) ==
  IF a = "" THEN class
  ELSE [class EXCEPT !.ranges = @ \cup {IF Code(a) > Code(b) THEN <<b, a>> ELSE <<a, b>>}]

\* The loop over the items.  A literal waits in `pending` (none is "") for
\* the item behind it; a "-" is looked for behind that second item.
RECURSIVE ParseClassItems(_, _, _, _, _)
ParseClassItems(p, i, class, pending, any) ==
  LET flushed == AddRange(class, pending, pending)
      first   == IF At(p, i) = "]" THEN [ok |-> TRUE, literal |-> "]", builtins |-> {}, at |-> i + 1]
                 ELSE ParseClassItem(p, i)
      range(item) == /\ pending # "" /\ Is(p, item.at, "-")
                     /\ item.at + 1 < Len(p) /\ At(p, item.at + 1) # "]"
  IN IF i >= Len(p) THEN Fail
     ELSE IF At(p, i) = "]" /\ any THEN [ok |-> TRUE, class |-> flushed, at |-> i + 1]
     ELSE Then(first, LAMBDA item :
       IF item.builtins # {}
       THEN ParseClassItems(p, item.at, [flushed EXCEPT !.builtins = @ \cup item.builtins], "", TRUE)
       ELSE IF ~range(item) THEN ParseClassItems(p, item.at, flushed, item.literal, TRUE)
       ELSE Then(ParseClassItem(p, item.at + 1), LAMBDA upto :
         IF upto.literal = "" THEN Fail
         ELSE ParseClassItems(p, upto.at, AddRange(class, pending, upto.literal), "", TRUE)))

Class(negated, builtins) ==
  [kind |-> "CLASS", negated |-> negated, builtins |-> builtins, ranges |-> {}]

ParseClass(p, i, caps) ==
  LET negated == Is(p, i + 1, "^")
  IN Then(ParseClassItems(p, IF negated THEN i + 2 ELSE i + 1, Class(negated, {}), "", FALSE),
          LAMBDA r : Parsed(r.class, r.at, caps))

\* What an opening parenthesis at i begins, and how long the opening is.
\* Every form but (?: counts as a capture, the look-arounds too.
Openings == << <<"(", "?", ":">>, <<"(", "?", "=">>, <<"(", "?", "!">>,
               <<"(", "?", "<", "=">>, <<"(", "?", "<", "!">>, <<"(">> >>
Opens(p, i, k) == /\ i + Len(Openings[k]) <= Len(p)
                  /\ Slice(p, i, i + Len(Openings[k])) = Openings[k]
Opening(p, i) ==
  IF Is(p, i + 1, "?")
  THEN IF \E k \in 1 .. 5 : Opens(p, i, k) THEN CHOOSE k \in 1 .. 5 : Opens(p, i, k) ELSE 0
  ELSE 6

\* The index behind the digits that start at i.
DigitsEnd(p, i) ==
  CHOOSE j \in i .. Len(p) : /\ \A k \in i .. j - 1 : At(p, k) \in Digits
                             /\ j = Len(p) \/ At(p, j) \notin Digits

ParseEscape(p, i, caps) ==
  LET ch == At(p, i + 1)
      shorthand == [d |-> Class(FALSE, {"DIGIT"}), D |-> Class(TRUE, {"DIGIT"}),
                    s |-> Class(FALSE, {"SPACE"}), S |-> Class(TRUE, {"SPACE"}),
                    w |-> Class(FALSE, {"WORD"}),  W |-> Class(TRUE, {"WORD"}),
                    b |-> Node("WORD_BOUNDARY"),   B |-> Node("NOT_WORD_BOUNDARY")]
      to == DigitsEnd(p, i + 1)
  IN IF i + 1 >= Len(p) THEN Fail
     ELSE IF ch \in Digits \ {"0"}
     THEN Parsed([kind |-> "BACKREF", index |-> Value(Slice(p, i + 1, to), 10)], to, caps)
     ELSE IF ch \in DOMAIN shorthand THEN Parsed(shorthand[ch], i + 2, caps)
     ELSE Then(ParseLiteralEscape(p, i + 1), LAMBDA e : Parsed(Literal(e.char), e.at, caps))

RECURSIVE ParseExpression(_, _, _)

ParseGroup(p, i, caps) ==
  LET k     == Opening(p, i)
      index == IF k = 1 THEN 0 ELSE caps + 1
      node(child) == IF k \in 2 .. 5
                     THEN [kind |-> "LOOK", child |-> child,
                           positive |-> k \in {2, 4}, behind |-> k \in {4, 5}]
                     ELSE [kind |-> "GROUP", child |-> child, index |-> index]
  IN IF k = 0 THEN Fail
     ELSE Then(ParseExpression(p, i + Len(Openings[k]), IF k = 1 THEN caps ELSE caps + 1), LAMBDA r :
       IF Is(p, r.at, ")") THEN Parsed(node(r.node), r.at + 1, r.caps) ELSE Fail)

ParseAtom(p, i, caps) ==
  LET ch == At(p, i)
      simple == ("^" :> "ASSERT_START") @@ ("$" :> "ASSERT_END") @@ ("." :> "DOT")
  IN IF ch \in DOMAIN simple THEN Parsed(Node(simple[ch]), i + 1, caps)
     ELSE IF ch = "[" THEN ParseClass(p, i, caps)
     ELSE IF ch = "(" THEN ParseGroup(p, i, caps)
     ELSE IF ch = "\\" THEN ParseEscape(p, i, caps)
     ELSE IF ch \in {"|", ")", "*", "+", "?"} THEN Fail
     ELSE Parsed(Literal(ch), i + 1, caps)

\* The counts between braces: digits, then "}" or "," and the second count.
\* Braces that do not close are not a quantifier; braces without a first, or
\* with "," and no second count before something else, are an error.
Counts(p, i) ==
  LET mid == DigitsEnd(p, i + 1)
      to  == DigitsEnd(p, mid + 1)
      first == Value(Slice(p, i + 1, mid), 10)
  IN IF mid = i + 1 THEN Fail
     ELSE IF ~Is(p, mid, ",") THEN [ok |-> TRUE, at |-> mid, min |-> first, max |-> first]
     ELSE IF Is(p, mid + 1, "}") THEN [ok |-> TRUE, at |-> mid + 1, min |-> first, max |-> -1]
     ELSE IF mid + 1 >= Len(p) \/ to = mid + 1 THEN Fail
     ELSE [ok |-> TRUE, at |-> to, min |-> first, max |-> Value(Slice(p, mid + 1, to), 10)]

ParseTerm(p, i, caps) ==
  LET simple == ("*" :> <<0, -1>>) @@ ("+" :> <<1, -1>>) @@ ("?" :> <<0, 1>>)
      repeat(atom, min, max, at) ==
        LET lazy == Is(p, at, "?")
        IN Parsed([kind |-> "REPEAT", child |-> atom.node, min |-> min, max |-> max,
                   greedy |-> ~lazy], IF lazy THEN at + 1 ELSE at, atom.caps)
  IN Then(ParseAtom(p, i, caps), LAMBDA atom :
       IF atom.at >= Len(p) THEN atom
       ELSE IF At(p, atom.at) \in DOMAIN simple
       THEN repeat(atom, simple[At(p, atom.at)][1], simple[At(p, atom.at)][2], atom.at + 1)
       ELSE IF At(p, atom.at) # "{" THEN atom
       ELSE Then(Counts(p, atom.at), LAMBDA n :
         IF Is(p, n.at, "}") THEN repeat(atom, n.min, n.max, n.at + 1) ELSE atom))

\* One item stands for itself, none is EMPTY.
FromList(kind, items) ==
  IF items = <<>> THEN Node("EMPTY")
  ELSE IF Len(items) = 1 THEN items[1]
  ELSE [kind |-> kind, items |-> items]

RECURSIVE ParseSequence(_, _, _, _)
ParseSequence(p, i, caps, items) ==
  IF i >= Len(p) \/ At(p, i) \in {"|", ")"} THEN Parsed(FromList("SEQUENCE", items), i, caps)
  ELSE Then(ParseTerm(p, i, caps), LAMBDA term :
         ParseSequence(p, term.at, term.caps, Append(items, term.node)))

RECURSIVE ParseBranches(_, _, _, _)
ParseBranches(p, i, caps, branches) ==
  Then(ParseSequence(p, i, caps, <<>>), LAMBDA branch :
    LET all == Append(branches, branch.node)
    IN IF Is(p, branch.at, "|") THEN ParseBranches(p, branch.at + 1, branch.caps, all)
       ELSE Parsed(FromList("ALTERNATION", all), branch.at, branch.caps))

ParseExpression(p, i, caps) == ParseBranches(p, i, caps, <<>>)

\* Every call strips one pair of quotes from each of its strings.
Quotes == {"\"", "'", "backquote"}
Unwrap(s) ==
  IF Len(s) >= 2 /\ s[1] \in Quotes /\ s[Len(s)] = s[1] THEN SubSeq(s, 2, Len(s) - 1) ELSE s

\* The whole pattern has to be read.
Compile(pattern) ==
  LET p == Unwrap(pattern)
  IN Then(ParseExpression(p, 0, 0), LAMBDA r :
       IF r.at = Len(p) THEN [ok |-> TRUE, root |-> r.node, capture_count |-> r.caps] ELSE Fail)
=============================================================================
