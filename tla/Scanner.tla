------------------------------ MODULE Scanner ------------------------------
(***************************************************************************)
(* scanner.c: one call makes the next token and leaves the scanner in a    *)
(* state <<position, brace_depth, the open string, whether a ${ waits, the *)
(* stack of interpolations>>.  A character is a string of length one; a    *)
(* token keeps its kind and the span of the source it stands for.          *)
(***************************************************************************)
EXTENDS Integers, Sequences

Letters == {"a", "o", "r", "i", "f", "_"}
Digits  == {"1", "2"}
Blanks  == {" ", "\t", "newline"}
Quotes  == {"\"", "'", "backquote"}
Keywords == {<<"i", "f">>, <<"o", "r">>}
Symbols  == {<<"=">>, <<"=", "=">>, <<"!", "=", "=">>, <<"<">>, <<"<", "=">>, <<">">>, <<">", "=">>,
             <<"+">>, <<"+", "=">>, <<"+", "+">>, <<"-">>, <<"-", "=">>, <<"-", "-">>,
             <<"*">>, <<"*", "=">>, <<"/">>, <<"/", "=">>, <<".">>, <<".", ".", ".">>}
            \cup {<<c>> : c \in {"(", ")", "{", "}", ":", ";", ",", "^", "%", "$", "[", "]"}}

\* The characters of the source from i on begin with word; past the end there is none.
Peek(source, i) == IF i \in DOMAIN source THEN source[i] ELSE "end"
Begins(source, i, word) == \A k \in DOMAIN word : Peek(source, i + k - 1) = word[k]

ScannerInit == [position |-> 1, brace_depth |-> 0, quote |-> "none", emit |-> FALSE, open |-> <<>>]
Token(kind, first, last) == [kind |-> kind, first |-> first, last |-> last]

\* The first position from i on whose character is not in S.
RECURSIVE While(_, _, _)
While(source, i, S) == IF Peek(source, i) \in S THEN While(source, i + 1, S) ELSE i

RECURSIVE CommentEnd(_, _)
CommentEnd(source, i) ==
  IF i > Len(source) THEN i
  ELSE IF Begins(source, i, <<"*", "/">>) THEN i + 2 ELSE CommentEnd(source, i + 1)

Starters == Letters \cup Digits \cup Quotes \cup {s[1] : s \in Symbols \ {<<"!", "=", "=">>}}

\* Blanks, comments and what cannot begin a token are passed over.
RECURSIVE SkipFrom(_, _)
SkipFrom(source, i) ==
  CASE i > Len(source) -> i
    [] Peek(source, i) \in Blanks -> SkipFrom(source, While(source, i, Blanks))
    [] Begins(source, i, <<"/", "/">>) ->
         LET Ends(k) == k > Len(source) \/ source[k] = "newline"
         IN SkipFrom(source, CHOOSE k \in i .. Len(source) + 1 :
                               Ends(k) /\ \A m \in i .. k - 1 : ~Ends(m))
    [] Begins(source, i, <<"/", "*">>) -> SkipFrom(source, CommentEnd(source, i + 2))
    [] Peek(source, i) = "!" /\ ~Begins(source, i, <<"!", "=", "=">>) ->
         SkipFrom(source, IF Peek(source, i + 1) = "=" THEN i + 2 ELSE i + 1)
    [] Peek(source, i) \notin Starters \cup {"!"} -> SkipFrom(source, i + 1)
    [] OTHER -> i

\* Where the part of a string from i on ends: at its quote, at ${ or at the end of the source.
RECURSIVE PartEnd(_, _, _)
PartEnd(source, i, quote) ==
  IF i > Len(source) \/ Peek(source, i) = quote \/ Begins(source, i, <<"$", "{">>) THEN i
  ELSE IF source[i] # "\\" THEN PartEnd(source, i + 1, quote)
  ELSE PartEnd(source, IF i + 2 > Len(source) THEN Len(source) + 1 ELSE i + 2, quote)

\* A string from its quote on, or again behind the } of an interpolation.  An unterminated one
\* makes the end of file, and stays open.
ScanString(s, source, first, quote) ==
  LET last == PartEnd(source, first, quote)
  IN CASE last > Len(source) -> [state |-> [s EXCEPT !.position = last, !.quote = quote],
                                 token |-> Token("eof", last, last)]
       [] source[last] = quote -> [state |-> [s EXCEPT !.position = last + 1, !.quote = "none"],
                                   token |-> Token("string", first, last)]
       [] OTHER -> [state |-> [s EXCEPT !.position = last + 2, !.quote = "none", !.emit = TRUE,
                                        !.open = Append(@, <<s.brace_depth, quote>>)],
                    token |-> Token("string", first, last)]

\* A } ends the innermost interpolation where its own braces are closed.
\* Mutant: any } does.
MutClosesInterpolation(s) == s.open # <<>>
ClosesInterpolation(s) == s.open # <<>> /\ s.brace_depth = s.open[Len(s.open)][1]

Brace(s, i) ==
  IF ClosesInterpolation(s)
  THEN [state |-> [s EXCEPT !.position = i + 1, !.quote = s.open[Len(s.open)][2],
                            !.open = SubSeq(@, 1, Len(@) - 1)],
        token |-> Token("}$", i, i + 1)]
  ELSE [state |-> [s EXCEPT !.position = i + 1, !.brace_depth = IF @ > 0 THEN @ - 1 ELSE 0],
        token |-> Token("}", i, i + 1)]

NumberEnd(source, i) ==
  LET whole == While(source, i, Digits)
  IN IF Peek(source, whole) = "." /\ Peek(source, whole + 1) \in Digits
     THEN While(source, whole + 1, Digits) ELSE whole

LongestSymbol(source, i) ==
  CHOOSE s \in Symbols : /\ Begins(source, i, s)
                         /\ \A r \in Symbols : Begins(source, i, r) => Len(r) <= Len(s)

ScanNextToken(s, source) ==
  LET i == SkipFrom(source, s.position)
      Read(kind, last) == [state |-> [s EXCEPT !.position = last], token |-> Token(kind, i, last)]
      word   == While(source, i, Letters \cup Digits)
      symbol == LongestSymbol(source, i)
  IN CASE s.emit -> [state |-> [s EXCEPT !.emit = FALSE],
                     token |-> Token("${", s.position - 2, s.position)]
       [] ~s.emit /\ s.quote # "none" -> ScanString(s, source, s.position, s.quote)
       [] OTHER ->
          CASE i > Len(source) -> Read("eof", i)
            [] Peek(source, i) \in Letters ->
                 Read(IF SubSeq(source, i, word - 1) \in Keywords THEN "keyword" ELSE "name", word)
            [] Peek(source, i) \in Digits -> Read("number", NumberEnd(source, i))
            [] Peek(source, i) \in Quotes -> ScanString(s, source, i + 1, source[i])
            [] Peek(source, i) = "{" -> [Read("{", i + 1) EXCEPT !.state.brace_depth = @ + 1]
            [] Peek(source, i) = "}" -> Brace(s, i)
            [] OTHER -> Read("symbol", i + Len(symbol))

\* The tokens of a source up to the end of file.
RECURSIVE TokensFrom(_, _)
TokensFrom(s, source) ==
  LET next == ScanNextToken(s, source)
  IN IF next.token.kind = "eof" THEN <<next.token>>
     ELSE <<next.token>> \o TokensFrom(next.state, source)

Tokens(source) == TokensFrom(ScannerInit, source)

(***************************************************************************)
(* The reference: what a sequence of spans must be to be the tokens of a   *)
(* source, with no order of reading.                                       *)
(***************************************************************************)
Span(source, t) == SubSeq(source, t.first, t.last - 1)
Word(w) == w # <<>> /\ w[1] \in Letters /\ \A k \in DOMAIN w : w[k] \in Letters \cup Digits

Others == {"#", "\\"}  \* characters of no token

\* Whole blanks, comments and characters no token begins with.
RECURSIVE Layout(_, _, _)
Layout(source, i, j) ==
  \/ i = j
  \/ i < j /\ source[i] \in Blanks \cup Others /\ Layout(source, i + 1, j)
  \/ i < j /\ source[i] = "!" /\ ~Begins(source, i, <<"!", "=">>) /\ Layout(source, i + 1, j)
  \/ i < j /\ Begins(source, i, <<"!", "=">>) /\ ~Begins(source, i, <<"!", "=", "=">>)
           /\ Layout(source, i + 2, j)
  \/ /\ i < j /\ Begins(source, i, <<"/", "/">>)
     /\ \E k \in i + 2 .. j : /\ \A m \in i .. k - 1 : source[m] # "newline"
                              /\ k > Len(source) \/ source[k] = "newline"
                              /\ Layout(source, k, j)
  \/ /\ i < j /\ Begins(source, i, <<"/", "*">>)
     /\ \E k \in i + 4 .. j + 1 :
          /\ ~\E m \in i + 2 .. k - 3 : Begins(source, m, <<"*", "/">>)
          /\ \/ Begins(source, k - 2, <<"*", "/">>) /\ Layout(source, k, j)
             \/ j > Len(source) /\ k = j + 1 /\ ~Begins(source, j - 2, <<"*", "/">>)
  \/ i < j /\ Begins(source, i, <<"/", "*">>) /\ j > Len(source) /\ j <= i + 3

\* Text inside a string: escapes are pairs, and neither its quote nor ${ stands alone.
RECURSIVE Inside(_, _)
Inside(w, quote) ==
  \/ w = <<>>
  \/ Len(w) > 1 /\ w[1] = "\\" /\ Inside(SubSeq(w, 3, Len(w)), quote)
  \/ w[1] \notin {"\\", quote} /\ ~Begins(w, 1, <<"$", "{">>) /\ Inside(Tail(w), quote)

IsLexeme(t, source) ==
  LET w == Span(source, t)
      Behind == Peek(source, t.last)
  IN CASE t.kind = "name"    -> Word(w) /\ w \notin Keywords /\ Behind \notin Letters \cup Digits
       [] t.kind = "keyword" -> w \in Keywords /\ Behind \notin Letters \cup Digits
       [] t.kind = "number"  ->
            /\ \E k \in 1 .. Len(w) : /\ \A m \in 1 .. k : w[m] \in Digits
                                      /\ \/ k = Len(w)
                                         \/ /\ k + 1 < Len(w) /\ w[k + 1] = "."
                                            /\ \A m \in k + 2 .. Len(w) : w[m] \in Digits
            /\ Behind \notin Digits
            /\ Behind = "." /\ Peek(source, t.last + 1) \in Digits => \E k \in DOMAIN w : w[k] = "."
       [] t.kind = "symbol"  -> /\ w \in Symbols \ {<<"{">>, <<"}">>}
                                /\ \A s \in Symbols : Begins(source, t.first, s) => Len(s) <= Len(w)
       [] t.kind = "${"      -> w = <<"$", "{">>
       [] t.kind \in {"}", "}$"} -> w = <<"}">>
       [] t.kind = "{"       -> w = <<"{">>
       [] OTHER -> TRUE

\* Folds the tokens: the stack holds "{" for a block and the quote of an open interpolation.
RECURSIVE WellScanned(_, _, _, _, _)
WellScanned(tokens, source, at, stack, quote) ==
  LET t == Head(tokens)
      rest(last, st, q) == WellScanned(Tail(tokens), source, last, st, q)
      part(q) == /\ Inside(Span(source, t), q)
                 /\ \/ /\ Peek(source, t.last) = q
                       /\ rest(t.last + 1, stack, "none")
                    \/ /\ Len(tokens) > 1 /\ tokens[2] = Token("${", t.last, t.last + 2)
                       /\ WellScanned(Tail(Tail(tokens)), source, t.last + 2, Append(stack, q), "none")
      top == IF stack = <<>> THEN "none" ELSE stack[Len(stack)]
      pop == SubSeq(stack, 1, Len(stack) - 1)
  IN IF t.kind = "eof"
     THEN \/ quote = "none" /\ Layout(source, at, Len(source) + 1)
          \/ \E k \in at .. Len(source) : /\ quote = "none" /\ source[k] \in Quotes /\ Layout(source, at, k)
                                          /\ \A m \in k + 1 .. Len(source) :
                                               ~(Inside(SubSeq(source, k + 1, m - 1), source[k])
                                                 /\ source[m] = source[k])
          \/ quote # "none"
     ELSE IF quote # "none" THEN t.kind = "string" /\ t.first = at /\ part(quote)
     ELSE IF t.kind = "string"
     THEN source[t.first - 1] \in Quotes /\ Layout(source, at, t.first - 1) /\ part(source[t.first - 1])
     ELSE /\ Layout(source, at, t.first) /\ IsLexeme(t, source)
          /\ CASE t.kind = "{"  -> rest(t.last, Append(stack, "{"), "none")
               [] t.kind = "}$" -> top \in Quotes /\ rest(t.last, pop, top)
               [] t.kind = "}"  -> top \notin Quotes /\ rest(t.last, IF stack = <<>> THEN stack ELSE pop, "none")
               [] OTHER -> t.kind # "${" /\ rest(t.last, stack, "none")
=============================================================================
