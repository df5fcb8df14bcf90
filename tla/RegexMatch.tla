----------------------------- MODULE RegexMatch -----------------------------
(***************************************************************************)
(* The matcher of libs/regex/regex.c and the library calls.  A match of a  *)
(* node at a position ends with [ok, end, caps] or with NoMatch.  The      *)
(* captures are copied before every attempt and written back only after a  *)
(* success, so a value passed along stands for them: caps[k] is the pair   *)
(* <<start, end>> of capture k, or <<>> when it is not defined.            *)
(***************************************************************************)
EXTENDS Regex

NoMatch == [ok |-> FALSE]
Matched(end, caps) == [ok |-> TRUE, end |-> end, caps |-> caps]
OrElse(first, second) == IF first.ok THEN first ELSE second
Once(holds, end, caps) == IF holds THEN Matched(end, caps) ELSE NoMatch

InClass(class, c) ==
  LET listed == \/ \E r \in class.ranges : c = r[1] \/ c = r[2] \/ (Code(r[1]) < Code(c) /\ Code(c) < Code(r[2]))
                \/ \E b \in class.builtins : c \in Builtin[b]
  IN listed # class.negated

IsWordBoundary(t, pos) ==
  (pos > 0 /\ IsWord(At(t, pos - 1))) # (pos < Len(t) /\ IsWord(At(t, pos)))

RECURSIVE MatchNode(_, _, _, _)
RECURSIVE MatchItems(_, _, _, _, _)
RECURSIVE MatchRepeat(_, _, _, _, _, _, _)

\* Mutant: a greedy repetition never gives back what it has taken.
MutMatchRepeat(repeat, items, next, t, pos, caps, repeats) ==
  LET rest == IF repeats < repeat.min THEN NoMatch ELSE MatchItems(items, next, t, pos, caps)
  IN IF repeat.max >= 0 /\ repeats >= repeat.max THEN rest
     ELSE Cases(MatchNode(repeat.child, t, pos, caps), LAMBDA once :
            IF once.end # pos
            THEN MatchRepeat(repeat, items, next, t, once.end, once.caps, repeats + 1)
            ELSE rest, rest)

\* items[next ..] are what has to match behind the repetition.
MatchRepeat(repeat, items, next, t, pos, caps, repeats) ==
  LET rest == IF repeats < repeat.min THEN NoMatch ELSE MatchItems(items, next, t, pos, caps)
      more == IF repeat.max >= 0 /\ repeats >= repeat.max THEN NoMatch
              ELSE Then(MatchNode(repeat.child, t, pos, caps), LAMBDA once :
                IF once.end # pos
                THEN MatchRepeat(repeat, items, next, t, once.end, once.caps, repeats + 1)
                ELSE IF repeats + 1 >= repeat.min THEN MatchItems(items, next, t, pos, once.caps)
                ELSE NoMatch)
  IN IF repeat.greedy THEN OrElse(more, rest) ELSE OrElse(rest, more)

MatchItems(items, k, t, pos, caps) ==
  IF k > Len(items) THEN Matched(pos, caps)
  ELSE IF items[k].kind = "REPEAT" THEN MatchRepeat(items[k], items, k + 1, t, pos, caps, 0)
  ELSE Then(MatchNode(items[k], t, pos, caps), LAMBDA m :
         MatchItems(items, k + 1, t, m.end, m.caps))

\* The child is tried from every start; the first start whose match ends
\* at pos decides.
MatchLookbehind(node, t, pos, caps) ==
  LET from == [start \in 0 .. pos |-> MatchNode(node.child, t, start, caps)]
      hits == {start \in 0 .. pos : from[start].ok /\ from[start].end = pos}
      first == CHOOSE start \in hits : \A s \in hits : start <= s
  IN IF hits = {} THEN Once(~node.positive, pos, caps)
     ELSE Once(node.positive, pos, from[first].caps)

MatchAlternation(node, t, pos, caps) ==
  LET from == [k \in DOMAIN node.items |-> MatchNode(node.items[k], t, pos, caps)]
      hits == {k \in DOMAIN node.items : from[k].ok}
  IN IF hits = {} THEN NoMatch ELSE from[CHOOSE k \in hits : \A j \in hits : k <= j]

\* Mutant: the start of a capture is read after its child has matched.
MutMatchGroup(node, t, pos, caps) ==
  Then(MatchNode(node.child, t, pos, caps), LAMBDA m :
    IF node.index = 0 THEN m
    ELSE Matched(m.end, [m.caps EXCEPT ![node.index] = <<m.end, m.end>>]))

MatchGroup(node, t, pos, caps) ==
  Then(MatchNode(node.child, t, pos, caps), LAMBDA m :
    IF node.index = 0 THEN m
    ELSE Matched(m.end, [m.caps EXCEPT ![node.index] = <<pos, m.end>>]))

MatchBackref(node, t, pos, caps) ==
  LET cap == caps[node.index]
      length == cap[2] - cap[1]
  IN IF node.index \notin DOMAIN caps THEN NoMatch
     ELSE IF cap = <<>> THEN NoMatch
     ELSE Once(/\ pos + length <= Len(t)
               /\ Slice(t, cap[1], cap[2]) = Slice(t, pos, pos + length), pos + length, caps)

MatchNode(node, t, pos, caps) ==
  LET here(Holds(_)) == Once(pos < Len(t) /\ Holds(At(t, pos)), pos + 1, caps)
      assert(holds)  == Once(holds, pos, caps)
  IN CASE node.kind = "EMPTY"        -> assert(TRUE)
       [] node.kind = "LITERAL"      -> here(LAMBDA c : c = node.literal)
       [] node.kind = "DOT"          -> here(LAMBDA c : c \notin Newlines)
       [] node.kind = "CLASS"        -> here(LAMBDA c : InClass(node, c))
       [] node.kind = "SEQUENCE"     -> MatchItems(node.items, 1, t, pos, caps)
       [] node.kind = "ALTERNATION"  -> MatchAlternation(node, t, pos, caps)
       [] node.kind = "REPEAT"       -> MatchRepeat(node, <<node>>, 2, t, pos, caps, 0)
       [] node.kind = "GROUP"        -> MatchGroup(node, t, pos, caps)
       [] node.kind = "BACKREF"      -> MatchBackref(node, t, pos, caps)
       [] node.kind = "ASSERT_START" -> assert(pos = 0)
       [] node.kind = "ASSERT_END"   -> assert(pos = Len(t))
       [] node.kind = "WORD_BOUNDARY"     -> assert(IsWordBoundary(t, pos))
       [] node.kind = "NOT_WORD_BOUNDARY" -> assert(~IsWordBoundary(t, pos))
       [] node.kind = "LOOK" /\ node.behind  -> MatchLookbehind(node, t, pos, caps)
       [] node.kind = "LOOK" /\ ~node.behind ->
            Cases(MatchNode(node.child, t, pos, caps),
                  LAMBDA m : Once(node.positive, pos, m.caps), Once(~node.positive, pos, caps))

(***************************************************************************)
(* The calls.  The programs are compiled ones.                             *)
(***************************************************************************)
NoCaptures(program) == [k \in 0 .. program.capture_count |-> <<>>]

MatchAt(program, t, pos) == MatchNode(program.root, t, pos, NoCaptures(program))

\* The first position from pos on that has a match.
RECURSIVE FindMatch(_, _, _)
FindMatch(program, t, pos) ==
  IF pos > Len(t) THEN NoMatch
  ELSE Cases(MatchAt(program, t, pos),
             LAMBDA m : [ok |-> TRUE, start |-> pos, end |-> m.end,
                         caps |-> [m.caps EXCEPT ![0] = <<pos, m.end>>]],
             FindMatch(program, t, pos + 1))

Find(program, t) == Cases(FindMatch(program, t, 0), LAMBDA m : m.start, -1)

\* Mutant: a match that starts late counts as one of the whole text.
MutMatches(program, t) == Cases(FindMatch(program, t, 0), LAMBDA m : m.end = Len(t), FALSE)

Matches(program, t) ==
  Cases(FindMatch(program, t, 0), LAMBDA m : m.start = 0 /\ m.end = Len(t), FALSE)
StartsWith(program, t) == MatchAt(program, t, 0).ok
EndsWith(program, t) ==
  \E pos \in 0 .. Len(t) : Cases(MatchAt(program, t, pos), LAMBDA m : m.end = Len(t), FALSE)

\* A reference in a replacement: $$, $&, $digits or \digits.
RECURSIVE ExpandReplacement(_, _, _, _)

\* Mutant: $& and $$ are read, references by number are copied.
MutExpandReplacement(r, i, t, m) ==
  IF i >= Len(r) THEN <<>>
  ELSE IF At(r, i) = "$" /\ Is(r, i + 1, "$") THEN <<"$">> \o ExpandReplacement(r, i + 2, t, m)
  ELSE IF At(r, i) = "$" /\ Is(r, i + 1, "&")
  THEN Slice(t, m.start, m.end) \o ExpandReplacement(r, i + 2, t, m)
  ELSE <<At(r, i)>> \o ExpandReplacement(r, i + 1, t, m)

ExpandReplacement(r, i, t, m) ==
  LET capture(k) == IF k \notin DOMAIN m.caps THEN <<>>
                    ELSE IF m.caps[k] = <<>> THEN <<>>
                    ELSE Slice(t, m.caps[k][1], m.caps[k][2])
      to == DigitsEnd(r, i + 1)
      next(text, at) == text \o ExpandReplacement(r, at, t, m)
  IN IF i >= Len(r) THEN <<>>
     ELSE IF At(r, i) = "$" /\ Is(r, i + 1, "$") THEN next(<<"$">>, i + 2)
     ELSE IF At(r, i) = "$" /\ Is(r, i + 1, "&") THEN next(capture(0), i + 2)
     ELSE IF At(r, i) \in {"$", "\\"} /\ i + 1 < Len(r) /\ to > i + 1
     THEN next(capture(Value(Slice(r, i + 1, to), 10)), to)
     ELSE next(<<At(r, i)>>, i + 1)

Replace(program, t, r) ==
  Cases(FindMatch(program, t, 0), LAMBDA m :
    Slice(t, 0, m.start) \o ExpandReplacement(r, 0, t, m) \o Slice(t, m.end, Len(t)), t)

RECURSIVE ReplaceAllFrom(_, _, _, _, _)

ReplaceAllFrom(program, t, r, search_start, emit_start) ==
  LET rest == Slice(t, emit_start, Len(t))
      next(m) == IF m.end # m.start THEN ReplaceAllFrom(program, t, r, m.end, m.end)
                 ELSE IF m.start < Len(t)
                 THEN <<At(t, m.start)>> \o ReplaceAllFrom(program, t, r, m.start + 1, m.start + 1)
                 ELSE ReplaceAllFrom(program, t, r, Len(t) + 1, m.end)
  IN IF search_start > Len(t) THEN rest
     ELSE Cases(FindMatch(program, t, search_start), LAMBDA m :
            Slice(t, emit_start, m.start) \o ExpandReplacement(r, 0, t, m) \o next(m), rest)
ReplaceAll(program, t, r) == ReplaceAllFrom(program, t, r, 0, 0)

RECURSIVE SplitFrom(_, _, _, _)

\* Mutant: the character that an empty match steps over is left out.
MutSplitFrom(program, t, search_start, emit_start) ==
  LET rest == <<Slice(t, emit_start, Len(t))>>
      next(m) == IF m.end = m.start THEN m.start + 1 ELSE m.end
  IN IF search_start > Len(t) THEN rest
     ELSE Cases(FindMatch(program, t, search_start), LAMBDA m :
            <<Slice(t, emit_start, m.start)>> \o SplitFrom(program, t, next(m), next(m)), rest)

SplitFrom(program, t, search_start, emit_start) ==
  LET rest == <<Slice(t, emit_start, Len(t))>>
      next(m) == IF m.end = m.start THEN m.start + 1 ELSE m.end
  IN IF search_start > Len(t) THEN rest
     ELSE Cases(FindMatch(program, t, search_start), LAMBDA m :
            <<Slice(t, emit_start, m.start)>> \o SplitFrom(program, t, next(m), m.end), rest)
Split(program, t) == SplitFrom(program, t, 0, 0)

\* Mutant: the brace is not escaped.
MutMetacharacters == {"\\", ".", "^", "$", "|", "?", "*", "+", "(", ")", "[", "]", "}"}

Metacharacters == {"\\", ".", "^", "$", "|", "?", "*", "+", "(", ")", "[", "]", "{", "}"}

RECURSIVE EscapeFrom(_)
EscapeFrom(t) ==
  IF t = <<>> THEN <<>>
  ELSE (IF Head(t) \in Metacharacters THEN <<"\\", Head(t)>> ELSE <<Head(t)>>)
         \o EscapeFrom(Tail(t))
Escape(text) == EscapeFrom(Unwrap(text))
=============================================================================
