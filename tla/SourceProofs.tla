--------------------------- MODULE SourceProofs ---------------------------
(***************************************************************************)
(* Proofs about module Lowering: for source text of any length and nesting *)
(* the blocks do what the source says, which StructuredFlow defines.       *)
(*                                                                         *)
(* While the body is lowered:                                              *)
(*   Nesting    the frames of the stack are its open statements;           *)
(*   Skipping   a frame without blocks is one of a statement behind a      *)
(*              terminated block;                                          *)
(*   Targeted   the loop targets are blocks of the open loops;             *)
(*   Laid       each block has a role, "the merge of the statement at 4",  *)
(*              and is Done, Open or Fresh: a finished one has the code of *)
(*              one straight piece of the body and branches where the body *)
(*              goes from there, by the roles of the blocks;               *)
(*   Flow       these four, inductive with TypeOK and ReservedOpen.        *)
(*                                                                         *)
(* When the blocks run:                                                    *)
(*   Recursion  a function may be defined by its values further on, hence  *)
(*              Settle and Landing are what their definitions say;         *)
(*   Running    each block that is reached holds a Piece of the body;      *)
(*   Shown      what a place in a block shows the observer is what is      *)
(*              Upcoming in the source from that place of the piece on;    *)
(*   Starting   the run starts where the source does.                      *)
(***************************************************************************)
EXTENDS LoweringProofs, FiniteSetTheorems, WellFoundedInduction

(* Numbers. *)

\* A set of numbers has a least one.
LEMMA Least ==
    ASSUME NEW S \in SUBSET Nat, S # {}
    PROVE  \E m \in S : \A k \in S : m <= k
<1>. DEFINE Upto(m) == 0..(m - 1)
            Sets == {Upto(m) : m \in S}
            R == StrictSubsetOrdering(Nat)
<1>1. IsWellFoundedOn(R, FiniteSubsetsOf(Nat))
  BY FS_StrictSubsetOrderingWellFounded
<1>2. Sets \subseteq FiniteSubsetsOf(Nat)
  <2>. SUFFICES ASSUME NEW m \in S PROVE Upto(m) \in FiniteSubsetsOf(Nat)
    OBVIOUS
  <2>1. IsFiniteSet(0..(m - 1))
    BY FS_Interval
  <2>. QED  BY <2>1 DEF FiniteSubsetsOf
<1>3. \E x \in Sets : \A y \in Sets : ~(<<y, x>> \in R)
  <2>. Sets # {}
    OBVIOUS
  <2>. HIDE DEF R, Sets
  <2>. QED  BY <1>1, <1>2, WFMin
<1>4. PICK m \in S : \A y \in Sets : ~(<<y, Upto(m)>> \in R)
  BY <1>3
<1>5. ASSUME NEW k \in S, k < m PROVE FALSE
  <2>1. Upto(k) \in Sets
    OBVIOUS
  <2>2. Upto(k) \subseteq Upto(m) /\ k \in Upto(m) /\ k \notin Upto(k)
    BY <1>5
  <2>3. Upto(k) \in SUBSET Nat /\ Upto(m) \in SUBSET Nat /\ Upto(k) # Upto(m)
    BY <2>2
  <2>4. <<Upto(k), Upto(m)>> \in R
    <3>. HIDE DEF Upto
    <3>. QED  BY <2>2, <2>3 DEF StrictSubsetOrdering
  <2>. QED  BY <2>1, <2>4, <1>4
<1>. QED  BY <1>5

\* One below a bound has a greatest one.
LEMMA Greatest ==
    ASSUME NEW n \in Nat, NEW S \in SUBSET (0..n), S # {}
    PROVE  \E m \in S : \A k \in S : k <= m
<1>. DEFINE T == {n - k : k \in S}
<1>1. T \in SUBSET Nat /\ T # {}
  <2>1. \A k \in S : n - k \in Nat
    OBVIOUS
  <2>. QED  BY <2>1
<1>2. PICK t \in T : \A u \in T : t <= u
  <2>. HIDE DEF T
  <2>. QED  BY <1>1, Least
<1>3. PICK m \in S : t = n - m
  OBVIOUS
<1>4. ASSUME NEW k \in S PROVE k <= m
  <2>1. t <= n - k
    BY <1>2
  <2>. QED  BY <1>3, <2>1
<1>. QED  BY <1>4

-----------------------------------------------------------------------------
(* The nesting of a body, by the depth behind each of its tokens. *)

Depth(p, j) == Source!Balance(p, 1, j)

\* The block whose opener, or else, is at k ends at j.
Closes(p, k, j) ==
  /\ j \in (k + 1)..Len(p) /\ Depth(p, j) = Depth(p, k) - 1
  /\ \A i \in k..(j - 1) : Depth(p, i) >= Depth(p, k)

\* The else of the statement at k.
Elses(p, k) ==
  {j \in (k + 1)..Len(p) : /\ p[j] = "else" /\ Depth(p, j) = Depth(p, k)
                           /\ \A i \in k..j : Depth(p, i) >= Depth(p, k)}

\* Where the body p may have what.
Sane(p) ==
  /\ \A j \in 1..Len(p) :
       /\ Depth(p, j) >= 0
       /\ p[j] = "else" => Depth(p, j) >= 1
       /\ p[j] \in {"break", "continue"} => Source!LoopsAt(p, j) # {}
       /\ p[j] = "end" => Source!OpenAt(p, j - 1) # {}
  /\ \A k \in 1..Len(p) : p[k] \in Openers => \A d, e \in Elses(p, k) : d = e

\* The frame f, at level m, is of an open statement of p, and knows of its else.
Nested(p, f, m) ==
  /\ f.at \in 1..Len(p) /\ Depth(p, f.at) = m
  /\ \A i \in f.at..Len(p) : Depth(p, i) >= m
  /\ p[f.at] = IF f.op = "else" THEN "ifelse" ELSE f.op
  /\ f.op = "else" <=> Elses(p, f.at) # {}

\* The frames st are the open statements of p, from the outermost inwards.
Nests(p, st) == Depth(p, Len(p)) = Len(st) /\ \A m \in 1..Len(st) : Nested(p, st[m], m)

\* A frame without blocks is one of a statement that a terminated block skips.
Skipping ==
  /\ \A m \in 1..Len(stack) : Live(stack[m]) \/ Terminated(term, cur)
  /\ \A l, m \in 1..Len(stack) : l < m /\ Live(stack[m]) => Live(stack[l])

-----------------------------------------------------------------------------
(* The role of a block: what it stands for in which statement. *)

Roles == {"entry", "body", "else", "merge", "cond", "inc"} \X (Nat \ {0})

InnermostLoop(p, q) == Source!Innermost(Source!LoopsAt(p, q))

\* Where the loop at k continues.
Again(p, k) == <<IF p[k] = "for" THEN "inc" ELSE "cond", k>>

\* The blocks of the frame f have their roles.
Framed(f, r) ==
  Live(f) => /\ r[f.merge] = <<"merge", f.at>>
             /\ f.op \in Loops => r[f.head] = <<"cond", f.at>>
             /\ f.op = "for" => r[f.alt] = <<"inc", f.at>>
             /\ f.op = "ifelse" => r[f.alt] = <<"else", f.at>>

\* The loop targets are those of the frames lp of loops.
TargetOf(f) == [brk |-> f.merge, cont |-> IF f.op = "for" THEN f.alt ELSE f.head]
Targeted(lp) ==
  /\ \A x \in 1..Len(targets) :
       /\ lp[x] \in 1..Len(stack) /\ Live(stack[lp[x]]) /\ stack[lp[x]].op \in Loops
       /\ targets[x] = TargetOf(stack[lp[x]])
  /\ \A x, y \in 1..Len(targets) : x < y => lp[x] < lp[y]
  /\ \A m \in 1..Len(stack) :
       Live(stack[m]) /\ stack[m].op \in Loops => \E x \in 1..Len(targets) : m = lp[x]

\* A block with role x begins with the token at s.
Begins(p, x, s) ==
  \/ x[1] = "entry" /\ s = 1
  \/ x[1] = "body"  /\ s = x[2] + 1
  \/ x[1] = "else"  /\ s - 1 \in Elses(p, x[2])
  \/ x[1] = "merge" /\ Closes(p, x[2], s - 1)

\* The token at q takes control to a block with role x.
Leads(p, q, x) ==
  \/ p[q] = "while" /\ x = <<"cond", q>>
  \/ p[q] = "else" /\ x[1] = "merge" /\ q \in Elses(p, x[2])
  \/ p[q] = "break" /\ x = <<"merge", InnermostLoop(p, q)>>
  \/ p[q] = "continue" /\ x = Again(p, InnermostLoop(p, q))
  \/ /\ p[q] = "end"
     /\ LET k == Source!Innermost(Source!OpenAt(p, q - 1))
        IN  IF p[k] \in Loops THEN x = Again(p, k) ELSE x = <<"merge", k>> /\ Closes(p, k, q)

\* The terminator t of a block that comes to q.
Ends(p, r, q, t) ==
  \/ p[q] = "return" /\ t = Ret(<<q, "ret">>)
  \/ /\ p[q] \in {"if", "ifelse"} /\ t = Cbr(<<q, "cond">>, t.t, t.f)
     /\ r[t.t] = <<"body", q>> /\ r[t.f] = <<IF p[q] = "if" THEN "merge" ELSE "else", q>>
  \/ t = Br(t.t) /\ Leads(p, q, r[t.t])

\* The statements from s up to q.
Acts(s, q) == [i \in 1..(q - s) |-> <<s + i - 1, "act">>]

\* A block with role x begins at s and runs straight to q.
Runs(p, x, s, q) ==
  /\ s \in 1..(Len(p) + 1) /\ q \in s..(Len(p) + 1)
  /\ Begins(p, x, s) /\ \A i \in s..(q - 1) : p[i] = "act"

\* What a finished block with role x has as its code c and its terminator t: a
\* straight piece of the body, the condition of a loop, or the increment of a for.
Line(p, r, x, c, t, s, q) ==
  /\ Runs(p, x, s, q) /\ q <= Len(p)
  /\ \/ c = Acts(s, q) /\ Ends(p, r, q, t)
     \/ /\ c = Append(Acts(s, q), <<q, "init">>) /\ p[q] = "for"
        /\ t = Br(t.t) /\ r[t.t] = <<"cond", q>>

Test(p, r, x, c, t, i) ==
  /\ i \in 1..Len(p) /\ p[i] \in Loops /\ x = <<"cond", i>> /\ c = <<>>
  /\ t = Cbr(<<i, "cond">>, t.t, t.f)
  /\ r[t.t] = <<"body", i>> /\ r[t.f] = <<"merge", i>>

Step(p, r, x, c, t, i) ==
  /\ i \in 1..Len(p) /\ p[i] = "for" /\ x = <<"inc", i>> /\ c = <<<<i, "inc">>>>
  /\ t = Br(t.t) /\ r[t.t] = <<"cond", i>>

Done(p, r, x, c, t) ==
  \/ \E s, q \in Nat : Line(p, r, x, c, t, s, q)
  \/ \E i \in Nat : Test(p, r, x, c, t, i) \/ Step(p, r, x, c, t, i)

\* The block that the end of the tokens is in, before and after Finish.
Unended(p, x, c) == \E s \in Nat : Runs(p, x, s, Len(p) + 1) /\ c = Acts(s, Len(p) + 1)
Open(b, r) ==
  /\ Unended(prog, r[b], code[b])
  /\ \/ phase = "lower" /\ b = cur /\ term[b] = None
     \/ phase = "run" /\ term[b] = Ret(<<0, "exit">>)

\* A block that is not yet lowered into.
Held(st, b) == \E m \in 1..Len(st) : b \in Reserved(st[m])
Fresh(b) == code[b] = <<>> /\ term[b] = None /\ Held(stack, b)

Laid(r) ==
  /\ r \in [Blocks -> Roles] /\ r[1] = <<"entry", 1>>
  /\ \A m \in 1..Len(stack) : Framed(stack[m], r)
  /\ \A b \in Blocks : Done(prog, r, r[b], code[b], term[b]) \/ Open(b, r) \/ Fresh(b)

-----------------------------------------------------------------------------
(* Depths. *)

LEMMA SameWords == Source!Loops = Loops /\ Source!Openers = Openers /\ Source!Ops = Ops
BY DEF Source!Loops, Source!Openers, Source!Ops, Source!Simple, Loops, Openers, Ops, Simple

\* The abstract module counts with an instance of its own.
LEMMA SameSize ==
    ASSUME NEW S
    PROVE  Source!Cardinality(S) = Cardinality(S)
BY DEF Source!Cardinality, Cardinality

\* How many of the tokens i..j are in S.
Count(p, S, i, j) == Cardinality({k \in i..j : p[k] \in S})

LEMMA CountNext ==
    ASSUME NEW p, NEW S, NEW i \in Nat, NEW j \in Nat, i <= j + 1
    PROVE  /\ Count(p, S, i, j) \in Nat
           /\ Count(p, S, i, j + 1) = Count(p, S, i, j) + (IF p[j + 1] \in S THEN 1 ELSE 0)
<1>. DEFINE A == {k \in i..j : p[k] \in S}
            B == {k \in i..(j + 1) : p[k] \in S}
<1>1. IsFiniteSet(A)
  <2>1. IsFiniteSet(i..j)
    BY FS_Interval
  <2>. QED  BY <2>1, FS_Subset
<1>2. j + 1 \notin A
  OBVIOUS
<1>3. B = IF p[j + 1] \in S THEN A \cup {j + 1} ELSE A
  OBVIOUS
<1>4. Count(p, S, i, j) = Cardinality(A) /\ Count(p, S, i, j + 1) = Cardinality(B)
  BY DEF Count
<1>. HIDE DEF A, B
<1>5. Cardinality(A) \in Nat
  BY <1>1, FS_CardinalityType
<1>6. Cardinality(A \cup {j + 1}) = Cardinality(A) + 1
  BY <1>1, <1>2, FS_AddElement
<1>. QED  BY <1>3, <1>4, <1>5, <1>6

LEMMA CountEmpty ==
    ASSUME NEW p, NEW S, NEW i \in Nat
    PROVE  Count(p, S, i, i - 1) = 0
<1>1. {k \in i..(i - 1) : p[k] \in S} = {}
  OBVIOUS
<1>. QED  BY <1>1, FS_EmptySet DEF Count

LEMMA BalanceCounts ==
    ASSUME NEW p, NEW i, NEW j
    PROVE  Source!Balance(p, i, j) = Count(p, Openers, i, j) - Count(p, {"end"}, i, j)
<1>1. {k \in i..j : p[k] = "end"} = {k \in i..j : p[k] \in {"end"}}
  OBVIOUS
<1>2. Source!Openers = Openers
  BY SameWords
<1>. DEFINE A == {k \in i..j : p[k] \in Openers}
            E == {k \in i..j : p[k] = "end"}
<1>3. Source!Balance(p, i, j) = Cardinality(A) - Cardinality(E)
  <2>1. Source!Balance(p, i, j) = Source!Cardinality(A) - Source!Cardinality(E)
    BY DEF Source!Balance, Source!Openers, Openers, Source!Loops, Loops
  <2>. QED  BY <2>1, SameSize
<1>4. Count(p, Openers, i, j) = Cardinality(A)
  BY DEF Count
<1>5. Count(p, {"end"}, i, j) = Cardinality(E)
  BY <1>1, Zenon DEF Count
<1>. HIDE DEF A, E
<1>. QED  BY <1>3, <1>4, <1>5

\* What a token adds to the depth.
Deepens(op) == IF op \in Openers THEN 1 ELSE IF op = "end" THEN -1 ELSE 0

LEMMA BalanceNext ==
    ASSUME NEW p, NEW i \in Nat, NEW j \in Nat, i <= j + 1
    PROVE  /\ Source!Balance(p, i, j) \in Int
           /\ Source!Balance(p, i, j + 1) = Source!Balance(p, i, j) + Deepens(p[j + 1])
<1>1. "end" \notin Openers
  BY DEF Openers, Loops
<1>. DEFINE E == {"end"}
<1>2. p[j + 1] \in E <=> p[j + 1] = "end"
  OBVIOUS
<1>3. \A k : Source!Balance(p, i, k) = Count(p, Openers, i, k) - Count(p, E, i, k)
  BY BalanceCounts
<1>. HIDE DEF E
<1>. QED  BY <1>1, <1>2, <1>3, CountNext DEF Deepens

LEMMA BalanceEmpty ==
    ASSUME NEW p, NEW i \in Nat
    PROVE  Source!Balance(p, i, i - 1) = 0
<1>. DEFINE E == {"end"}
<1>1. Source!Balance(p, i, i - 1) = Count(p, Openers, i, i - 1) - Count(p, E, i, i - 1)
  BY BalanceCounts
<1>. HIDE DEF E
<1>. QED  BY <1>1, CountEmpty

LEMMA DepthNext ==
    ASSUME NEW p
    PROVE  /\ Depth(p, 0) = 0
           /\ \A j \in Nat : /\ Depth(p, j) \in Int
                             /\ Depth(p, j + 1) = Depth(p, j) + Deepens(p[j + 1])
<1>1. Depth(p, 0) = 0
  BY BalanceEmpty DEF Depth
<1>2. \A j \in Nat : /\ Depth(p, j) \in Int
                     /\ Depth(p, j + 1) = Depth(p, j) + Deepens(p[j + 1])
  BY BalanceNext DEF Depth
<1>. QED  BY <1>1, <1>2

\* The balance of a piece is the difference of the depths around it.
LEMMA BalanceIs ==
    ASSUME NEW p, NEW i \in Nat \ {0}, NEW j \in Nat, i <= j + 1
    PROVE  Source!Balance(p, i, j) = Depth(p, j) - Depth(p, i - 1)
<1>. DEFINE Bad == {k \in Nat : k + 1 >= i /\ Source!Balance(p, i, k) # Depth(p, k) - Depth(p, i - 1)}
<1>1. SUFFICES ASSUME Bad # {} PROVE FALSE
  OBVIOUS
<1>2. PICK k \in Bad : \A l \in Bad : k <= l
  <2>1. Bad \in SUBSET Nat
    OBVIOUS
  <2>. HIDE DEF Bad
  <2>. QED  BY <1>1, <2>1, Least
<1>3. k \in Nat /\ k + 1 >= i /\ Source!Balance(p, i, k) # Depth(p, k) - Depth(p, i - 1)
  OBVIOUS
<1>. HIDE DEF Bad
<1>4. i - 1 \in Nat /\ Depth(p, i - 1) \in Int
  <2>1. i - 1 \in Nat
    OBVIOUS
  <2>. QED  BY <2>1, DepthNext
<1>5. CASE k = i - 1
  BY <1>3, <1>4, <1>5, BalanceEmpty
<1>6. CASE k # i - 1
  <2>1. k - 1 \in Nat /\ k - 1 + 1 = k /\ i <= k - 1 + 1 /\ ~(k <= k - 1)
    BY <1>3, <1>6
  <2>2. k - 1 \notin Bad
    BY <1>2, <2>1
  <2>3. Source!Balance(p, i, k - 1) = Depth(p, k - 1) - Depth(p, i - 1)
    BY <2>1, <2>2 DEF Bad
  <2>4. Source!Balance(p, i, k) = Source!Balance(p, i, k - 1) + Deepens(p[k])
    BY <2>1, BalanceNext
  <2>5. Depth(p, k) = Depth(p, k - 1) + Deepens(p[k]) /\ Depth(p, k - 1) \in Int
    BY <2>1, DepthNext
  <2>6. Deepens(p[k]) \in Int
    BY DEF Deepens
  <2>. QED  BY <1>3, <1>4, <2>3, <2>4, <2>5, <2>6
<1>. QED  BY <1>5, <1>6

\* The balance behind a token.
LEMMA BalanceBehind ==
    ASSUME NEW p, NEW k \in Nat, NEW j \in Nat, k <= j
    PROVE  Source!Balance(p, k + 1, j) = Depth(p, j) - Depth(p, k)
<1>. DEFINE i == k + 1
<1>1. i \in Nat \ {0} /\ i <= j + 1 /\ i - 1 = k
  OBVIOUS
<1>. HIDE DEF i
<1>2. Source!Balance(p, i, j) = Depth(p, j) - Depth(p, i - 1)
  BY <1>1, BalanceIs
<1>. QED  BY <1>1, <1>2 DEF i

\* The depth is a matter of the tokens so far.
LEMMA DepthSame ==
    ASSUME NEW p, NEW q, NEW j \in Nat, \A k \in 1..j : p[k] = q[k]
    PROVE  \A i \in 0..j : Depth(p, i) = Depth(q, i)
<1>1. TAKE i \in 0..j
<1>2. /\ {k \in 1..i : p[k] \in Source!Openers} = {k \in 1..i : q[k] \in Source!Openers}
      /\ {k \in 1..i : p[k] = "end"} = {k \in 1..i : q[k] = "end"}
  OBVIOUS
<1>. QED  BY <1>2 DEF Depth, Source!Balance

\* Behind an opener the depth is more than before it.
LEMMA OpenerDepth ==
    ASSUME NEW p, NEW k \in Nat \ {0}, p[k] \in Openers
    PROVE  Depth(p, k - 1) = Depth(p, k) - 1 /\ Depth(p, k) \in Int
<1>1. k - 1 \in Nat /\ k - 1 + 1 = k /\ k \in Nat
  OBVIOUS
<1>. QED  BY <1>1, DepthNext DEF Deepens

\* The open statements are those whose depth has not been left.
LEMMA OpenIs ==
    ASSUME NEW p, NEW i \in Nat
    PROVE  Source!OpenAt(p, i) =
             {k \in 1..i : p[k] \in Openers /\ \A j \in k..i : Depth(p, j) >= Depth(p, k)}
<1>1. ASSUME NEW k \in 1..i, p[k] \in Openers
      PROVE  \A j \in k..i : Source!Balance(p, k, j) > 0 <=> Depth(p, j) >= Depth(p, k)
  <2>1. TAKE j \in k..i
  <2>2. k \in Nat \ {0} /\ j \in Nat /\ k <= j + 1
    OBVIOUS
  <2>3. Source!Balance(p, k, j) = Depth(p, j) - Depth(p, k - 1)
    BY <2>2, BalanceIs
  <2>4. Depth(p, k - 1) = Depth(p, k) - 1 /\ Depth(p, k) \in Int
    BY <1>1, <2>2, OpenerDepth
  <2>5. Depth(p, j) \in Int
    BY <2>2, DepthNext
  <2>. QED  BY <2>3, <2>4, <2>5
<1>. QED  BY <1>1, SameWords DEF Source!OpenAt

\* Closing finds the end of a block.
LEMMA ClosingIs ==
    ASSUME NEW p, Len(p) \in Nat, NEW k \in Nat \ {0}, NEW j, Closes(p, k, j)
    PROVE  Source!Closing(p, k) = j /\ \A i : Closes(p, k, i) => i = j
<1>. DEFINE Is(i) == /\ Source!Balance(p, k + 1, i) = -1
                     /\ \A l \in (k + 1)..(i - 1) : Source!Balance(p, k + 1, l) > -1
<1>1. \A i \in (k + 1)..Len(p) : Source!Balance(p, k + 1, i) = Depth(p, i) - Depth(p, k)
  <2>1. TAKE i \in (k + 1)..Len(p)
  <2>2. k + 1 \in Nat \ {0} /\ i \in Nat /\ k + 1 <= i + 1 /\ k + 1 - 1 = k
    OBVIOUS
  <2>. QED  BY <2>2, BalanceIs
<1>2. \A i \in Nat : Depth(p, i) \in Int
  BY DepthNext
<1>3. \A i \in (k + 1)..Len(p) : Is(i) <=> Closes(p, k, i)
  <2>1. TAKE i \in (k + 1)..Len(p)
  <2>0. Depth(p, i) \in Int /\ Depth(p, k) \in Int
    BY <1>2
  <2>2. \A l \in (k + 1)..(i - 1) : l \in (k + 1)..Len(p)
    OBVIOUS
  <2>3. \A l \in k..(i - 1) : l \in Nat /\ (l = k \/ l \in (k + 1)..(i - 1))
    OBVIOUS
  <2>4. \A l \in (k + 1)..(i - 1) : l \in k..(i - 1) /\ l \in Nat
    OBVIOUS
  <2>5. Source!Balance(p, k + 1, i) = -1 <=> Depth(p, i) = Depth(p, k) - 1
    BY <1>1, <2>0
  <2>6. ASSUME NEW l \in (k + 1)..(i - 1)
        PROVE  Source!Balance(p, k + 1, l) > -1 <=> Depth(p, l) >= Depth(p, k)
    <3>1. Depth(p, l) \in Int /\ Source!Balance(p, k + 1, l) = Depth(p, l) - Depth(p, k)
      BY <1>1, <1>2, <2>2, <2>4
    <3>. QED  BY <2>0, <3>1
  <2>7. (\A l \in k..(i - 1) : Depth(p, l) >= Depth(p, k)) <=>
        \A l \in (k + 1)..(i - 1) : Depth(p, l) >= Depth(p, k)
    BY <2>0, <2>3, <2>4
  <2>. QED  BY <2>5, <2>6, <2>7 DEF Closes
<1>4. \A i : Closes(p, k, i) => i \in (k + 1)..Len(p)
  BY DEF Closes
<1>5. \A i : Closes(p, k, i) => i = j
  <2>1. TAKE i
  <2>2. HAVE Closes(p, k, i)
  <2>3. i \in Nat /\ j \in Nat /\ i > k /\ j > k
    BY <2>2, <1>4
  <2>4. CASE i < j
    <3>1. i \in k..(j - 1)
      BY <2>3, <2>4
    <3>. QED  BY <1>2, <2>2, <2>3, <3>1 DEF Closes
  <2>5. CASE j < i
    <3>1. j \in k..(i - 1)
      BY <2>3, <2>5
    <3>. QED  BY <1>2, <2>2, <2>3, <3>1 DEF Closes
  <2>. QED  BY <2>3, <2>4, <2>5
<1>6. Source!Closing(p, k) = CHOOSE i \in (k + 1)..Len(p) : Is(i)
  BY DEF Source!Closing
<1>7. j \in (k + 1)..Len(p) /\ Is(j)
  BY <1>3, <1>4
<1>8. \A i \in (k + 1)..Len(p) : Is(i) => i = j
  BY <1>3, <1>5
<1>. HIDE DEF Is
<1>. QED  BY <1>5, <1>6, <1>7, <1>8

\* A depth that is left is left by an end.
LEMMA ClosingExists ==
    ASSUME NEW p, Len(p) \in Nat, NEW k \in 1..Len(p), Depth(p, Len(p)) < Depth(p, k)
    PROVE  \E j \in (k + 1)..Len(p) : Closes(p, k, j)
<1>. DEFINE S == {j \in (k + 1)..Len(p) : Depth(p, j) < Depth(p, k)}
<1>1. \A i \in Nat : Depth(p, i) \in Int /\ Depth(p, i + 1) = Depth(p, i) + Deepens(p[i + 1])
  BY DepthNext
<1>2. Len(p) \in S /\ S \in SUBSET Nat
  <2>1. Len(p) # k
    BY <1>1
  <2>. QED  BY <2>1
<1>3. PICK j \in S : \A i \in S : j <= i
  <2>. HIDE DEF S
  <2>. QED  BY <1>2, Least
<1>4. \A i \in k..(j - 1) : Depth(p, i) >= Depth(p, k)
  <2>1. TAKE i \in k..(j - 1)
  <2>2. i = k \/ i \in (k + 1)..Len(p)
    OBVIOUS
  <2>3. i \notin S
    <3>1. ~(j <= i)
      OBVIOUS
    <3>. HIDE DEF S
    <3>. QED  BY <1>3, <3>1
  <2>4. Depth(p, i) \in Int /\ Depth(p, k) \in Int
    BY <1>1, <2>2
  <2>. QED  BY <2>2, <2>3, <2>4
<1>5. j - 1 \in k..(j - 1) /\ j - 1 \in Nat /\ j - 1 + 1 = j
  OBVIOUS
<1>6. Depth(p, j - 1) >= Depth(p, k) /\ Depth(p, j) = Depth(p, j - 1) + Deepens(p[j])
  BY <1>1, <1>4, <1>5
<1>7. Deepens(p[j]) \in {-1, 0, 1}
  BY DEF Deepens
<1>8. Depth(p, j) = Depth(p, k) - 1
  <2>1. Depth(p, j) < Depth(p, k)
    OBVIOUS
  <2>2. Depth(p, j - 1) \in Int /\ Depth(p, k) \in Int
    BY <1>1, <1>5
  <2>. QED  BY <1>6, <1>7, <2>1, <2>2
<1>. QED  BY <1>4, <1>8 DEF Closes

\* The else of a statement that is complete.
LEMMA ElseIs ==
    ASSUME NEW p, Len(p) \in Nat, NEW k \in Nat \ {0}, NEW c, Closes(p, k, c),
           NEW e \in Elses(p, k), \A d \in Elses(p, k) : d = e
    PROVE  Source!ElseOf(p, k) = e
<1>. DEFINE Is(j) == p[j] = "else" /\ Source!Balance(p, k + 1, j) = 0
<1>1. Source!Closing(p, k) = c /\ c \in (k + 1)..Len(p)
  BY ClosingIs DEF Closes
<1>2. \A i \in Nat : Depth(p, i) \in Int
  BY DepthNext
<1>3. \A j \in (k + 1)..c : Source!Balance(p, k + 1, j) = Depth(p, j) - Depth(p, k)
  BY <1>1, BalanceBehind
<1>4. ASSUME NEW j \in (k + 1)..c, Is(j) PROVE j = e
  <2>1. Depth(p, j) = Depth(p, k)
    BY <1>1, <1>2, <1>3, <1>4
  <2>2. j # c
    BY <1>1, <1>2, <2>1 DEF Closes
  <2>3. \A i \in k..j : i \in k..(c - 1)
    BY <1>1, <2>2
  <2>4. j \in (k + 1)..Len(p)
    BY <1>1
  <2>. QED  BY <1>4, <2>1, <2>3, <2>4 DEF Closes, Elses
<1>5. e \in (k + 1)..c /\ Is(e)
  <2>1. e \in (k + 1)..Len(p) /\ p[e] = "else" /\ Depth(p, e) = Depth(p, k)
    BY DEF Elses
  <2>2. ~(c < e)
    <3>1. SUFFICES ASSUME c < e PROVE FALSE
      OBVIOUS
    <3>2. c \in k..e
      BY <1>1, <2>1, <3>1
    <3>. QED  BY <1>1, <1>2, <3>2 DEF Elses, Closes
  <2>3. e \in (k + 1)..c
    BY <1>1, <2>1, <2>2
  <2>4. Depth(p, k) \in Int
    BY <1>2
  <2>. QED  BY <1>3, <2>1, <2>3, <2>4
<1>6. Source!ElseOf(p, k) = CHOOSE j \in (k + 1)..c : Is(j)
  BY <1>1 DEF Source!ElseOf
<1>. HIDE DEF Is
<1>. QED  BY <1>4, <1>5, <1>6

LEMMA HasElseIs ==
    ASSUME NEW p, Len(p) \in Nat, NEW k \in Nat \ {0}
    PROVE  Source!HasElse(p, k) <=> Elses(p, k) # {}
<1>1. \A i \in Nat : Depth(p, i) \in Int
  BY DepthNext
<1>2. \A j \in (k + 1)..Len(p) : Source!Balance(p, k + 1, j) = Depth(p, j) - Depth(p, k)
  BY BalanceBehind
<1>3. ASSUME NEW j \in (k + 1)..Len(p)
      PROVE  j \in Elses(p, k) <=>
               /\ p[j] = "else"
               /\ \A i \in (k + 1)..j : Source!Balance(p, k + 1, i) >= 0
               /\ Source!Balance(p, k + 1, j) = 0
  <2>1. Depth(p, j) \in Int /\ Depth(p, k) \in Int
    BY <1>1
  <2>2. Source!Balance(p, k + 1, j) = 0 <=> Depth(p, j) = Depth(p, k)
    BY <1>2, <2>1
  <2>3. ASSUME NEW i \in (k + 1)..j
        PROVE  Source!Balance(p, k + 1, i) >= 0 <=> Depth(p, i) >= Depth(p, k)
    <3>1. i \in (k + 1)..Len(p) /\ i \in Nat
      OBVIOUS
    <3>2. Depth(p, i) \in Int /\ Source!Balance(p, k + 1, i) = Depth(p, i) - Depth(p, k)
      BY <1>1, <1>2, <3>1
    <3>. QED  BY <2>1, <3>2
  <2>4. (\A i \in k..j : Depth(p, i) >= Depth(p, k)) <=>
        \A i \in (k + 1)..j : Depth(p, i) >= Depth(p, k)
    <3>1. \A i \in k..j : i = k \/ i \in (k + 1)..j
      OBVIOUS
    <3>2. \A i \in (k + 1)..j : i \in k..j
      OBVIOUS
    <3>. QED  BY <2>1, <3>1, <3>2
  <2>. QED  BY <2>2, <2>3, <2>4 DEF Elses
<1>4. \A j \in Elses(p, k) : j \in (k + 1)..Len(p)
  BY DEF Elses
<1>. QED  BY <1>3, <1>4 DEF Source!HasElse

\* The innermost of some places is the last.
LEMMA InnermostIs ==
    ASSUME NEW S \in SUBSET Nat, NEW m \in S, \A k \in S : k <= m
    PROVE  Source!Innermost(S) = m
<1>1. \A k \in S : (\A j \in S : j <= k) => k = m
  OBVIOUS
<1>. QED  BY <1>1 DEF Source!Innermost

-----------------------------------------------------------------------------
(* One more token. *)

Grown(p, op, q) == p \in Seq(Ops) /\ op \in Ops /\ q = Append(p, op)

\* What is known of the tokens so far stays.
LEMMA Appended ==
    ASSUME NEW p, NEW op, NEW q, Grown(p, op, q)
    PROVE  /\ Len(p) \in Nat /\ q \in Seq(Ops) /\ Len(q) = Len(p) + 1 /\ q[Len(p) + 1] = op
           /\ \A j \in 1..Len(p) : q[j] = p[j]
           /\ \A j \in 0..Len(p) : Depth(q, j) = Depth(p, j)
           /\ Depth(q, Len(p) + 1) = Depth(p, Len(p)) + Deepens(op)
<1>1. Len(p) \in Nat /\ q \in Seq(Ops) /\ Len(q) = Len(p) + 1 /\ q[Len(p) + 1] = op
      /\ \A j \in 1..Len(p) : q[j] = p[j]
  BY DEF Grown
<1>2. \A j \in 0..Len(p) : Depth(q, j) = Depth(p, j)
  BY <1>1, DepthSame
<1>3. Depth(q, Len(p) + 1) = Depth(q, Len(p)) + Deepens(q[Len(p) + 1])
  BY <1>1, DepthNext
<1>. QED  BY <1>1, <1>2, <1>3

LEMMA ClosesStays ==
    ASSUME NEW p, NEW op, NEW q, Grown(p, op, q),
           NEW k \in Nat \ {0}, NEW j, Closes(p, k, j)
    PROVE  Closes(q, k, j)
<1>1. j \in (k + 1)..Len(p) /\ Len(p) \in Nat
  BY DEF Closes
<1>2. Len(q) = Len(p) + 1 /\ \A i \in 0..Len(p) : Depth(q, i) = Depth(p, i)
  BY Appended
<1>3. k \in 0..Len(p) /\ j \in 0..Len(p) /\ \A i \in k..(j - 1) : i \in 0..Len(p)
  BY <1>1
<1>. QED  BY <1>1, <1>2, <1>3 DEF Closes

LEMMA ElsesStay ==
    ASSUME NEW p, NEW op, NEW q, Grown(p, op, q), NEW k \in Nat \ {0}
    PROVE  /\ \A e \in Elses(p, k) : e \in Elses(q, k)
           /\ \A e \in Elses(q, k) :
                \/ e \in Elses(p, k)
                \/ /\ e = Len(p) + 1 /\ op = "else" /\ k \in 1..Len(p)
                   /\ Depth(q, Len(p) + 1) = Depth(p, k)
                   /\ \A i \in k..Len(p) : Depth(p, i) >= Depth(p, k)
<1>1. /\ Len(p) \in Nat /\ Len(q) = Len(p) + 1 /\ q[Len(p) + 1] = op
      /\ \A i \in 0..Len(p) : Depth(q, i) = Depth(p, i)
      /\ \A j \in 1..Len(p) : q[j] = p[j]
  BY Appended
<1>2. ASSUME NEW e \in Elses(p, k) PROVE e \in Elses(q, k)
  <2>1. e \in (k + 1)..Len(p)
    BY DEF Elses
  <2>2. k \in 0..Len(p) /\ e \in 0..Len(p) /\ e \in 1..Len(p) /\ \A i \in k..e : i \in 0..Len(p)
    BY <1>1, <2>1
  <2>. QED  BY <1>1, <2>1, <2>2 DEF Elses
<1>3. ASSUME NEW e \in Elses(q, k), e # Len(p) + 1 PROVE e \in Elses(p, k)
  <2>1. e \in (k + 1)..Len(p)
    BY <1>1, <1>3 DEF Elses
  <2>2. k \in 0..Len(p) /\ e \in 0..Len(p) /\ e \in 1..Len(p) /\ \A i \in k..e : i \in 0..Len(p)
    BY <1>1, <2>1
  <2>. QED  BY <1>1, <2>1, <2>2 DEF Elses
<1>4. ASSUME NEW e \in Elses(q, k), e = Len(p) + 1
      PROVE  /\ op = "else" /\ k \in 1..Len(p) /\ Depth(q, Len(p) + 1) = Depth(p, k)
             /\ \A i \in k..Len(p) : Depth(p, i) >= Depth(p, k)
  <2>1. e \in (k + 1)..Len(q) /\ q[e] = "else" /\ Depth(q, e) = Depth(q, k)
        /\ \A i \in k..e : Depth(q, i) >= Depth(q, k)
    BY DEF Elses
  <2>2. k \in 1..Len(p) /\ k \in 0..Len(p)
    BY <1>1, <1>4, <2>1
  <2>3. \A i \in k..Len(p) : i \in 0..Len(p) /\ i \in k..e
    BY <1>1, <1>4, <2>2
  <2>. QED  BY <1>1, <1>4, <2>1, <2>2, <2>3
<1>. QED  BY <1>2, <1>3, <1>4

LEMMA OpenStays ==
    ASSUME NEW p, NEW op, NEW q, Grown(p, op, q), NEW i \in 0..Len(p)
    PROVE  Source!OpenAt(q, i) = Source!OpenAt(p, i) /\ Source!LoopsAt(q, i) = Source!LoopsAt(p, i)
<1>1. /\ Len(p) \in Nat /\ \A j \in 0..Len(p) : Depth(q, j) = Depth(p, j)
      /\ \A j \in 1..Len(p) : q[j] = p[j]
  BY Appended
<1>2. \A k \in 1..i : k \in 1..Len(p) /\ k \in 0..Len(p) /\ \A j \in k..i : j \in 0..Len(p)
  BY <1>1
<1>3. Source!OpenAt(q, i) = Source!OpenAt(p, i)
  <2>1. i \in Nat
    BY <1>1
  <2>2. \A k \in 1..i : (q[k] \in Openers /\ \A j \in k..i : Depth(q, j) >= Depth(q, k)) <=>
                        (p[k] \in Openers /\ \A j \in k..i : Depth(p, j) >= Depth(p, k))
    BY <1>1, <1>2
  <2>. DEFINE A == {k \in 1..i : q[k] \in Openers /\ \A j \in k..i : Depth(q, j) >= Depth(q, k)}
              B == {k \in 1..i : p[k] \in Openers /\ \A j \in k..i : Depth(p, j) >= Depth(p, k)}
  <2>3. A = B
    BY <2>2
  <2>4. Source!OpenAt(q, i) = A
    BY <2>1, OpenIs
  <2>5. Source!OpenAt(p, i) = B
    BY <2>1, OpenIs
  <2>. HIDE DEF A, B
  <2>. QED  BY <2>3, <2>4, <2>5
<1>4. \A k \in Source!OpenAt(p, i) : q[k] = p[k]
  <2>1. i \in Nat
    BY <1>1
  <2>. QED  BY <1>1, <1>2, <2>1, OpenIs
<1>. QED  BY <1>3, <1>4 DEF Source!LoopsAt

-----------------------------------------------------------------------------
(* The stack holds the open statements. *)

Stacked(st) == Len(st) \in Nat /\ \A m \in 1..Len(st) : st[m].op \in Openers \cup {"else"}

\* The frames of a stack are open statements, the outermost first.
LEMMA NestsAre ==
    ASSUME NEW p, Len(p) \in Nat, NEW st, Stacked(st), Nests(p, st)
    PROVE  /\ \A m \in 1..Len(st) :
                /\ st[m].at \in 1..Len(p) /\ st[m].at \in Source!OpenAt(p, Len(p))
                /\ Depth(p, st[m].at) = m
                /\ \A i \in st[m].at..Len(p) : Depth(p, i) >= m
                /\ p[st[m].at] = IF st[m].op = "else" THEN "ifelse" ELSE st[m].op
                /\ p[st[m].at] \in Openers
           /\ \A l, m \in 1..Len(st) : l < m => st[l].at < st[m].at
<1>1. ASSUME NEW m \in 1..Len(st)
      PROVE  /\ st[m].at \in 1..Len(p) /\ st[m].at \in Source!OpenAt(p, Len(p))
             /\ Depth(p, st[m].at) = m
             /\ \A i \in st[m].at..Len(p) : Depth(p, i) >= m
             /\ p[st[m].at] = IF st[m].op = "else" THEN "ifelse" ELSE st[m].op
             /\ p[st[m].at] \in Openers
  <2>. DEFINE k == st[m].at
  <2>1. /\ k \in 1..Len(p) /\ Depth(p, k) = m /\ \A i \in k..Len(p) : Depth(p, i) >= m
        /\ p[k] = IF st[m].op = "else" THEN "ifelse" ELSE st[m].op
    BY DEF Nests, Nested
  <2>2. p[k] \in Openers
    BY <2>1 DEF Stacked, Openers
  <2>. HIDE DEF k
  <2>3. k \in Source!OpenAt(p, Len(p))
    BY <2>1, <2>2, OpenIs
  <2>. QED  BY <2>1, <2>2, <2>3 DEF k
<1>2. ASSUME NEW l \in 1..Len(st), NEW m \in 1..Len(st), l < m PROVE st[l].at < st[m].at
  <2>1. st[l].at \in 1..Len(p) /\ st[m].at \in 1..Len(p) /\ Depth(p, st[l].at) = l
        /\ \A i \in st[m].at..Len(p) : Depth(p, i) >= m
    BY <1>1
  <2>2. l \in Nat /\ m \in Nat
    BY DEF Stacked
  <2>. QED  BY <1>2, <2>1, <2>2
<1>. QED  BY <1>1, <1>2

\* And there are no others.
LEMMA NestsAll ==
    ASSUME NEW p, Len(p) \in Nat, NEW st, Stacked(st), Nests(p, st), Sane(p),
           NEW k \in Source!OpenAt(p, Len(p))
    PROVE  Depth(p, k) \in 1..Len(st) /\ st[Depth(p, k)].at = k
<1>1. k \in 1..Len(p) /\ p[k] \in Openers /\ \A j \in k..Len(p) : Depth(p, j) >= Depth(p, k)
  BY OpenIs
<1>. DEFINE m == Depth(p, k)
<1>2. Depth(p, k - 1) = m - 1 /\ m \in Int
  BY <1>1, OpenerDepth
<1>3. Depth(p, k - 1) >= 0
  <2>1. k - 1 = 0 \/ k - 1 \in 1..Len(p)
    BY <1>1
  <2>2. Depth(p, 0) = 0
    BY DepthNext
  <2>. QED  BY <2>1, <2>2 DEF Sane
<1>4. m <= Len(st)
  <2>1. Len(p) \in k..Len(p) /\ Depth(p, Len(p)) = Len(st)
    BY <1>1 DEF Nests
  <2>. QED  BY <1>1, <2>1
<1>5. m \in 1..Len(st)
  BY <1>2, <1>3, <1>4 DEF Stacked
<1>. DEFINE a == st[m].at
<1>6. /\ a \in 1..Len(p) /\ Depth(p, a) = m /\ p[a] \in Openers
      /\ \A i \in a..Len(p) : Depth(p, i) >= m
  BY <1>5, NestsAre
<1>7. Depth(p, a - 1) = m - 1
  BY <1>6, OpenerDepth
<1>. HIDE DEF m, a
<1>8. ~(a < k)
  <2>1. SUFFICES ASSUME a < k PROVE FALSE
    OBVIOUS
  <2>2. k - 1 \in a..Len(p)
    BY <1>1, <1>6, <2>1
  <2>. QED  BY <1>2, <1>6, <2>2
<1>9. ~(k < a)
  <2>1. SUFFICES ASSUME k < a PROVE FALSE
    OBVIOUS
  <2>2. a - 1 \in k..Len(p)
    BY <1>1, <1>6, <2>1
  <2>3. Depth(p, a - 1) >= m
    BY <1>1, <2>2 DEF m
  <2>. QED  BY <1>2, <1>7, <2>3
<1>10. a = k
  BY <1>1, <1>6, <1>8, <1>9
<1>. QED  BY <1>5, <1>10 DEF m, a

LEMMA TopInnermost ==
    ASSUME NEW p, Len(p) \in Nat, NEW st, Stacked(st), Nests(p, st), Sane(p)
    PROVE  /\ Len(st) = 0 => Source!OpenAt(p, Len(p)) = {}
           /\ Len(st) # 0 => /\ Source!OpenAt(p, Len(p)) # {}
                             /\ Source!Innermost(Source!OpenAt(p, Len(p))) = st[Len(st)].at
<1>1. ASSUME NEW k \in Source!OpenAt(p, Len(p))
      PROVE  \E m \in 1..Len(st) : k = st[m].at
  BY NestsAll
<1>2. CASE Len(st) = 0
  <2>1. 1..Len(st) = {}
    BY <1>2
  <2>. QED  BY <1>1, <1>2, <2>1
<1>3. CASE Len(st) # 0
  <2>. DEFINE S == Source!OpenAt(p, Len(p))
              a == st[Len(st)].at
  <2>1. Len(st) \in 1..Len(st) /\ Len(st) \in Nat
    BY <1>3 DEF Stacked
  <2>2. a \in S
    BY <2>1, NestsAre
  <2>3. S \in SUBSET Nat
    BY OpenIs
  <2>4. ASSUME NEW k \in S PROVE k <= a
    <3>1. PICK m \in 1..Len(st) : k = st[m].at
      BY <1>1
    <3>2. m = Len(st) \/ m < Len(st)
      BY <2>1
    <3>3. m < Len(st) => k < a
      BY <2>1, <3>1, NestsAre
    <3>4. k \in Nat /\ a \in Nat
      BY <2>2, <2>3
    <3>. QED  BY <3>1, <3>2, <3>3, <3>4
  <2>. HIDE DEF S, a
  <2>5. Source!Innermost(S) = a
    BY <2>2, <2>3, <2>4, InnermostIs
  <2>. QED  BY <1>3, <2>2, <2>5 DEF S, a
<1>. QED  BY <1>2, <1>3

\* The loops among them.
LEMMA LoopIsOpen ==
    ASSUME NEW p, Len(p) \in Nat, NEW st, Stacked(st), Nests(p, st),
           NEW m \in 1..Len(st), st[m].op \in Loops
    PROVE  st[m].at \in Source!LoopsAt(p, Len(p))
<1>1. st[m].at \in Source!OpenAt(p, Len(p))
      /\ p[st[m].at] = IF st[m].op = "else" THEN "ifelse" ELSE st[m].op
  BY NestsAre
<1>2. p[st[m].at] \in Source!Loops
  BY <1>1, SameWords DEF Loops
<1>. QED  BY <1>1, <1>2 DEF Source!LoopsAt

LEMMA InnermostLoopIs ==
    ASSUME NEW p, Len(p) \in Nat, NEW st, Stacked(st), Nests(p, st), Sane(p),
           NEW m \in 1..Len(st), st[m].op \in Loops,
           \A l \in 1..Len(st) : m < l => st[l].op \notin Loops
    PROVE  InnermostLoop(p, Len(p)) = st[m].at
<1>. DEFINE S == Source!LoopsAt(p, Len(p))
            a == st[m].at
<1>1. a \in S
  BY LoopIsOpen
<1>2. S \subseteq Source!OpenAt(p, Len(p)) /\ \A k \in S : p[k] \in Loops
  BY SameWords DEF Source!LoopsAt
<1>3. S \in SUBSET Nat
  BY <1>2, OpenIs
<1>4. ASSUME NEW k \in S PROVE k <= a
  <2>1. PICK l \in 1..Len(st) : k = st[l].at
    BY <1>2, NestsAll
  <2>2. p[k] = IF st[l].op = "else" THEN "ifelse" ELSE st[l].op
    BY <2>1, NestsAre
  <2>3. st[l].op \in Loops
    BY <1>2, <2>2 DEF Loops
  <2>4. l <= m
    BY <2>3 DEF Stacked
  <2>5. l = m \/ l < m
    BY <2>4
  <2>6. l < m => k < a
    BY <2>1, NestsAre
  <2>7. k \in Nat /\ a \in Nat
    BY <1>1, <1>3
  <2>. QED  BY <2>1, <2>5, <2>6, <2>7
<1>. HIDE DEF S, a
<1>5. Source!Innermost(S) = a
  BY <1>1, <1>3, <1>4, InnermostIs
<1>. QED  BY <1>5 DEF S, a, InnermostLoop

-----------------------------------------------------------------------------
(* The nesting of a body with one more token. *)

LEMMA SaneNext ==
    ASSUME NEW p, NEW op, NEW q, Grown(p, op, q), Sane(p),
           Depth(q, Len(q)) >= 0,
           op = "else" => Depth(q, Len(q)) >= 1,
           op = "end" => Source!OpenAt(p, Len(p)) # {},
           op \in {"break", "continue"} => Source!LoopsAt(q, Len(q)) # {},
           op = "else" => \A k \in Source!OpenAt(p, Len(p)) :
                             Depth(p, k) = Depth(q, Len(q)) => Elses(p, k) = {}
    PROVE  Sane(q)
<1>. DEFINE n == Len(p)
<1>1. /\ n \in Nat /\ Len(q) = n + 1 /\ q[n + 1] = op
      /\ \A i \in 0..n : Depth(q, i) = Depth(p, i)
      /\ \A j \in 1..n : q[j] = p[j]
  BY Appended
<1>2. ASSUME NEW j \in 1..Len(q)
      PROVE  /\ Depth(q, j) >= 0
             /\ q[j] = "else" => Depth(q, j) >= 1
             /\ q[j] \in {"break", "continue"} => Source!LoopsAt(q, j) # {}
             /\ q[j] = "end" => Source!OpenAt(q, j - 1) # {}
  <2>1. CASE j \in 1..n
    <3>1. j \in 0..n /\ j - 1 \in 0..n
      BY <1>1, <2>1
    <3>2. Source!LoopsAt(q, j) = Source!LoopsAt(p, j) /\ Source!OpenAt(q, j - 1) = Source!OpenAt(p, j - 1)
      BY <3>1, OpenStays
    <3>. QED  BY <1>1, <2>1, <3>1, <3>2 DEF Sane
  <2>2. CASE j = n + 1
    <3>1. j - 1 = n /\ n \in 0..n
      BY <1>1, <2>2
    <3>2. Source!OpenAt(q, n) = Source!OpenAt(p, n)
      BY <3>1, OpenStays
    <3>. QED  BY <1>1, <2>2, <3>1, <3>2
  <2>. QED  BY <1>1, <2>1, <2>2
<1>3. ASSUME NEW k \in 1..Len(q), q[k] \in Openers, NEW d \in Elses(q, k), NEW e \in Elses(q, k)
      PROVE  d = e
  <2>0. k \in Nat \ {0}
    BY <1>1
  <2>1. CASE k \in 1..n
    <3>1. p[k] \in Openers
      BY <1>1, <1>3, <2>1
    <3>2. \A x \in Elses(q, k) :
             x \in Elses(p, k) \/ (x = n + 1 /\ op = "else" /\ Elses(p, k) = {})
      <4>1. TAKE x \in Elses(q, k)
      <4>2. SUFFICES ASSUME x \notin Elses(p, k)
                     PROVE  x = n + 1 /\ op = "else" /\ Elses(p, k) = {}
        OBVIOUS
      <4>3. /\ x = n + 1 /\ op = "else" /\ Depth(q, n + 1) = Depth(p, k)
            /\ \A i \in k..n : Depth(p, i) >= Depth(p, k)
        BY <2>0, <4>2, ElsesStay
      <4>4. k \in Source!OpenAt(p, n)
        BY <1>1, <2>1, <3>1, <4>3, OpenIs
      <4>. QED  BY <1>1, <4>3, <4>4
    <3>. QED  BY <2>1, <3>1, <3>2 DEF Sane
  <2>2. CASE k = n + 1
    BY <1>1, <2>2 DEF Elses
  <2>. QED  BY <1>1, <2>1, <2>2
<1>. QED  BY <1>2, <1>3 DEF Sane

\* Frames that stay, while the depth does not fall below theirs.
LEMMA NestsStay ==
    ASSUME NEW p, NEW op, NEW q, Grown(p, op, q), NEW st, Stacked(st), Nests(p, st),
           NEW m \in 1..Len(st), Depth(q, Len(q)) >= m,
           op = "else" => Depth(q, Len(q)) # m
    PROVE  Nested(q, st[m], m)
<1>. DEFINE n == Len(p)
            k == st[m].at
<1>1. /\ n \in Nat /\ Len(q) = n + 1 /\ q[n + 1] = op
      /\ \A i \in 0..n : Depth(q, i) = Depth(p, i)
      /\ \A j \in 1..n : q[j] = p[j]
  BY Appended
<1>2. /\ k \in 1..n /\ Depth(p, k) = m /\ \A i \in k..n : Depth(p, i) >= m
      /\ p[k] = IF st[m].op = "else" THEN "ifelse" ELSE st[m].op
      /\ st[m].op = "else" <=> Elses(p, k) # {}
  BY DEF Nests, Nested
<1>. HIDE DEF k
<1>3. k \in 0..n /\ k \in 1..Len(q) /\ k \in Nat \ {0}
  BY <1>1, <1>2
<1>4. ASSUME NEW i \in k..Len(q) PROVE Depth(q, i) >= m
  <2>1. (i \in 0..n /\ i \in k..n) \/ i = n + 1
    BY <1>1, <1>3
  <2>. QED  BY <1>1, <1>2, <2>1
<1>5. Elses(q, k) # {} <=> Elses(p, k) # {}
  BY <1>1, <1>2, <1>3, ElsesStay
<1>. QED  BY <1>1, <1>2, <1>3, <1>4, <1>5 DEF k, Nested

LEMMA NestsSimple ==
    ASSUME NEW p, NEW op, NEW q, Grown(p, op, q), op \in Simple,
           NEW st, Stacked(st), Nests(p, st), Sane(p),
           op \in {"break", "continue"} => \E m \in 1..Len(st) : st[m].op \in Loops
    PROVE  Nests(q, st) /\ Sane(q)
<1>1. Len(q) \in Nat /\ Depth(q, Len(q)) = Depth(p, Len(p)) + Deepens(op)
  BY Appended
<1>2. Deepens(op) = 0 /\ op # "else" /\ op # "end"
  BY DEF Deepens, Simple, Openers, Loops
<1>3. Depth(q, Len(q)) = Len(st) /\ Len(st) \in Nat
  BY <1>1, <1>2 DEF Nests, Stacked
<1>4. \A m \in 1..Len(st) : Depth(q, Len(q)) >= m
  BY <1>3
<1>5. Nests(q, st)
  BY <1>2, <1>3, <1>4, NestsStay DEF Nests
<1>6. op \in {"break", "continue"} => Source!LoopsAt(q, Len(q)) # {}
  BY <1>1, <1>5, LoopIsOpen
<1>7. Sane(q)
  <2>1. Depth(q, Len(q)) >= 0
    BY <1>3
  <2>. QED  BY <1>2, <1>6, <2>1, SaneNext
<1>. QED  BY <1>5, <1>7

LEMMA NestsPush ==
    ASSUME NEW p, NEW op, NEW q, Grown(p, op, q), op \in Openers,
           NEW st, Stacked(st), Nests(p, st), Sane(p),
           NEW t, Len(t) = Len(st) + 1, \A m \in 1..Len(st) : t[m] = st[m],
           t[Len(t)].op = op, t[Len(t)].at = Len(q)
    PROVE  Nests(q, t) /\ Sane(q)
<1>1. /\ Len(p) \in Nat /\ Len(q) = Len(p) + 1 /\ q[Len(q)] = op
      /\ Depth(q, Len(q)) = Depth(p, Len(p)) + Deepens(op)
  BY Appended
<1>2. Deepens(op) = 1 /\ op # "else" /\ op # "end" /\ op \notin {"break", "continue"}
  BY DEF Deepens, Openers, Loops
<1>3. Depth(q, Len(q)) = Len(t) /\ Len(t) \in Nat /\ Len(st) \in Nat
  BY <1>1, <1>2 DEF Nests, Stacked
<1>4. ASSUME NEW m \in 1..Len(t)
      PROVE  Nested(q, t[m], m)
  <2>1. CASE m \in 1..Len(st)
    <3>1. Depth(q, Len(q)) >= m
      BY <1>3
    <3>. QED  BY <1>2, <2>1, <3>1, NestsStay
  <2>2. CASE m = Len(t)
    <3>1. Elses(q, Len(q)) = {}
      BY <1>1 DEF Elses
    <3>2. Len(q) \in 1..Len(q) /\ Len(q)..Len(q) = {Len(q)} /\ m \in Nat
      BY <1>1, <1>3
    <3>. QED  BY <1>1, <1>2, <1>3, <2>2, <3>1, <3>2 DEF Nested
  <2>. QED  BY <1>3, <2>1, <2>2
<1>5. Nests(q, t)
  BY <1>3, <1>4 DEF Nests
<1>6. Sane(q)
  <2>1. Depth(q, Len(q)) >= 0
    BY <1>3
  <2>. QED  BY <1>2, <2>1, SaneNext
<1>. QED  BY <1>5, <1>6

LEMMA NestsElse ==
    ASSUME NEW p, NEW q, Grown(p, "else", q),
           NEW st, Stacked(st), Nests(p, st), Sane(p), Len(st) # 0, st[Len(st)].op = "ifelse",
           NEW t, Len(t) = Len(st), \A m \in 1..(Len(st) - 1) : t[m] = st[m],
           t[Len(st)].op = "else", t[Len(st)].at = st[Len(st)].at
    PROVE  Nests(q, t) /\ Sane(q) /\ Len(q) \in Elses(q, st[Len(st)].at)
<1>. DEFINE a == st[Len(st)].at
            n == Len(p)
<1>1. /\ n \in Nat /\ Len(q) = n + 1 /\ q[Len(q)] = "else"
      /\ \A i \in 0..n : Depth(q, i) = Depth(p, i)
      /\ \A j \in 1..n : q[j] = p[j]
      /\ Depth(q, Len(q)) = Depth(p, n) + Deepens("else")
  BY Appended
<1>2. Deepens("else") = 0
  BY DEF Deepens, Openers, Loops
<1>3. Depth(q, Len(q)) = Len(st) /\ Len(st) \in Nat /\ Len(st) \in 1..Len(st)
  BY <1>1, <1>2 DEF Nests, Stacked
<1>4. /\ a \in 1..n /\ Depth(p, a) = Len(st) /\ p[a] = "ifelse" /\ Elses(p, a) = {}
      /\ \A i \in a..n : Depth(p, i) >= Len(st)
  BY <1>3 DEF Nests, Nested
<1>. HIDE DEF a
<1>5. a \in 0..n /\ Depth(q, a) = Len(st) /\ q[a] = "ifelse" /\ a \in 1..Len(q)
  BY <1>1, <1>4
<1>6. ASSUME NEW i \in a..Len(q) PROVE Depth(q, i) >= Len(st)
  <2>1. (i \in 0..n /\ i \in a..n) \/ i = Len(q)
    BY <1>1, <1>5
  <2>. QED  BY <1>1, <1>3, <1>4, <2>1
<1>7. Len(q) \in Elses(q, a)
  <2>1. Len(q) \in (a + 1)..Len(q)
    BY <1>1, <1>4
  <2>. QED  BY <1>1, <1>3, <1>5, <1>6, <2>1 DEF Elses
<1>8. ASSUME NEW m \in 1..Len(t)
      PROVE  Nested(q, t[m], m)
  <2>1. CASE m # Len(st)
    <3>1. m \in 1..(Len(st) - 1) /\ Depth(q, Len(q)) >= m /\ Depth(q, Len(q)) # m /\ m \in 1..Len(st)
      BY <1>3, <2>1
    <3>. QED  BY <3>1, NestsStay
  <2>2. CASE m = Len(st)
    <3>1. t[m].at = a /\ t[m].op = "else"
      BY <2>2 DEF a
    <3>. QED  BY <1>5, <1>6, <1>7, <2>2, <3>1 DEF Nested
  <2>. QED  BY <2>1, <2>2
<1>9. Nests(q, t)
  BY <1>3, <1>8 DEF Nests
<1>10. Sane(q)
  <2>1. Depth(q, Len(q)) >= 0 /\ Depth(q, Len(q)) >= 1
    BY <1>3
  <2>2. ASSUME NEW k \in Source!OpenAt(p, n), Depth(p, k) = Depth(q, Len(q))
        PROVE  Elses(p, k) = {}
    <3>1. st[Depth(p, k)].at = k
      BY <1>1, NestsAll
    <3>2. k = a
      BY <1>3, <2>2, <3>1 DEF a
    <3>. QED  BY <1>4, <3>2
  <2>. QED  BY <2>1, <2>2, SaneNext
<1>. QED  BY <1>7, <1>9, <1>10 DEF a

LEMMA NestsPop ==
    ASSUME NEW p, NEW q, Grown(p, "end", q),
           NEW st, Stacked(st), Nests(p, st), Sane(p), Len(st) # 0,
           NEW t, Len(t) = Len(st) - 1, \A m \in 1..(Len(st) - 1) : t[m] = st[m]
    PROVE  /\ Nests(q, t) /\ Sane(q)
           /\ \A k \in 1..Len(p) :
                Depth(p, k) = Len(st) /\ (\A i \in k..Len(p) : Depth(p, i) >= Len(st))
                   => Closes(q, k, Len(q))
           /\ Closes(q, st[Len(st)].at, Len(q))
<1>. DEFINE a == st[Len(st)].at
            n == Len(p)
<1>1. /\ n \in Nat /\ Len(q) = n + 1 /\ q[Len(q)] = "end"
      /\ \A i \in 0..n : Depth(q, i) = Depth(p, i)
      /\ \A j \in 1..n : q[j] = p[j]
      /\ Depth(q, Len(q)) = Depth(p, n) + Deepens("end")
  BY Appended
<1>2. Deepens("end") = -1
  BY DEF Deepens, Openers, Loops
<1>3. Depth(q, Len(q)) = Len(t) /\ Len(st) \in Nat /\ Len(t) \in Nat /\ Len(st) \in 1..Len(st)
  BY <1>1, <1>2 DEF Nests, Stacked
<1>4. ASSUME NEW k \in 1..n, Depth(p, k) = Len(st), \A i \in k..n : Depth(p, i) >= Len(st)
      PROVE  Closes(q, k, Len(q))
  <2>1. k \in 0..n /\ Len(q) \in (k + 1)..Len(q)
    BY <1>1
  <2>2. \A i \in k..(Len(q) - 1) : i \in k..n /\ i \in 0..n
    BY <1>1, <2>1
  <2>. QED  BY <1>1, <1>3, <1>4, <2>1, <2>2 DEF Closes
<1>5. ASSUME NEW m \in 1..Len(t)
      PROVE  Nested(q, t[m], m)
  <2>1. m \in 1..(Len(st) - 1) /\ Depth(q, Len(q)) >= m /\ m \in 1..Len(st)
    BY <1>3
  <2>. QED  BY <2>1, NestsStay
<1>6. Nests(q, t)
  BY <1>3, <1>5 DEF Nests
<1>7. Sane(q)
  <2>1. Depth(q, Len(q)) >= 0
    BY <1>3
  <2>2. Source!OpenAt(p, n) # {}
    BY <1>1, TopInnermost
  <2>. QED  BY <2>1, <2>2, SaneNext
<1>8. a \in 1..n /\ Depth(p, a) = Len(st) /\ \A i \in a..n : Depth(p, i) >= Len(st)
  BY <1>3 DEF Nests, Nested
<1>. QED  BY <1>4, <1>6, <1>7, <1>8 DEF a

-----------------------------------------------------------------------------
(* The stack from one state to the next. *)

\* Frames 1..n stay.
Keeps(n) == \A m \in 1..n : stack'[m] = stack[m]

Pushes(op) ==
  /\ Len(stack') = Len(stack) + 1 /\ Keeps(Len(stack))
  /\ stack'[Len(stack')].op = op /\ stack'[Len(stack')].at = Here

Turns ==
  /\ Len(stack) # 0 /\ Top.op = "ifelse" /\ Len(stack') = Len(stack) /\ Keeps(Len(stack) - 1)
  /\ stack'[Len(stack)] = [Top EXCEPT !.op = "else", !.alt = 0]

Pops ==
  /\ Len(stack) # 0 /\ Top.op # "ifelse"
  /\ Len(stack') = Len(stack) - 1 /\ Keeps(Len(stack) - 1)

LEMMA StackType ==
    ASSUME TypeOK
    PROVE  /\ Stacked(stack) /\ Len(stack) \in Nat /\ stack \in Seq(Frame)
           /\ \A m \in 1..Len(stack) : stack[m] \in Frame /\ FrameOK(stack[m], nblocks)
           /\ Len(prog) \in Nat /\ Here = Len(prog) + 1
           /\ Len(targets) \in Nat
<1>1. stack \in Seq(Frame) /\ \A m \in 1..Len(stack) : FrameOK(stack[m], nblocks)
  BY DEF TypeOK, FrameStack
<1>2. Len(stack) \in Nat /\ \A m \in 1..Len(stack) : stack[m] \in Frame
  BY <1>1
<1>3. Stacked(stack)
  BY <1>2 DEF Stacked, Frame
<1>4. Len(prog) \in Nat /\ Len(targets) \in Nat
  BY DEF TypeOK, TargetStack
<1>. QED  BY <1>1, <1>2, <1>3, <1>4 DEF Here

LEMMA AdmittedGrows ==
    ASSUME TypeOK, NEW op \in Ops, Admitted(op)
    PROVE  Grown(prog, op, prog') /\ Len(prog') = Here /\ phase = "lower"
BY DEF TypeOK, Admitted, Grown, Here

LEMMA PushPushes ==
    ASSUME TypeOK, NEW op, NEW merge, NEW head, NEW alt, stack' = Push(op, merge, head, alt)
    PROVE  /\ Pushes(op)
           /\ stack'[Len(stack')].merge = merge
           /\ stack'[Len(stack')].head = head /\ stack'[Len(stack')].alt = alt
<1>. DEFINE f == [op |-> op, at |-> Here, merge |-> merge, head |-> head, alt |-> alt]
<1>1. stack' = Append(stack, f) /\ stack \in Seq(Frame)
  BY StackType DEF Push
<1>2. f.op = op /\ f.at = Here /\ f.merge = merge /\ f.head = head /\ f.alt = alt
  OBVIOUS
<1>. HIDE DEF f
<1>3. Len(stack') = Len(stack) + 1 /\ Keeps(Len(stack)) /\ stack'[Len(stack) + 1] = f
  BY <1>1 DEF Keeps
<1>. QED  BY <1>2, <1>3 DEF Pushes

LEMMA ElseTurns ==
    ASSUME TypeOK, Admitted("else"), Top.op = "ifelse",
           \/ ~Live(Top) /\ stack' = Append(Pop, [Top EXCEPT !.op = "else"])
           \/ stack' = Append(Pop, [Top EXCEPT !.op = "else", !.alt = 0])
    PROVE  Turns
<1>1. stack # <<>>
  BY DEF Admitted
<1>2. /\ Top \in Frame /\ FrameOK(Top, nblocks) /\ Len(stack) \in Nat /\ Len(stack) >= 1
      /\ Len(Pop) = Len(stack) - 1 /\ Pop \in Seq(Frame)
      /\ \A i \in 1..Len(Pop) : Pop[i] = stack[i]
  BY <1>1, TopType DEF FrameStack
<1>. DEFINE f == [Top EXCEPT !.op = "else", !.alt = 0]
<1>3. stack' = Append(Pop, f)
  <2>1. ~Live(Top) => Top.alt = 0
    BY <1>2 DEF FrameOK
  <2>2. Top.alt = 0 => f = [Top EXCEPT !.op = "else"]
    BY <1>2 DEF Frame
  <2>. QED  BY <2>1, <2>2
<1>. HIDE DEF f
<1>4. Len(stack') = Len(stack) /\ stack'[Len(stack)] = f
      /\ \A i \in 1..(Len(stack) - 1) : stack'[i] = Pop[i]
  <2>. HIDE DEF Pop
  <2>. QED  BY <1>2, <1>3
<1>. QED  BY <1>2, <1>4 DEF Turns, Keeps, f

LEMMA EndPops ==
    ASSUME TypeOK, Admitted("end"), Top.op # "ifelse", stack' = Pop
    PROVE  Pops /\ Len(stack) >= 1
<1>1. stack # <<>>
  BY DEF Admitted
<1>2. /\ Len(stack) \in Nat /\ Len(stack) >= 1
      /\ Len(Pop) = Len(stack) - 1 /\ \A i \in 1..Len(Pop) : Pop[i] = stack[i]
  BY <1>1, TopType
<1>. HIDE DEF Pop
<1>. QED  BY <1>2 DEF Pops, Keeps

\* What the actions do to the tokens and to the stack.
LEMMA Shape ==
    ASSUME TypeOK, [Next]_vars
    PROVE  \/ prog' = prog /\ stack' = stack
           \/ \E op \in Simple : Admitted(op) /\ stack' = stack
           \/ \E op \in Openers : Admitted(op) /\ Pushes(op)
           \/ Admitted("else") /\ Turns
           \/ Admitted("end") /\ Pops
<1>1. ASSUME NEW op \in Simple, SkipSimple(op) PROVE Admitted(op) /\ stack' = stack
  BY <1>1 DEF SkipSimple
<1>2. LowerAct => "act" \in Simple /\ Admitted("act") /\ stack' = stack
  BY DEF LowerAct, Simple
<1>3. LowerReturn => "return" \in Simple /\ Admitted("return") /\ stack' = stack
  BY DEF LowerReturn, Simple
<1>4. ASSUME NEW op \in {"break", "continue"}, LowerJump(op)
      PROVE  op \in Simple /\ Admitted(op) /\ stack' = stack
  BY <1>4 DEF LowerJump, Simple
<1>5. ASSUME NEW op \in Openers, SkipOpen(op) PROVE Admitted(op) /\ Pushes(op)
  BY <1>5, PushPushes DEF SkipOpen
<1>6. ASSUME NEW yield, LowerIf(yield) PROVE "if" \in Openers /\ Admitted("if") /\ Pushes("if")
  BY <1>6, PushPushes DEF LowerIf, Openers
<1>7. ASSUME NEW yield, LowerIfElse(yield)
      PROVE  "ifelse" \in Openers /\ Admitted("ifelse") /\ Pushes("ifelse")
  BY <1>7, PushPushes DEF LowerIfElse, Openers
<1>8. ASSUME NEW yield, LowerWhile(yield)
      PROVE  "while" \in Openers /\ Admitted("while") /\ Pushes("while")
  BY <1>8, PushPushes DEF LowerWhile, Openers, Loops
<1>9. ASSUME NEW yield, LowerFor(yield)
      PROVE  "for" \in Openers /\ Admitted("for") /\ Pushes("for")
  BY <1>9, PushPushes DEF LowerFor, Openers, Loops
<1>10. SkipElse \/ LowerElse => Admitted("else") /\ Turns
  BY ElseTurns DEF SkipElse, LowerElse
<1>11. SkipEnd \/ EndIf \/ EndWhile \/ EndFor => Admitted("end") /\ Pops
  <2>1. SkipEnd \/ EndIf \/ EndWhile \/ EndFor =>
          Admitted("end") /\ Top.op # "ifelse" /\ stack' = Pop
    BY DEF SkipEnd, EndIf, EndWhile, EndFor
  <2>. QED  BY <2>1, EndPops
<1>12. Finish \/ RunNext \/ UNCHANGED vars => prog' = prog /\ stack' = stack
  BY DEF Finish, RunNext, Exec, Jump, Branch, Returned, vars
<1>. HIDE DEF Pushes, Turns, Pops
<1>. QED  BY <1>1, <1>2, <1>3, <1>4, <1>5, <1>6, <1>7, <1>8, <1>9, <1>10, <1>11, <1>12
          DEF Next, LowerNext

LEMMA LoopOpen ==
    ASSUME TypeOK, NEW op \in {"break", "continue"}, Admitted(op)
    PROVE  \E m \in 1..Len(stack) : stack[m].op \in Loops
<1>. DEFINE S == {i \in DOMAIN stack : stack[i].op \in Loops}
<1>1. Cardinality(S) > 0
  BY DEF Admitted, LoopDepth
<1>2. S # {}
  BY <1>1, FS_EmptySet
<1>3. DOMAIN stack = 1..Len(stack)
  BY DEF TypeOK, FrameStack
<1>. QED  BY <1>2, <1>3

\* The stack goes with the nesting of the tokens.
Nesting == Sane(prog) /\ Nests(prog, stack)

LEMMA InitNesting == Init => Nesting
<1>. SUFFICES ASSUME Init PROVE Nesting
  OBVIOUS
<1>1. Len(prog) = 0 /\ Len(stack) = 0 /\ 1..0 = {}
  BY DEF Init
<1>2. Depth(prog, 0) = 0
  BY DepthNext
<1>. QED  BY <1>1, <1>2 DEF Nesting, Sane, Nests

LEMMA NestingKept ==
    ASSUME TypeOK, [Next]_vars, Nesting
    PROVE  Nesting'
<1>1. Stacked(stack) /\ Nests(prog, stack) /\ Sane(prog)
  BY StackType DEF Nesting
<1>2. SUFFICES Nests(prog', stack') /\ Sane(prog')
  BY DEF Nesting
<1>3. CASE prog' = prog /\ stack' = stack
  BY <1>1, <1>3
<1>4. ASSUME NEW op \in Simple, Admitted(op), stack' = stack
      PROVE  Nests(prog', stack') /\ Sane(prog')
  <2>1. Grown(prog, op, prog')
    BY <1>4, AdmittedGrows DEF Ops
  <2>2. op \in {"break", "continue"} => \E m \in 1..Len(stack) : stack[m].op \in Loops
    BY <1>4, LoopOpen
  <2>3. Nests(prog', stack) /\ Sane(prog')
    BY <1>1, <2>1, <2>2, NestsSimple
  <2>. QED  BY <1>4, <2>3
<1>5. ASSUME NEW op \in Openers, Admitted(op), Pushes(op)
      PROVE  Nests(prog', stack') /\ Sane(prog')
  <2>1. Grown(prog, op, prog') /\ Len(prog') = Here
    BY <1>5, AdmittedGrows DEF Ops
  <2>. QED  BY <1>1, <1>5, <2>1, NestsPush DEF Pushes, Keeps
<1>6. CASE Admitted("else") /\ Turns
  <2>1. Grown(prog, "else", prog')
    BY <1>6, AdmittedGrows DEF Ops
  <2>2. Top \in Frame /\ Top = stack[Len(stack)]
    BY <1>6, TopType DEF Admitted
  <2>3. /\ Len(stack) # 0 /\ stack[Len(stack)].op = "ifelse" /\ Len(stack') = Len(stack)
        /\ \A m \in 1..(Len(stack) - 1) : stack'[m] = stack[m]
        /\ stack'[Len(stack)].op = "else" /\ stack'[Len(stack)].at = stack[Len(stack)].at
    BY <1>6, <2>2 DEF Turns, Keeps, Frame
  <2>. QED  BY <1>1, <2>1, <2>3, NestsElse
<1>7. CASE Admitted("end") /\ Pops
  <2>1. Grown(prog, "end", prog')
    BY <1>7, AdmittedGrows DEF Ops
  <2>2. /\ Len(stack) # 0 /\ Len(stack') = Len(stack) - 1
        /\ \A m \in 1..(Len(stack) - 1) : stack'[m] = stack[m]
    BY <1>7 DEF Pops, Keeps
  <2>. QED  BY <1>1, <2>1, <2>2, NestsPop
<1>. QED  BY <1>3, <1>4, <1>5, <1>6, <1>7, Shape

-----------------------------------------------------------------------------
(* Frames without blocks, and the loop targets. *)

AllLive == \A m \in 1..Len(stack) : Live(stack[m])

LEMMA OpenAllLive ==
    ASSUME Skipping, ~BlockStops
    PROVE  AllLive
BY DEF Skipping, BlockStops, AllLive

LEMMA TopAllLive ==
    ASSUME TypeOK, Skipping, Len(stack) # 0, Live(Top)
    PROVE  AllLive
<1>1. Len(stack) \in Nat /\ Len(stack) \in 1..Len(stack) /\ Top = stack[Len(stack)]
  BY StackType DEF Top
<1>2. ASSUME NEW m \in 1..Len(stack) PROVE Live(stack[m])
  <2>1. m = Len(stack) \/ m < Len(stack)
    BY <1>1
  <2>. QED  BY <1>1, <2>1 DEF Skipping
<1>. QED  BY <1>2 DEF AllLive

LEMMA AllLiveSkipping == AllLive' => Skipping'
BY DEF AllLive, Skipping

LEMMA PushLive ==
    ASSUME TypeOK, AllLive, NEW op, Pushes(op), Live(stack'[Len(stack')])
    PROVE  AllLive'
<1>1. Len(stack) \in Nat
  BY StackType
<1>2. \A m \in 1..Len(stack') : m \in 1..Len(stack) \/ m = Len(stack')
  BY <1>1 DEF Pushes
<1>. QED  BY <1>2 DEF AllLive, Pushes, Keeps

LEMMA TurnLive ==
    ASSUME TypeOK, AllLive, Turns
    PROVE  AllLive'
<1>1. Len(stack) \in Nat /\ Len(stack) \in 1..Len(stack) /\ Top = stack[Len(stack)] /\ Top \in Frame
  BY StackType DEF Top, Turns
<1>2. \A m \in 1..Len(stack') : m \in 1..(Len(stack) - 1) \/ m = Len(stack)
  BY <1>1 DEF Turns
<1>3. stack'[Len(stack)].merge = Top.merge
  BY <1>1 DEF Turns, Frame
<1>4. \A m \in 1..(Len(stack) - 1) : m \in 1..Len(stack)
  BY <1>1
<1>. QED  BY <1>1, <1>2, <1>3, <1>4 DEF AllLive, Turns, Keeps, Live

LEMMA PopLive ==
    ASSUME TypeOK, AllLive, Pops
    PROVE  AllLive'
<1>1. \A m \in 1..Len(stack') : m \in 1..(Len(stack) - 1) /\ m \in 1..Len(stack)
  BY StackType DEF Pops
<1>. QED  BY <1>1 DEF AllLive, Pops, Keeps

\* While statements are skipped, nothing but the stack changes.
LEMMA SkippingSkips ==
    ASSUME TypeOK, Skipping, Terminated(term, cur), term' = term, cur' = cur,
           \/ stack' = stack
           \/ \E op : Pushes(op) /\ ~Live(stack'[Len(stack')])
           \/ Turns /\ ~Live(Top)
           \/ Pops
    PROVE  Skipping'
<1>1. Len(stack) \in Nat
  BY StackType
<1>2. Terminated(term', cur')
  BY DEF Terminated
<1>3. \A l, m \in 1..Len(stack') : l < m /\ Live(stack'[m]) => Live(stack'[l])
  <2>1. CASE stack' = stack
    BY <2>1 DEF Skipping
  <2>2. ASSUME NEW op, Pushes(op), ~Live(stack'[Len(stack')])
        PROVE  \A l, m \in 1..Len(stack') : l < m /\ Live(stack'[m]) => Live(stack'[l])
    <3>1. \A m \in 1..Len(stack') : m \in 1..Len(stack) \/ m = Len(stack')
      BY <1>1, <2>2 DEF Pushes
    <3>2. \A l, m \in 1..Len(stack') : l < m => l \in 1..Len(stack)
      BY <1>1, <2>2 DEF Pushes
    <3>. QED  BY <2>2, <3>1, <3>2 DEF Skipping, Pushes, Keeps
  <2>3. CASE Turns /\ ~Live(Top)
    <3>1. Top \in Frame /\ Len(stack) \in 1..Len(stack)
      BY <1>1, <2>3, StackType DEF Turns, Top
    <3>2. ~Live(stack'[Len(stack)])
      BY <2>3, <3>1 DEF Turns, Live, Frame
    <3>3. \A m \in 1..Len(stack') : (m \in 1..(Len(stack) - 1) /\ m \in 1..Len(stack)) \/ m = Len(stack)
      BY <1>1, <2>3 DEF Turns
    <3>4. \A l, m \in 1..Len(stack') : l < m => l \in 1..(Len(stack) - 1) /\ l \in 1..Len(stack)
      BY <1>1, <2>3 DEF Turns
    <3>. QED  BY <2>3, <3>2, <3>3, <3>4 DEF Skipping, Turns, Keeps
  <2>4. CASE Pops
    <3>1. \A m \in 1..Len(stack') : m \in 1..(Len(stack) - 1) /\ m \in 1..Len(stack)
      BY <1>1, <2>4 DEF Pops
    <3>. QED  BY <2>4, <3>1 DEF Skipping, Pops, Keeps
  <2>. QED  BY <2>1, <2>2, <2>3, <2>4
<1>. QED  BY <1>2, <1>3 DEF Skipping

\* What lowering a statement does to the stack; nothing is skipped before or after.
LEMMA LoweredLive ==
    ASSUME TypeOK, Skipping, NEW yield,
           \/ LowerAct \/ LowerReturn \/ LowerJump("break") \/ LowerJump("continue")
           \/ LowerIf(yield) \/ LowerIfElse(yield) \/ LowerWhile(yield) \/ LowerFor(yield)
           \/ LowerElse \/ EndIf \/ EndWhile \/ EndFor
    PROVE  AllLive /\ AllLive'
<1>0. nblocks \in Nat
  BY DEF TypeOK
<1>1. CASE LowerAct \/ LowerReturn \/ LowerJump("break") \/ LowerJump("continue")
  <2>1. ~BlockStops /\ stack' = stack
    BY <1>1 DEF LowerAct, LowerReturn, LowerJump
  <2>. QED  BY <2>1, OpenAllLive DEF AllLive
<1>2. CASE LowerIf(yield) \/ LowerIfElse(yield) \/ LowerWhile(yield) \/ LowerFor(yield)
  <2>1. AllLive
    BY <1>2, OpenAllLive DEF LowerIf, LowerIfElse, LowerWhile, LowerFor
  <2>2. ASSUME NEW op, NEW k \in 1..4, NEW head, NEW alt, stack' = Push(op, nblocks + k, head, alt)
        PROVE  AllLive'
    <3>1. Pushes(op) /\ stack'[Len(stack')].merge = nblocks + k
      BY <2>2, PushPushes
    <3>2. Live(stack'[Len(stack')])
      BY <1>0, <3>1 DEF Live
    <3>. QED  BY <2>1, <3>1, <3>2, PushLive
  <2>3. CASE LowerIf(yield)
    <3>1. stack' = Push("if", nblocks + 2, 0, 0)
      BY <2>3 DEF LowerIf
    <3>. QED  BY <2>1, <2>2, <3>1
  <2>4. CASE LowerIfElse(yield)
    <3>1. stack' = Push("ifelse", nblocks + 3, 0, nblocks + 2)
      BY <2>4 DEF LowerIfElse
    <3>. QED  BY <2>1, <2>2, <3>1
  <2>5. CASE LowerWhile(yield)
    <3>1. stack' = Push("while", nblocks + 3, nblocks + 1, 0)
      BY <2>5 DEF LowerWhile
    <3>. QED  BY <2>1, <2>2, <3>1
  <2>6. CASE LowerFor(yield)
    <3>1. stack' = Push("for", nblocks + 4, nblocks + 1, nblocks + 3)
      BY <2>6 DEF LowerFor
    <3>. QED  BY <2>1, <2>2, <3>1
  <2>. QED  BY <1>2, <2>1, <2>3, <2>4, <2>5, <2>6
<1>3. CASE LowerElse
  <2>1. Turns /\ Live(Top)
    BY <1>3, ElseTurns DEF LowerElse
  <2>. QED  BY <2>1, TopAllLive, TurnLive DEF Turns
<1>4. CASE EndIf \/ EndWhile \/ EndFor
  <2>1. Pops /\ Live(Top)
    BY <1>4, EndPops DEF EndIf, EndWhile, EndFor
  <2>. QED  BY <2>1, TopAllLive, PopLive DEF Pops
<1>. QED  BY <1>1, <1>2, <1>3, <1>4

LEMMA SkippingKept ==
    ASSUME TypeOK, [Next]_vars, Skipping
    PROVE  Skipping'
<1>1. ASSUME NEW op \in Simple, SkipSimple(op) PROVE Skipping'
  BY <1>1, SkippingSkips DEF SkipSimple, BlockStops
<1>2. ASSUME NEW op \in Openers, SkipOpen(op) PROVE Skipping'
  <2>1. Pushes(op) /\ stack'[Len(stack')].merge = 0
    BY <1>2, PushPushes DEF SkipOpen, Pushes
  <2>2. ~Live(stack'[Len(stack')])
    BY <2>1 DEF Live
  <2>. QED  BY <1>2, <2>1, <2>2, SkippingSkips DEF SkipOpen, BlockStops
<1>3. CASE SkipElse
  <2>1. Turns /\ ~Live(Top)
    BY <1>3, ElseTurns DEF SkipElse
  <2>2. Terminated(term, cur)
    BY <2>1, StackType DEF Skipping, Top, Turns
  <2>. QED  BY <1>3, <2>1, <2>2, SkippingSkips DEF SkipElse
<1>4. CASE SkipEnd
  <2>1. Pops /\ ~Live(Top)
    BY <1>4, EndPops DEF SkipEnd
  <2>2. Terminated(term, cur)
    BY <2>1, StackType DEF Skipping, Top, Pops
  <2>. QED  BY <1>4, <2>1, <2>2, SkippingSkips DEF SkipEnd
<1>5. ASSUME NEW yield,
             \/ LowerAct \/ LowerReturn \/ LowerJump("break") \/ LowerJump("continue")
             \/ LowerIf(yield) \/ LowerIfElse(yield) \/ LowerWhile(yield) \/ LowerFor(yield)
             \/ LowerElse \/ EndIf \/ EndWhile \/ EndFor
      PROVE  Skipping'
  BY <1>5, LoweredLive, AllLiveSkipping
<1>6. CASE Finish
  <2>1. Len(stack') = 0 /\ 1..0 = {}
    BY <1>6 DEF Finish
  <2>. QED  BY <2>1 DEF Skipping
<1>7. RunNext \/ UNCHANGED vars => stack' = stack /\ cur' = cur /\ term' = term
  BY DEF RunNext, Exec, Jump, Branch, Returned, vars
<1>8. stack' = stack /\ cur' = cur /\ term' = term => Skipping'
  BY DEF Skipping
<1>. QED  BY <1>1, <1>2, <1>3, <1>4, <1>5, <1>6, <1>7, <1>8 DEF Next, LowerNext

LEMMA TargetedSame ==
    ASSUME NEW lp, Targeted(lp), targets' = targets,
           \A m \in 1..Len(stack) : Live(stack[m]) /\ stack[m].op \in Loops =>
              m \in 1..Len(stack') /\ stack'[m] = stack[m],
           \A m \in 1..Len(stack') : Live(stack'[m]) /\ stack'[m].op \in Loops =>
              m \in 1..Len(stack) /\ stack'[m] = stack[m]
    PROVE  Targeted(lp)'
BY DEF Targeted

LEMMA TargetedPush ==
    ASSUME TypeOK, NEW lp, Targeted(lp), NEW op \in Loops, Pushes(op), Live(stack'[Len(stack')]),
           NEW t, targets' = Append(targets, t), t = TargetOf(stack'[Len(stack')])
    PROVE  \E l : Targeted(l)'
<1>1. Len(stack) \in Nat /\ Len(targets) \in Nat
  BY StackType
<1>2. /\ Len(targets') = Len(targets) + 1 /\ targets'[Len(targets')] = t
      /\ \A x \in 1..Len(targets) : targets'[x] = targets[x]
  BY DEF TypeOK, TargetStack
<1>0. PICK l : l = [x \in 1..(Len(targets) + 1) |-> IF x <= Len(targets) THEN lp[x] ELSE Len(stack) + 1]
  OBVIOUS
<1>3. \A x \in 1..Len(targets') : \/ x \in 1..Len(targets) /\ l[x] = lp[x]
                                  \/ x = Len(targets') /\ l[x] = Len(stack')
  BY <1>0, <1>1, <1>2 DEF Pushes
<1>4. \A x \in 1..Len(targets) : x \in 1..Len(targets') /\ l[x] = lp[x]
  BY <1>0, <1>1, <1>2
<1>5. Len(targets') \in 1..Len(targets') /\ l[Len(targets')] = Len(stack')
  BY <1>0, <1>1, <1>2 DEF Pushes
<1>6. \A x \in 1..Len(targets') :
        /\ l[x] \in 1..Len(stack') /\ Live(stack'[l[x]]) /\ stack'[l[x]].op \in Loops
        /\ targets'[x] = TargetOf(stack'[l[x]])
  <2>1. TAKE x \in 1..Len(targets')
  <2>2. CASE x \in 1..Len(targets) /\ l[x] = lp[x]
    <3>1. lp[x] \in 1..Len(stack)
      BY <2>2 DEF Targeted
    <3>2. lp[x] \in 1..Len(stack') /\ stack'[lp[x]] = stack[lp[x]]
      BY <1>1, <3>1 DEF Pushes, Keeps
    <3>3. targets'[x] = targets[x]
      BY <1>2, <2>2
    <3>. QED  BY <2>2, <3>2, <3>3 DEF Targeted
  <2>3. CASE x = Len(targets') /\ l[x] = Len(stack')
    <3>1. Len(stack') \in 1..Len(stack')
      BY <1>1 DEF Pushes
    <3>. QED  BY <1>2, <2>3, <3>1 DEF Pushes
  <2>. QED  BY <1>3, <2>2, <2>3
<1>7. \A x, y \in 1..Len(targets') : x < y => l[x] < l[y]
  <2>1. TAKE x, y \in 1..Len(targets')
  <2>2. HAVE x < y
  <2>3. x \in 1..Len(targets) /\ l[x] = lp[x]
    BY <1>1, <1>2, <1>3, <2>2
  <2>4. CASE y \in 1..Len(targets) /\ l[y] = lp[y]
    BY <2>2, <2>3, <2>4 DEF Targeted
  <2>5. CASE y = Len(targets') /\ l[y] = Len(stack')
    <3>1. lp[x] \in 1..Len(stack)
      BY <2>3 DEF Targeted
    <3>. QED  BY <1>1, <2>3, <2>5, <3>1 DEF Pushes
  <2>. QED  BY <1>3, <2>4, <2>5
<1>8. \A m \in 1..Len(stack') :
         Live(stack'[m]) /\ stack'[m].op \in Loops => \E x \in 1..Len(targets') : m = l[x]
  <2>1. TAKE m \in 1..Len(stack')
  <2>2. HAVE Live(stack'[m]) /\ stack'[m].op \in Loops
  <2>3. CASE m \in 1..Len(stack)
    <3>1. stack'[m] = stack[m]
      BY <2>3 DEF Pushes, Keeps
    <3>2. PICK x \in 1..Len(targets) : m = lp[x]
      BY <2>2, <2>3, <3>1 DEF Targeted
    <3>. QED  BY <1>4, <3>2
  <2>4. CASE m = Len(stack')
    BY <1>5, <2>4
  <2>5. m \in 1..Len(stack) \/ m = Len(stack')
    BY <1>1 DEF Pushes
  <2>. QED  BY <2>3, <2>4, <2>5
<1>9. Targeted(l)'
  BY <1>6, <1>7, <1>8 DEF Targeted
<1>. QED  BY <1>9

LEMMA TargetedPop ==
    ASSUME TypeOK, NEW lp, Targeted(lp), Pops, Live(Top), Top.op \in Loops,
           targets' = Front(targets)
    PROVE  Targeted(lp)'
<1>1. /\ Len(stack) \in Nat /\ Len(stack) \in 1..Len(stack) /\ Top = stack[Len(stack)]
      /\ Len(stack') = Len(stack) - 1 /\ Len(targets) \in Nat
  BY StackType DEF Pops, Top
<1>2. PICK z \in 1..Len(targets) : lp[z] = Len(stack)
  BY <1>1 DEF Targeted
<1>3. /\ Len(targets') = Len(targets) - 1
      /\ \A x \in 1..Len(targets') : targets'[x] = targets[x]
  <2>1. targets \in Seq([brk : 1..nblocks, cont : 1..nblocks]) /\ targets # <<>>
    BY <1>2 DEF TypeOK, TargetStack
  <2>. QED  BY <2>1, FrontType
<1>4. z = Len(targets)
  <2>1. SUFFICES ASSUME z # Len(targets) PROVE FALSE
    OBVIOUS
  <2>2. Len(targets) \in 1..Len(targets) /\ z < Len(targets)
    BY <1>1, <2>1
  <2>3. lp[z] < lp[Len(targets)] /\ lp[Len(targets)] \in 1..Len(stack)
    BY <2>2 DEF Targeted
  <2>. QED  BY <1>1, <1>2, <2>3
<1>5. \A x \in 1..Len(targets') :
        /\ x \in 1..Len(targets) /\ lp[x] \in 1..Len(stack') /\ stack'[lp[x]] = stack[lp[x]]
  <2>1. TAKE x \in 1..Len(targets')
  <2>2. x \in 1..Len(targets) /\ x < z
    BY <1>1, <1>3, <1>4
  <2>3. lp[x] < Len(stack) /\ lp[x] \in 1..Len(stack)
    BY <1>2, <2>2 DEF Targeted
  <2>4. lp[x] \in 1..(Len(stack) - 1)
    BY <1>1, <2>3
  <2>. QED  BY <1>1, <2>2, <2>4 DEF Pops, Keeps
<1>6. \A m \in 1..Len(stack') :
         Live(stack'[m]) /\ stack'[m].op \in Loops => \E x \in 1..Len(targets') : m = lp[x]
  <2>1. TAKE m \in 1..Len(stack')
  <2>2. HAVE Live(stack'[m]) /\ stack'[m].op \in Loops
  <2>3. m \in 1..(Len(stack) - 1) /\ m \in 1..Len(stack) /\ stack'[m] = stack[m]
    BY <1>1 DEF Pops, Keeps
  <2>4. PICK x \in 1..Len(targets) : m = lp[x]
    BY <2>2, <2>3 DEF Targeted
  <2>5. x # z
    BY <1>1, <1>2, <2>3, <2>4
  <2>. QED  BY <1>1, <1>3, <1>4, <2>4, <2>5
<1>. QED  BY <1>3, <1>5, <1>6 DEF Targeted

LEMMA TargetedKept ==
    ASSUME TypeOK, [Next]_vars, NEW lp, Targeted(lp)
    PROVE  \E l : Targeted(l)'
<1>0. Len(stack) \in Nat /\ (Len(stack) # 0 => Top = stack[Len(stack)] /\ Top \in Frame)
  BY StackType DEF Top
<1>1. CASE targets' = targets /\ stack' = stack
  <2>1. Targeted(lp)'
    BY <1>1 DEF Targeted
  <2>. QED  BY <2>1
<1>2. ASSUME NEW op, Pushes(op), ~Live(stack'[Len(stack')]) \/ op \notin Loops, targets' = targets
      PROVE  \E l : Targeted(l)'
  <2>1. \A m \in 1..Len(stack') : m \in 1..Len(stack) \/ m = Len(stack')
    BY <1>0, <1>2 DEF Pushes
  <2>2. \A m \in 1..Len(stack) : m \in 1..Len(stack')
    BY <1>0, <1>2 DEF Pushes
  <2>3. Targeted(lp)'
    BY <1>2, <2>1, <2>2, TargetedSame DEF Pushes, Keeps
  <2>. QED  BY <2>3
<1>3. CASE Turns /\ targets' = targets
  <2>1. \A m \in 1..Len(stack) : m \in 1..(Len(stack) - 1) \/ m = Len(stack)
    BY <1>0
  <2>2. stack'[Len(stack)].op = "else" /\ "ifelse" \notin Loops /\ "else" \notin Loops
    BY <1>0, <1>3 DEF Turns, Loops, Frame
  <2>3. Targeted(lp)'
    BY <1>0, <1>3, <2>1, <2>2, TargetedSame DEF Turns, Keeps
  <2>. QED  BY <2>3
<1>4. CASE Pops /\ targets' = targets /\ (~Live(Top) \/ Top.op \notin Loops)
  <2>1. \A m \in 1..Len(stack) : m \in 1..(Len(stack) - 1) \/ m = Len(stack)
    BY <1>0
  <2>2. \A m \in 1..(Len(stack) - 1) : m \in 1..Len(stack)
    BY <1>0
  <2>3. Targeted(lp)'
    BY <1>0, <1>4, <2>1, <2>2, TargetedSame DEF Pops, Keeps
  <2>. QED  BY <2>3
<1>5. ASSUME NEW op \in Openers, SkipOpen(op) PROVE \E l : Targeted(l)'
  <2>1. Pushes(op) /\ stack'[Len(stack')].merge = 0 /\ targets' = targets
    BY <1>5, PushPushes DEF SkipOpen, Pushes
  <2>. QED  BY <1>2, <2>1 DEF Live
<1>6. ASSUME NEW yield, LowerIf(yield) \/ LowerIfElse(yield) PROVE \E l : Targeted(l)'
  <2>1. PICK op \in {"if", "ifelse"} : Pushes(op) /\ targets' = targets
    BY <1>6, PushPushes DEF LowerIf, LowerIfElse
  <2>2. op \notin Loops
    BY DEF Loops
  <2>. QED  BY <1>2, <2>1, <2>2
<1>7. ASSUME NEW yield, LowerWhile(yield) PROVE \E l : Targeted(l)'
  <2>. DEFINE f == stack'[Len(stack')]
  <2>1. /\ Pushes("while") /\ f.merge = nblocks + 3 /\ f.head = nblocks + 1 /\ f.op = "while"
        /\ targets' = Append(targets, [brk |-> nblocks + 3, cont |-> nblocks + 1])
    BY <1>7, PushPushes DEF LowerWhile, Pushes
  <2>2. Live(f) /\ "while" \in Loops
    BY <2>1 DEF Live, Loops, TypeOK
  <2>3. TargetOf(f) = [brk |-> nblocks + 3, cont |-> nblocks + 1]
    BY <2>1 DEF TargetOf
  <2>. HIDE DEF f
  <2>. QED  BY <2>1, <2>2, <2>3, TargetedPush DEF f
<1>8. ASSUME NEW yield, LowerFor(yield) PROVE \E l : Targeted(l)'
  <2>. DEFINE f == stack'[Len(stack')]
  <2>1. /\ Pushes("for") /\ f.merge = nblocks + 4 /\ f.alt = nblocks + 3 /\ f.op = "for"
        /\ targets' = Append(targets, [brk |-> nblocks + 4, cont |-> nblocks + 3])
    BY <1>8, PushPushes DEF LowerFor, ForContinue, Pushes
  <2>2. Live(f) /\ "for" \in Loops
    BY <2>1 DEF Live, Loops, TypeOK
  <2>3. TargetOf(f) = [brk |-> nblocks + 4, cont |-> nblocks + 3]
    BY <2>1 DEF TargetOf
  <2>. HIDE DEF f
  <2>. QED  BY <2>1, <2>2, <2>3, TargetedPush DEF f
<1>9. CASE SkipElse \/ LowerElse
  <2>1. Turns /\ targets' = targets
    BY <1>9, ElseTurns DEF SkipElse, LowerElse
  <2>. QED  BY <1>3, <2>1
<1>10. CASE SkipEnd \/ EndIf
  <2>1. Pops /\ targets' = targets /\ (~Live(Top) \/ Top.op \notin Loops)
    BY <1>10, EndPops DEF SkipEnd, EndIf, Loops
  <2>. QED  BY <1>4, <2>1
<1>11. CASE EndWhile \/ EndFor
  <2>1. Pops /\ Live(Top) /\ Top.op \in Loops /\ targets' = Front(targets)
    BY <1>11, EndPops DEF EndWhile, EndFor, Loops
  <2>2. Targeted(lp)'
    BY <2>1, TargetedPop
  <2>. QED  BY <2>2
<1>12. ASSUME NEW op, SkipSimple(op) \/ LowerAct \/ LowerReturn \/ LowerJump(op)
                      \/ Finish \/ RunNext \/ UNCHANGED vars
       PROVE  \E l : Targeted(l)'
  <2>1. targets' = targets /\ stack' = stack
    BY <1>12 DEF SkipSimple, LowerAct, LowerReturn, LowerJump, Finish, RunNext, Exec, Jump,
                 Branch, Returned, vars
  <2>. QED  BY <1>1, <2>1
<1>. QED  BY <1>5, <1>6, <1>7, <1>8, <1>9, <1>10, <1>11, <1>12 DEF Next, LowerNext

\* The target of a break or continue is that of the loop the token is in.
LEMMA JumpTarget ==
    ASSUME TypeOK, [Next]_vars, Nesting, Skipping, NEW lp, Targeted(lp), ~BlockStops,
           NEW op \in {"break", "continue"}, Admitted(op), stack' = stack
    PROVE  /\ targets # <<>>
           /\ \E m \in 1..Len(stack) :
                /\ Live(stack[m]) /\ stack[m].op \in Loops
                /\ targets[Len(targets)] = TargetOf(stack[m])
                /\ InnermostLoop(prog', Here) = stack[m].at
<1>1. AllLive /\ Len(targets) \in Nat /\ Len(stack) \in Nat /\ Stacked(stack)
  BY OpenAllLive, StackType
<1>2. PICK k \in 1..Len(stack) : stack[k].op \in Loops
  BY LoopOpen
<1>3. PICK y \in 1..Len(targets) : k = lp[y]
  BY <1>1, <1>2 DEF Targeted, AllLive
<1>. DEFINE z == Len(targets)
            m == lp[z]
<1>4. z \in 1..Len(targets) /\ targets # <<>>
  BY <1>1, <1>3
<1>5. /\ m \in 1..Len(stack) /\ Live(stack[m]) /\ stack[m].op \in Loops
      /\ targets[z] = TargetOf(stack[m])
  BY <1>4 DEF Targeted
<1>6. ASSUME NEW l \in 1..Len(stack), m < l PROVE stack[l].op \notin Loops
  <2>1. SUFFICES ASSUME stack[l].op \in Loops PROVE FALSE
    OBVIOUS
  <2>2. PICK x \in 1..Len(targets) : l = lp[x]
    BY <1>1, <2>1 DEF Targeted, AllLive
  <2>3. x = z \/ x < z
    BY <1>1, <2>2
  <2>4. x < z => lp[x] < m
    BY <1>4, <2>2 DEF Targeted
  <2>5. l \in Nat /\ m \in Nat
    BY <1>1, <1>5
  <2>. QED  BY <1>6, <2>2, <2>3, <2>4, <2>5
<1>. HIDE DEF m
<1>7. Nests(prog', stack) /\ Sane(prog') /\ Len(prog') = Here /\ Here \in Nat
  <2>1. Nesting'
    BY NestingKept
  <2>2. op \in Ops
    BY DEF Ops, Simple
  <2>. QED  BY <2>1, <2>2, AdmittedGrows, AdmittedType DEF Nesting
<1>8. InnermostLoop(prog', Here) = stack[m].at
  BY <1>1, <1>5, <1>6, <1>7, InnermostLoopIs
<1>. QED  BY <1>4, <1>5, <1>8

-----------------------------------------------------------------------------
(* What is known of a finished block stays when tokens and blocks are added. *)

Later(p, q) == p \in Seq(Ops) /\ (q = p \/ \E op : Grown(p, op, q))

\* The roles r2 of the blocks 1..n extend the roles r of the blocks 1..m.
Recast(m, r, n, r2) ==
  /\ m \in Nat /\ n \in Nat /\ m <= n
  /\ r \in [1..m -> Roles] /\ r2 \in [1..n -> Roles] /\ \A b \in 1..m : r2[b] = r[b]

LEMMA LaterTokens ==
    ASSUME NEW p, NEW q, Later(p, q)
    PROVE  /\ Len(p) \in Nat /\ Len(q) \in Nat /\ Len(p) <= Len(q)
           /\ \A j \in 1..Len(p) : q[j] = p[j]
           /\ \A j \in 1..Len(p) : p[j] \in Ops
<1>1. Len(p) \in Nat /\ \A j \in 1..Len(p) : p[j] \in Ops
  BY DEF Later
<1>2. CASE q = p
  BY <1>1, <1>2
<1>3. ASSUME NEW op, Grown(p, op, q)
      PROVE  Len(q) \in Nat /\ Len(p) <= Len(q) /\ \A j \in 1..Len(p) : q[j] = p[j]
  BY <1>1, <1>3, Appended
<1>. QED  BY <1>1, <1>2, <1>3 DEF Later

LEMMA LaterBlocks ==
    ASSUME NEW p, NEW q, Later(p, q)
    PROVE  /\ \A k \in Nat \ {0} : \A j : Closes(p, k, j) => Closes(q, k, j)
           /\ \A k \in Nat \ {0} : \A e \in Elses(p, k) : e \in Elses(q, k)
           /\ \A i \in 0..Len(p) : /\ Source!OpenAt(q, i) = Source!OpenAt(p, i)
                                   /\ Source!LoopsAt(q, i) = Source!LoopsAt(p, i)
<1>1. CASE q = p
  BY <1>1
<1>2. ASSUME NEW op, Grown(p, op, q)
      PROVE  /\ \A k \in Nat \ {0} : \A j : Closes(p, k, j) => Closes(q, k, j)
             /\ \A k \in Nat \ {0} : \A e \in Elses(p, k) : e \in Elses(q, k)
             /\ \A i \in 0..Len(p) : /\ Source!OpenAt(q, i) = Source!OpenAt(p, i)
                                     /\ Source!LoopsAt(q, i) = Source!LoopsAt(p, i)
  BY <1>2, ClosesStays, ElsesStay, OpenStays
<1>. QED  BY <1>1, <1>2 DEF Later

\* The innermost of some places is one of them, and the last.
LEMMA InnermostIn ==
    ASSUME NEW n \in Nat, NEW S \in SUBSET (1..n), S # {}
    PROVE  Source!Innermost(S) \in S /\ \A k \in S : k <= Source!Innermost(S)
<1>1. S \in SUBSET (0..n) /\ S \in SUBSET Nat
  OBVIOUS
<1>2. PICK m \in S : \A k \in S : k <= m
  BY <1>1, Greatest
<1>3. Source!Innermost(S) = m
  BY <1>1, <1>2, InnermostIs
<1>. QED  BY <1>2, <1>3

LEMMA OpenBefore ==
    ASSUME NEW p, NEW i \in Nat
    PROVE  Source!OpenAt(p, i) \in SUBSET (1..i) /\ Source!LoopsAt(p, i) \in SUBSET Source!OpenAt(p, i)
BY OpenIs DEF Source!LoopsAt

LEMMA RoleParts ==
    ASSUME NEW x \in Roles
    PROVE  x[2] \in Nat \ {0} /\ x = <<x[1], x[2]>>
BY DEF Roles

LEMMA BeginsStays ==
    ASSUME NEW p, NEW q, Later(p, q), NEW x \in Roles, NEW s, Begins(p, x, s)
    PROVE  Begins(q, x, s)
BY LaterBlocks, RoleParts DEF Begins

LEMMA LeadsStays ==
    ASSUME NEW p, NEW q, Later(p, q), Sane(p), NEW k \in 1..Len(p), NEW x \in Roles, Leads(p, k, x)
    PROVE  Leads(q, k, x)
<1>1. /\ Len(p) \in Nat /\ q[k] = p[k] /\ k \in 0..Len(p) /\ k - 1 \in 0..Len(p) /\ k \in Nat /\ k - 1 \in Nat
      /\ \A j \in 1..Len(p) : q[j] = p[j]
  BY LaterTokens
<1>2. x[2] \in Nat \ {0}
  BY RoleParts
<1>3. CASE p[k] \in {"while", "else"}
  BY <1>1, <1>2, <1>3, LaterBlocks DEF Leads
<1>4. CASE p[k] \in {"break", "continue"}
  <2>. DEFINE L == InnermostLoop(p, k)
  <2>1. Source!LoopsAt(q, k) = Source!LoopsAt(p, k)
    BY <1>1, LaterBlocks
  <2>2. InnermostLoop(q, k) = L
    BY <2>1 DEF InnermostLoop
  <2>3. Source!LoopsAt(p, k) # {}
    BY <1>4 DEF Sane
  <2>4. Source!LoopsAt(p, k) \in SUBSET (1..k)
    BY <1>1, OpenBefore
  <2>5. L \in 1..k
    BY <1>1, <2>3, <2>4, InnermostIn DEF InnermostLoop
  <2>. HIDE DEF L
  <2>6. q[L] = p[L]
    BY <1>1, <2>5
  <2>. QED  BY <1>1, <1>4, <2>2, <2>6 DEF Leads, Again, L
<1>5. CASE p[k] = "end"
  <2>. DEFINE S == Source!OpenAt(p, k - 1)
              L == Source!Innermost(S)
  <2>1. Source!OpenAt(q, k - 1) = S
    BY <1>1, LaterBlocks
  <2>2. S # {}
    BY <1>5 DEF Sane
  <2>3. S \in SUBSET (1..(k - 1))
    BY <1>1, OpenBefore
  <2>. HIDE DEF S
  <2>4. L \in 1..(k - 1)
    BY <1>1, <2>2, <2>3, InnermostIn
  <2>5. q[L] = p[L] /\ L \in Nat \ {0}
    BY <1>1, <2>4
  <2>6. IF p[L] \in Loops THEN x = Again(p, L) ELSE x = <<"merge", L>> /\ Closes(p, L, k)
    BY <1>5 DEF Leads, S
  <2>. HIDE DEF L
  <2>7. IF q[L] \in Loops THEN x = Again(q, L) ELSE x = <<"merge", L>> /\ Closes(q, L, k)
    BY <2>5, <2>6, LaterBlocks DEF Again
  <2>. QED  BY <1>1, <1>5, <2>1, <2>7 DEF Leads, L
<1>. QED  BY <1>3, <1>4, <1>5 DEF Leads

LEMMA EndsStays ==
    ASSUME NEW p, NEW q, Later(p, q), Sane(p), NEW k \in 1..Len(p),
           NEW m, NEW r, NEW n, NEW r2, Recast(m, r, n, r2),
           NEW t, BranchOK(t, m), Ends(p, r, k, t)
    PROVE  Ends(q, r2, k, t)
<1>1. q[k] = p[k]
  BY LaterTokens
<1>2. CASE p[k] = "return" /\ t = Ret(<<k, "ret">>)
  BY <1>1, <1>2 DEF Ends
<1>3. CASE /\ p[k] \in {"if", "ifelse"} /\ t = Cbr(<<k, "cond">>, t.t, t.f)
           /\ r[t.t] = <<"body", k>> /\ r[t.f] = <<IF p[k] = "if" THEN "merge" ELSE "else", k>>
  <2>1. t.kind = "cbr"
    BY <1>3 DEF Cbr
  <2>2. r2[t.t] = r[t.t] /\ r2[t.f] = r[t.f]
    BY <2>1 DEF BranchOK, Recast
  <2>. QED  BY <1>1, <1>3, <2>2 DEF Ends
<1>4. CASE t = Br(t.t) /\ Leads(p, k, r[t.t])
  <2>1. t.kind = "br"
    BY <1>4 DEF Br
  <2>2. r2[t.t] = r[t.t] /\ r[t.t] \in Roles
    BY <2>1 DEF BranchOK, Recast
  <2>3. Leads(q, k, r[t.t])
    BY <1>4, <2>2, LeadsStays
  <2>. QED  BY <1>4, <2>2, <2>3 DEF Ends
<1>. QED  BY <1>2, <1>3, <1>4 DEF Ends

LEMMA RunsStays ==
    ASSUME NEW p, NEW q, Later(p, q), NEW x \in Roles, NEW s, NEW k, Runs(p, x, s, k)
    PROVE  Runs(q, x, s, k)
<1>1. /\ Len(p) \in Nat /\ Len(q) \in Nat /\ Len(p) <= Len(q)
      /\ \A j \in 1..Len(p) : q[j] = p[j]
  BY LaterTokens
<1>2. s \in 1..(Len(p) + 1) /\ k \in s..(Len(p) + 1)
  BY DEF Runs
<1>3. s \in 1..(Len(q) + 1) /\ k \in s..(Len(q) + 1) /\ \A i \in s..(k - 1) : i \in 1..Len(p)
  BY <1>1, <1>2
<1>. QED  BY <1>1, <1>3, BeginsStays DEF Runs

LEMMA DoneStays ==
    ASSUME NEW p, NEW q, Later(p, q), Sane(p),
           NEW m, NEW r, NEW n, NEW r2, Recast(m, r, n, r2),
           NEW x \in Roles, NEW c, NEW t, BranchOK(t, m), Done(p, r, x, c, t)
    PROVE  Done(q, r2, x, c, t)
<1>1. /\ Len(p) \in Nat /\ Len(q) \in Nat /\ Len(p) <= Len(q)
      /\ \A j \in 1..Len(p) : q[j] = p[j] /\ j \in 1..Len(q)
  BY LaterTokens
<1>2. t.kind = "br" => r2[t.t] = r[t.t]
  BY DEF BranchOK, Recast
<1>3. t.kind = "cbr" => r2[t.t] = r[t.t] /\ r2[t.f] = r[t.f]
  BY DEF BranchOK, Recast
<1>4. (t = Br(t.t) => t.kind = "br") /\ \A e : t = Cbr(e, t.t, t.f) => t.kind = "cbr"
  BY DEF Br, Cbr
<1>5. ASSUME NEW s \in Nat, NEW k \in Nat, Line(p, r, x, c, t, s, k)
      PROVE  Line(q, r2, x, c, t, s, k)
  <2>1. Runs(q, x, s, k)
    BY <1>5, RunsStays DEF Line
  <2>2. k \in 1..Len(p)
    BY <1>1, <1>5 DEF Line, Runs
  <2>3. k <= Len(q) /\ q[k] = p[k]
    BY <1>1, <2>2
  <2>4. CASE c = Acts(s, k) /\ Ends(p, r, k, t)
    BY <2>1, <2>2, <2>3, <2>4, EndsStays DEF Line
  <2>5. CASE ~(c = Acts(s, k) /\ Ends(p, r, k, t))
    BY <1>2, <1>4, <1>5, <2>1, <2>3, <2>5 DEF Line
  <2>. QED  BY <2>4, <2>5
<1>6. ASSUME NEW i \in Nat, Test(p, r, x, c, t, i) PROVE Test(q, r2, x, c, t, i)
  BY <1>1, <1>3, <1>4, <1>6 DEF Test
<1>7. ASSUME NEW i \in Nat, Step(p, r, x, c, t, i) PROVE Step(q, r2, x, c, t, i)
  BY <1>1, <1>2, <1>4, <1>7 DEF Step
<1>. QED  BY <1>5, <1>6, <1>7 DEF Done

\* A finished block has its terminator.
LEMMA DoneTerminated ==
    ASSUME NEW p, NEW r, NEW x, NEW c, NEW t, Done(p, r, x, c, t)
    PROVE  t.kind # "none"
BY DEF Done, Line, Test, Step, Ends, Ret, Br, Cbr

LEMMA ActsGrow ==
    ASSUME NEW s \in Nat, NEW q \in Nat, s <= q
    PROVE  Acts(s, s) = <<>> /\ Append(Acts(s, q), <<q, "act">>) = Acts(s, q + 1)
<1>1. Acts(s, s) = <<>>
  BY DEF Acts
<1>. DEFINE A == Acts(s, q)
            B == Append(A, <<q, "act">>)
<1>2. A \in Seq(Nat \X {"act"}) /\ Len(A) = q - s /\ \A i \in 1..(q - s) : A[i] = <<s + i - 1, "act">>
  <2>. DEFINE f == [i \in 1..(q - s) |-> <<s + i - 1, "act">>]
  <2>1. q - s \in Nat /\ f \in [1..(q - s) -> Nat \X {"act"}]
    OBVIOUS
  <2>2. f \in Seq(Nat \X {"act"})
    BY <2>1
  <2>3. Len(f) = q - s
    BY <2>1, <2>2
  <2>. QED  BY <2>2, <2>3 DEF Acts
<1>. HIDE DEF A
<1>3. /\ B \in Seq(Nat \X {"act"}) /\ Len(B) = q - s + 1
      /\ \A i \in 1..(q - s + 1) : B[i] = IF i <= q - s THEN A[i] ELSE <<q, "act">>
  BY <1>2
<1>4. B = [i \in 1..(q - s + 1) |-> B[i]]
  BY <1>3
<1>5. \A i \in 1..(q - s + 1) : B[i] = <<s + i - 1, "act">>
  <2>1. TAKE i \in 1..(q - s + 1)
  <2>2. CASE i <= q - s
    <3>1. i \in 1..(q - s)
      BY <2>2
    <3>. QED  BY <1>2, <1>3, <2>2, <3>1
  <2>3. CASE ~(i <= q - s)
    <3>1. s + i - 1 = q
      BY <2>3
    <3>. QED  BY <1>3, <2>3, <3>1
  <2>. QED  BY <2>2, <2>3
<1>6. q + 1 - s = q - s + 1
  OBVIOUS
<1>. HIDE DEF B
<1>7. B = [i \in 1..(q - s + 1) |-> <<s + i - 1, "act">>]
  BY <1>4, <1>5
<1>8. B = Acts(s, q + 1)
  BY <1>6, <1>7 DEF Acts
<1>. QED  BY <1>1, <1>8 DEF A, B

-----------------------------------------------------------------------------
(* The blocks from one state to the next. *)

\* The blocks of C apart, what is lowered stays: a block that is not closed
\* remains reserved.
Rests(C) ==
  \A b \in Blocks \ C :
    /\ code'[b] = code[b] /\ term'[b] = term[b]
    /\ b # cur \/ Terminated(term, b)
    /\ Fresh(b) => Held(stack', b)

LEMMA BlockTypes ==
    ASSUME TypeOK
    PROVE  /\ nblocks \in Nat /\ nblocks >= 1 /\ cur \in Blocks
           /\ \A b \in Blocks : term[b] \in Terminator /\ BranchOK(term[b], nblocks)
           /\ \A b \in Blocks : code[b] \in Seq(Event)
BY DEF TypeOK, TermTable, CodeTable, Blocks

LEMMA LaidNext ==
    ASSUME TypeOK, Sane(prog), phase = "lower", Later(prog, prog'),
           NEW r, Laid(r), NEW n, nblocks' = n, NEW r2, Recast(nblocks, r, n, r2),
           NEW C, Rests(C),
           \A b \in Blocks' : b \in C \/ b > nblocks =>
              Done(prog', r2, r2[b], code'[b], term'[b]) \/ Open(b, r2)' \/ Fresh(b)',
           \A m \in 1..Len(stack') : Framed(stack'[m], r2)
    PROVE  Laid(r2)'
<1>1. nblocks \in Nat /\ nblocks >= 1 /\ n \in Nat /\ Blocks = 1..nblocks /\ Blocks' = 1..n
  BY BlockTypes DEF Recast, Blocks
<1>2. r2 \in [1..n -> Roles] /\ r2[1] = <<"entry", 1>> /\ \A b \in Blocks : r2[b] = r[b] /\ r[b] \in Roles
  BY <1>1 DEF Recast, Laid
<1>3. ASSUME NEW b \in Blocks'
      PROVE  Done(prog', r2, r2[b], code'[b], term'[b]) \/ Open(b, r2)' \/ Fresh(b)'
  <2>1. CASE b \in C \/ b > nblocks
    BY <2>1
  <2>2. CASE b \notin C /\ ~(b > nblocks)
    <3>1. b \in Blocks /\ b \in Blocks \ C
      BY <1>1, <2>2
    <3>2. /\ code'[b] = code[b] /\ term'[b] = term[b]
          /\ (b # cur \/ Terminated(term, b)) /\ (Fresh(b) => Held(stack', b))
      BY <3>1 DEF Rests
    <3>3. CASE Done(prog, r, r[b], code[b], term[b])
      <4>1. BranchOK(term[b], nblocks)
        BY <3>1, BlockTypes
      <4>2. Done(prog', r2, r[b], code[b], term[b])
        BY <1>2, <3>1, <3>3, <4>1, DoneStays
      <4>. QED  BY <1>2, <3>1, <3>2, <4>2
    <3>4. CASE Open(b, r)
      BY <3>2, <3>4 DEF Open, Terminated, None
    <3>5. CASE Fresh(b)
      <4>1. Held(stack', b)
        BY <3>1, <3>5 DEF Rests
      <4>2. Fresh(b)'
        BY <3>2, <3>5, <4>1 DEF Fresh
      <4>. QED  BY <4>2
    <3>. QED  BY <3>1, <3>3, <3>4, <3>5 DEF Laid
  <2>. QED  BY <2>1, <2>2
<1>. QED  BY <1>1, <1>2, <1>3 DEF Laid

\* A reserved block is as it was created.
LEMMA ReservedFresh ==
    ASSUME TypeOK, ReservedOpen, phase = "lower", NEW r, Laid(r),
           NEW m \in 1..Len(stack), NEW b \in Reserved(stack[m])
    PROVE  b \in Blocks /\ b # cur /\ Fresh(b)
<1>1. b \in Blocks
  BY ReservedExist DEF Blocks
<1>2. b # cur /\ ~Terminated(term, b)
  BY DEF ReservedOpen
<1>3. ~Done(prog, r, r[b], code[b], term[b])
  BY <1>2, DoneTerminated DEF Terminated
<1>4. ~Open(b, r)
  BY <1>2 DEF Open
<1>. QED  BY <1>1, <1>2, <1>3, <1>4 DEF Laid

LEMMA CurrentOpen ==
    ASSUME TypeOK, ReservedOpen, phase = "lower", NEW r, Laid(r)
    PROVE  /\ ~Terminated(term, cur) => Unended(prog, r[cur], code[cur]) /\ term[cur] = None
           /\ Terminated(term, cur) => Done(prog, r, r[cur], code[cur], term[cur])
<1>1. cur \in Blocks
  BY BlockTypes
<1>2. ~Fresh(cur)
  <2>1. SUFFICES ASSUME Fresh(cur) PROVE FALSE
    OBVIOUS
  <2>2. PICK m \in 1..Len(stack) : cur \in Reserved(stack[m])
    BY <2>1 DEF Fresh, Held
  <2>. QED  BY <2>2 DEF ReservedOpen
<1>3. Done(prog, r, r[cur], code[cur], term[cur]) => Terminated(term, cur)
  BY DoneTerminated DEF Terminated
<1>4. Open(cur, r) => Unended(prog, r[cur], code[cur]) /\ term[cur] = None
  BY DEF Open
<1>5. term[cur] = None => ~Terminated(term, cur)
  BY DEF Terminated, None
<1>. QED  BY <1>1, <1>2, <1>3, <1>4, <1>5 DEF Laid

\* The current block is done with a token that ends it.
LEMMA CurrentEnds ==
    ASSUME NEW p, NEW op, NEW q, Grown(p, op, q), NEW x \in Roles, NEW c, Unended(p, x, c),
           NEW r, NEW t, Ends(q, r, Len(q), t)
    PROVE  Done(q, r, x, c, t)
<1>1. Len(p) \in Nat /\ Len(q) = Len(p) + 1 /\ \A j \in 1..Len(p) : q[j] = p[j]
  BY Appended
<1>2. PICK s \in Nat : Runs(p, x, s, Len(p) + 1) /\ c = Acts(s, Len(p) + 1)
  BY DEF Unended
<1>3. Later(p, q)
  BY DEF Later, Grown
<1>4. Runs(q, x, s, Len(q))
  BY <1>1, <1>2, <1>3, RunsStays
<1>5. Line(q, r, x, c, t, s, Len(q))
  BY <1>1, <1>2, <1>4 DEF Line
<1>. QED  BY <1>1, <1>5 DEF Done

\* Closing the current block with a branch, if it is open, when that is where
\* the token leads.
LEMMA CurrentCloses ==
    ASSUME TypeOK, ReservedOpen, phase = "lower", Sane(prog), NEW r, Laid(r),
           NEW op \in Ops, Admitted(op),
           NEW n, NEW r2, Recast(nblocks, r, n, r2),
           NEW b, Leads(prog', Here, r2[b])
    PROVE  Done(prog', r2, r2[cur], code[cur], CloseWith(term, cur, Br(b))[cur])
<1>1. Grown(prog, op, prog') /\ Len(prog') = Here
  BY AdmittedGrows
<1>2. cur \in Blocks /\ r2[cur] = r[cur] /\ r[cur] \in Roles /\ term[cur] \in Terminator
      /\ BranchOK(term[cur], nblocks)
  BY BlockTypes DEF Recast, Blocks
<1>3. CASE Terminated(term, cur)
  <2>1. Done(prog, r, r[cur], code[cur], term[cur])
    BY <1>3, CurrentOpen
  <2>2. Later(prog, prog')
    BY <1>1 DEF Later, Grown
  <2>3. Done(prog', r2, r[cur], code[cur], term[cur])
    BY <1>2, <2>1, <2>2, DoneStays
  <2>4. CloseWith(term, cur, Br(b)) = term
    BY <1>3 DEF CloseWith
  <2>. QED  BY <1>2, <2>3, <2>4
<1>4. CASE ~Terminated(term, cur)
  <2>1. Unended(prog, r[cur], code[cur])
    BY <1>4, CurrentOpen
  <2>2. Ends(prog', r2, Len(prog'), Br(b))
    BY <1>1 DEF Ends, Br
  <2>3. Done(prog', r2, r[cur], code[cur], Br(b))
    BY <1>1, <1>2, <2>1, <2>2, CurrentEnds
  <2>4. CloseWith(term, cur, Br(b))[cur] = Br(b)
    BY <1>2, <1>4 DEF CloseWith, EmitTerm, TypeOK, TermTable, Blocks
  <2>. QED  BY <1>2, <2>3, <2>4
<1>. QED  BY <1>3, <1>4

\* A block made current begins behind the token.
LEMMA CurrentBegins ==
    ASSUME NEW p, Len(p) \in Nat, NEW x, Begins(p, x, Len(p) + 1)
    PROVE  Unended(p, x, <<>>)
<1>. DEFINE s == Len(p) + 1
<1>1. s \in Nat /\ s \in 1..(Len(p) + 1) /\ s \in s..(Len(p) + 1) /\ s..(s - 1) = {}
  OBVIOUS
<1>2. Acts(s, s) = <<>>
  BY <1>1, ActsGrow
<1>3. Runs(p, x, s, s)
  BY <1>1 DEF Runs
<1>. QED  BY <1>1, <1>2, <1>3 DEF Unended

-----------------------------------------------------------------------------
(* The tables after an action. *)

LEMMA GrowIs ==
    ASSUME TypeOK, NEW k \in Nat, NEW g, NEW h, g = Grow(term, k, None), h = Grow(code, k, <<>>)
    PROVE  /\ g = [b \in 1..(nblocks + k) |-> g[b]] /\ h = [b \in 1..(nblocks + k) |-> h[b]]
           /\ \A b \in Blocks : b \in 1..(nblocks + k) /\ g[b] = term[b] /\ h[b] = code[b]
           /\ \A b \in (nblocks + 1)..(nblocks + k) : g[b] = None /\ h[b] = <<>>
<1>1. nblocks \in Nat
  BY BlockTypes
<1>. QED  BY <1>1 DEF Grow, Blocks

LEMMA EmitIs ==
    ASSUME NEW D, NEW f, f = [d \in D |-> f[d]], NEW b \in D, ~Terminated(f, b), NEW t,
           NEW g, g = EmitTerm(f, b, t)
    PROVE  /\ g[b] = t /\ \A d \in D : d # b => g[d] = f[d]
           /\ g = [d \in D |-> g[d]]
<1>1. g = [f EXCEPT ![b] = t]
  BY DEF EmitTerm
<1>2. b \in DOMAIN f /\ DOMAIN f = D
  OBVIOUS
<1>. QED  BY <1>1, <1>2

LEMMA CloseIs ==
    ASSUME TypeOK, NEW t, NEW g, g = CloseWith(term, cur, t)
    PROVE  \A b \in Blocks : b # cur => g[b] = term[b]
<1>1. term = [b \in Blocks |-> term[b]] /\ cur \in Blocks
  BY BlockTypes DEF TypeOK, TermTable, Blocks
<1>2. CASE Terminated(term, cur)
  <2>1. g = term
    BY <1>2 DEF CloseWith
  <2>. QED  BY <2>1
<1>3. CASE ~Terminated(term, cur)
  <2>1. g = EmitTerm(term, cur, t)
    BY <1>3 DEF CloseWith
  <2>2. \A b \in Blocks : b # cur => g[b] = term[b]
    BY <1>1, <1>3, <2>1, EmitIs
  <2>. QED  BY <2>2
<1>. QED  BY <1>2, <1>3

-----------------------------------------------------------------------------
(* The roles of the blocks, action by action. *)

Ready(r) == TypeOK /\ ReservedOpen /\ Nesting /\ Skipping /\ Laid(r)

LEMMA SameRoles ==
    ASSUME TypeOK, NEW r, Laid(r)
    PROVE  Recast(nblocks, r, nblocks, r)
BY BlockTypes DEF Laid, Recast, Blocks

LEMMA MoreRoles ==
    ASSUME TypeOK, NEW r, Laid(r), NEW k \in Nat, NEW f \in [1..k -> Roles]
    PROVE  \E r2 : /\ Recast(nblocks, r, nblocks + k, r2)
                   /\ \A j \in 1..k : r2[nblocks + j] = f[j]
<1>1. nblocks \in Nat /\ r \in [1..nblocks -> Roles]
  BY BlockTypes DEF Laid, Blocks
<1>. DEFINE g == [b \in 1..(nblocks + k) |-> IF b <= nblocks THEN r[b] ELSE f[b - nblocks]]
<1>2. g \in [1..(nblocks + k) -> Roles]
  <2>1. \A b \in 1..(nblocks + k) : b \in 1..nblocks \/ b - nblocks \in 1..k
    BY <1>1
  <2>2. \A b \in 1..(nblocks + k) : b <= nblocks <=> b \in 1..nblocks
    BY <1>1
  <2>. QED  BY <1>1, <2>1, <2>2
<1>3. \A b \in 1..nblocks : g[b] = r[b]
  BY <1>1
<1>4. \A j \in 1..k : g[nblocks + j] = f[j]
  BY <1>1
<1>. HIDE DEF g
<1>5. Recast(nblocks, r, nblocks + k, g)
  BY <1>1, <1>2, <1>3 DEF Recast
<1>. QED  BY <1>4, <1>5

LEMMA FramedStays ==
    ASSUME TypeOK, NEW r, Laid(r), NEW n, NEW r2, Recast(nblocks, r, n, r2),
           NEW m \in 1..Len(stack)
    PROVE  Framed(stack[m], r2)
<1>. DEFINE f == stack[m]
<1>1. f \in Frame /\ FrameOK(f, nblocks) /\ nblocks \in Nat /\ Framed(f, r)
  BY StackType, BlockTypes DEF Laid
<1>. HIDE DEF f
<1>2. ASSUME Live(f)
      PROVE  /\ f.merge \in 1..nblocks /\ (f.op \in Loops => f.head \in 1..nblocks)
             /\ (f.op \in {"for", "ifelse"} => f.alt \in 1..nblocks)
  BY <1>1, <1>2 DEF FrameOK, Live, Frame
<1>3. \A b \in 1..nblocks : r2[b] = r[b]
  BY DEF Recast
<1>4. Framed(f, r2)
  BY <1>1, <1>2, <1>3 DEF Framed
<1>. QED  BY <1>4 DEF f

\* What a frame reserves, its successors do.
LEMMA PushHolds ==
    ASSUME TypeOK, stack' = stack \/ \E op : Pushes(op), NEW b, Held(stack, b)
    PROVE  Held(stack', b)
<1>1. PICK m \in 1..Len(stack) : b \in Reserved(stack[m])
  BY DEF Held
<1>2. CASE stack' = stack
  BY <1>2
<1>3. ASSUME NEW op, Pushes(op) PROVE Held(stack', b)
  <2>1. m \in 1..Len(stack') /\ stack'[m] = stack[m]
    BY <1>3, StackType DEF Pushes, Keeps
  <2>. QED  BY <1>1, <2>1 DEF Held
<1>. QED  BY <1>2, <1>3

LEMMA TurnHolds ==
    ASSUME TypeOK, Turns \/ Pops, NEW b, Held(stack, b),
           b \notin Reserved(Top) \/ (Turns /\ b # Top.alt)
    PROVE  Held(stack', b)
<1>1. PICK m \in 1..Len(stack) : b \in Reserved(stack[m])
  BY DEF Held
<1>2. Len(stack) \in Nat /\ Top = stack[Len(stack)] /\ Top \in Frame
  BY StackType DEF Top, Turns, Pops
<1>3. CASE m # Len(stack)
  <2>1. m \in 1..(Len(stack) - 1) /\ m \in 1..Len(stack')
    BY <1>2, <1>3 DEF Turns, Pops
  <2>2. stack'[m] = stack[m]
    BY <2>1 DEF Turns, Pops, Keeps
  <2>. QED  BY <1>1, <2>1, <2>2 DEF Held
<1>4. CASE m = Len(stack)
  <2>1. Turns /\ b # Top.alt /\ b \in Reserved(Top)
    BY <1>1, <1>2, <1>4
  <2>2. b = Top.merge /\ b # 0
    BY <2>1 DEF Reserved
  <2>3. stack'[Len(stack)].merge = Top.merge /\ Len(stack) \in 1..Len(stack')
    BY <1>2, <2>1 DEF Turns, Frame
  <2>4. b \in Reserved(stack'[Len(stack)])
    BY <2>2, <2>3 DEF Reserved
  <2>. QED  BY <2>3, <2>4 DEF Held
<1>. QED  BY <1>3, <1>4

\* The frames behind a turn or a pop have their roles.
LEMMA TurnFramed ==
    ASSUME TypeOK, NEW r, Laid(r), Turns \/ Pops
    PROVE  \A m \in 1..Len(stack') : Framed(stack'[m], r)
<1>1. TAKE m \in 1..Len(stack')
<1>2. Len(stack) \in Nat /\ Top = stack[Len(stack)] /\ Top \in Frame /\ Len(stack) \in 1..Len(stack)
  BY StackType DEF Top, Turns, Pops
<1>3. CASE m # Len(stack)
  <2>1. m \in 1..(Len(stack) - 1) /\ m \in 1..Len(stack)
    BY <1>2, <1>3 DEF Turns, Pops
  <2>2. stack'[m] = stack[m]
    BY <2>1 DEF Turns, Pops, Keeps
  <2>. QED  BY <2>1, <2>2 DEF Laid
<1>4. CASE m = Len(stack)
  <2>1. Turns
    BY <1>2, <1>4 DEF Pops
  <2>2. Framed(Top, r)
    BY <1>2 DEF Laid
  <2>3. stack'[m] = [Top EXCEPT !.op = "else", !.alt = 0]
    BY <1>4, <2>1 DEF Turns
  <2>4. /\ stack'[m].merge = Top.merge /\ stack'[m].op = "else" /\ stack'[m].at = Top.at
    BY <1>2, <2>3 DEF Frame
  <2>. QED  BY <2>2, <2>4 DEF Framed, Live, Loops
<1>. QED  BY <1>3, <1>4

LEMMA PushFramed ==
    ASSUME TypeOK, NEW r, Laid(r), NEW n, NEW r2, Recast(nblocks, r, n, r2),
           NEW op, Pushes(op), Framed(stack'[Len(stack')], r2)
    PROVE  \A m \in 1..Len(stack') : Framed(stack'[m], r2)
<1>1. TAKE m \in 1..Len(stack')
<1>2. CASE m = Len(stack')
  BY <1>2
<1>3. CASE m # Len(stack')
  <2>1. m \in 1..Len(stack) /\ stack'[m] = stack[m]
    BY <1>3, StackType DEF Pushes, Keeps
  <2>. QED  BY <2>1, FramedStays
<1>. QED  BY <1>2, <1>3

LEMMA SkipLaid ==
    ASSUME NEW r, Ready(r), NEW op \in Ops, Admitted(op), Terminated(term, cur),
           UNCHANGED <<phase, nblocks, code, term, cur>>,
           \/ stack' = stack
           \/ \E o : Pushes(o) /\ ~Live(stack'[Len(stack')])
           \/ (Turns \/ Pops) /\ ~Live(Top)
    PROVE  Laid(r)'
<1>1. /\ TypeOK /\ ReservedOpen /\ Sane(prog) /\ Laid(r) /\ phase = "lower"
      /\ Later(prog, prog') /\ Recast(nblocks, r, nblocks, r)
  BY AdmittedGrows, SameRoles DEF Ready, Nesting, Later, Grown
<1>2. nblocks \in Nat /\ Blocks = 1..nblocks /\ nblocks' = nblocks
  BY <1>1, BlockTypes DEF Blocks
<1>3. ASSUME NEW b \in Blocks, Held(stack, b) PROVE Held(stack', b)
  <2>1. CASE stack' = stack \/ \E o : Pushes(o)
    BY <1>1, <1>3, <2>1, PushHolds
  <2>2. CASE (Turns \/ Pops) /\ ~Live(Top)
    <3>1. FrameOK(Top, nblocks)
      BY <1>1, <2>2, StackType DEF Top, Turns, Pops
    <3>2. Reserved(Top) = {}
      BY <2>2, <3>1 DEF Reserved, Live, FrameOK
    <3>. QED  BY <1>1, <1>3, <2>2, <3>2, TurnHolds
  <2>. QED  BY <2>1, <2>2
<1>4. \A m \in 1..Len(stack') : Framed(stack'[m], r)
  <2>1. CASE stack' = stack
    BY <1>1, <2>1 DEF Laid
  <2>2. ASSUME NEW o, Pushes(o), ~Live(stack'[Len(stack')])
        PROVE  \A m \in 1..Len(stack') : Framed(stack'[m], r)
    <3>1. Framed(stack'[Len(stack')], r)
      BY <2>2 DEF Framed
    <3>. QED  BY <1>1, <2>2, <3>1, PushFramed
  <2>3. CASE Turns \/ Pops
    BY <1>1, <2>3, TurnFramed
  <2>. QED  BY <2>1, <2>2, <2>3
<1>5. Rests({})
  <2>1. ASSUME NEW b \in Blocks
        PROVE  /\ code'[b] = code[b] /\ term'[b] = term[b]
               /\ b # cur \/ Terminated(term, b)
               /\ Fresh(b) => Held(stack', b)
    BY <1>3 DEF Fresh
  <2>. QED  BY <2>1 DEF Rests
<1>6. \A b \in Blocks' : ~(b \in {} \/ b > nblocks)
  BY <1>2 DEF Blocks
<1>. QED  BY <1>1, <1>2, <1>4, <1>5, <1>6, LaidNext

LEMMA SkipsLaid ==
    ASSUME NEW r, Ready(r), NEW op \in Ops,
           \/ op \in Simple /\ SkipSimple(op)
           \/ op \in Openers /\ SkipOpen(op)
           \/ SkipElse \/ SkipEnd
    PROVE  Laid(r)'
<1>1. TypeOK /\ Skipping
  BY DEF Ready
<1>2. CASE SkipSimple(op)
  BY <1>2, SkipLaid DEF SkipSimple, BlockStops
<1>3. CASE op \in Openers /\ SkipOpen(op)
  <2>1. Pushes(op) /\ stack'[Len(stack')].merge = 0
    BY <1>1, <1>3, PushPushes DEF SkipOpen, Pushes
  <2>2. ~Live(stack'[Len(stack')])
    BY <2>1 DEF Live
  <2>. QED  BY <1>3, <2>1, <2>2, SkipLaid DEF SkipOpen, BlockStops
<1>4. CASE SkipElse
  <2>1. Turns /\ ~Live(Top)
    BY <1>1, <1>4, ElseTurns DEF SkipElse
  <2>2. Terminated(term, cur)
    BY <1>1, <2>1, StackType DEF Skipping, Top, Turns
  <2>3. "else" \in Ops
    BY DEF Ops
  <2>. QED  BY <1>4, <2>1, <2>2, <2>3, SkipLaid DEF SkipElse
<1>5. CASE SkipEnd
  <2>1. Pops /\ ~Live(Top)
    BY <1>1, <1>5, EndPops DEF SkipEnd
  <2>2. Terminated(term, cur)
    BY <1>1, <2>1, StackType DEF Skipping, Top, Pops
  <2>3. "end" \in Ops
    BY DEF Ops
  <2>. QED  BY <1>5, <2>1, <2>2, <2>3, SkipLaid DEF SkipEnd
<1>. QED  BY <1>2, <1>3, <1>4, <1>5

\* What holds when a token is lowered: the current block takes it.
LEMMA Lowers ==
    ASSUME NEW r, Ready(r), NEW op \in Ops, Admitted(op)
    PROVE  /\ TypeOK /\ ReservedOpen /\ Sane(prog) /\ Nests(prog, stack) /\ Laid(r) /\ phase = "lower"
           /\ Grown(prog, op, prog') /\ Later(prog, prog') /\ Recast(nblocks, r, nblocks, r)
           /\ Len(prog') = Here /\ Here \in Nat \ {0} /\ prog'[Here] = op /\ Len(prog) = Here - 1
           /\ nblocks \in Nat /\ nblocks >= 1 /\ Blocks = 1..nblocks /\ cur \in Blocks
           /\ r[cur] \in Roles
           /\ ~Terminated(term, cur) => Unended(prog, r[cur], code[cur]) /\ term[cur] = None
<1>1. TypeOK /\ ReservedOpen /\ Sane(prog) /\ Nests(prog, stack) /\ Laid(r)
  BY DEF Ready, Nesting
<1>2. Grown(prog, op, prog') /\ Len(prog') = Here /\ phase = "lower"
  BY <1>1, AdmittedGrows
<1>3. Later(prog, prog') /\ Recast(nblocks, r, nblocks, r)
  BY <1>1, <1>2, SameRoles DEF Later, Grown
<1>4. prog'[Len(prog) + 1] = op /\ Len(prog) \in Nat /\ Here = Len(prog) + 1
  BY <1>1, <1>2, Appended, StackType
<1>5. nblocks \in Nat /\ nblocks >= 1 /\ Blocks = 1..nblocks /\ cur \in Blocks
  BY <1>1, BlockTypes DEF Blocks
<1>6. r[cur] \in Roles
  BY <1>1, <1>5 DEF Laid
<1>. QED  BY <1>1, <1>2, <1>3, <1>4, <1>5, <1>6, CurrentOpen

\* A token that only the current block takes.
LEMMA OneLaid ==
    ASSUME NEW r, Ready(r), NEW op \in Ops, Admitted(op), UNCHANGED <<stack, nblocks>>,
           \A b \in Blocks \ {cur} : code'[b] = code[b] /\ term'[b] = term[b],
           \A b \in Blocks : b = cur =>
              Done(prog', r, r[b], code'[b], term'[b]) \/ Open(b, r)' \/ Fresh(b)'
    PROVE  Laid(r)'
<1>1. /\ TypeOK /\ Sane(prog) /\ Laid(r) /\ phase = "lower" /\ Later(prog, prog')
      /\ Recast(nblocks, r, nblocks, r) /\ Blocks = 1..nblocks /\ nblocks \in Nat /\ cur \in Blocks
  BY Lowers
<1>2. Rests({cur})
  <2>1. ASSUME NEW b \in Blocks \ {cur}
        PROVE  /\ code'[b] = code[b] /\ term'[b] = term[b]
               /\ b # cur \/ Terminated(term, b)
               /\ Fresh(b) => Held(stack', b)
    BY <2>1 DEF Fresh
  <2>. QED  BY <2>1 DEF Rests
<1>3. \A m \in 1..Len(stack') : Framed(stack'[m], r)
  BY <1>1 DEF Laid
<1>4. \A b \in Blocks' : b \in {cur} \/ b > nblocks => b \in Blocks /\ b = cur
  BY <1>1 DEF Blocks
<1>. QED  BY <1>1, <1>2, <1>3, <1>4, LaidNext

\* An instruction that is no jump is added to the open block.
LEMMA ActLaid ==
    ASSUME NEW r, Ready(r), LowerAct
    PROVE  Laid(r)'
<1>1. Admitted("act") /\ "act" \in Ops /\ ~Terminated(term, cur)
  BY DEF LowerAct, BlockStops, Ops, Simple
<1>2. /\ code' = AppendTo(code, cur, <<Here, "act">>)
      /\ UNCHANGED <<phase, nblocks, term, cur, stack>>
  BY DEF LowerAct
<1>3. /\ Grown(prog, "act", prog') /\ Later(prog, prog') /\ Len(prog') = Here /\ Here \in Nat \ {0}
      /\ prog'[Here] = "act" /\ Len(prog) = Here - 1 /\ phase = "lower" /\ cur \in Blocks
      /\ r[cur] \in Roles /\ Unended(prog, r[cur], code[cur]) /\ term[cur] = None
      /\ TypeOK
  BY <1>1, Lowers
<1>4. /\ code'[cur] = Append(code[cur], <<Here, "act">>)
      /\ \A b \in Blocks \ {cur} : code'[b] = code[b]
  BY <1>2, <1>3 DEF AppendTo, TypeOK, CodeTable, Blocks
<1>5. PICK s \in Nat : Runs(prog, r[cur], s, Len(prog) + 1) /\ code[cur] = Acts(s, Len(prog) + 1)
  BY <1>3 DEF Unended
<1>6. Len(prog) + 1 = Here /\ s \in 1..Here /\ \A i \in s..(Here - 1) : prog'[i] = "act"
  <2>1. Len(prog) + 1 = Here
    BY <1>3
  <2>2. Runs(prog', r[cur], s, Here)
    BY <1>3, <1>5, <2>1, RunsStays
  <2>. QED  BY <1>5, <2>1, <2>2 DEF Runs
<1>7. Begins(prog', r[cur], s)
  BY <1>3, <1>5, BeginsStays DEF Runs
<1>8. Runs(prog', r[cur], s, Here + 1)
  <2>1. s \in 1..(Len(prog') + 1) /\ Here + 1 \in s..(Len(prog') + 1)
    BY <1>3, <1>6
  <2>2. \A i \in s..(Here + 1 - 1) : i \in s..(Here - 1) \/ i = Here
    BY <1>3, <1>6
  <2>. QED  BY <1>3, <1>6, <1>7, <2>1, <2>2 DEF Runs
<1>9. code'[cur] = Acts(s, Here + 1)
  <2>1. code[cur] = Acts(s, Here)
    BY <1>5, <1>6
  <2>2. Append(Acts(s, Here), <<Here, "act">>) = Acts(s, Here + 1)
    <3>1. s \in Nat /\ Here \in Nat /\ s <= Here
      BY <1>3, <1>6
    <3>. QED  BY <3>1, ActsGrow, Zenon
  <2>. QED  BY <1>4, <2>1, <2>2
<1>10. Unended(prog', r[cur], code'[cur])
  BY <1>3, <1>8, <1>9 DEF Unended
<1>11. ASSUME NEW b \in Blocks, b = cur PROVE Open(b, r)'
  BY <1>2, <1>3, <1>10, <1>11 DEF Open
<1>. QED  BY <1>1, <1>2, <1>4, <1>11, OneLaid

\* A statement that ends the open block.
LEMMA EndsLaid ==
    ASSUME NEW r, Ready(r), NEW op \in Ops, Admitted(op), ~Terminated(term, cur),
           UNCHANGED <<stack, nblocks, code, cur>>,
           NEW t, term' = EmitTerm(term, cur, t), Ends(prog', r, Here, t)
    PROVE  Laid(r)'
<1>1. /\ Grown(prog, op, prog') /\ Len(prog') = Here /\ cur \in Blocks
      /\ r[cur] \in Roles /\ Unended(prog, r[cur], code[cur])
      /\ TypeOK
  BY Lowers
<1>2. term'[cur] = t /\ \A b \in Blocks \ {cur} : term'[b] = term[b]
  BY <1>1 DEF EmitTerm, TypeOK, TermTable, Blocks
<1>3. Done(prog', r, r[cur], code[cur], t)
  BY <1>1, CurrentEnds
<1>. QED  BY <1>2, <1>3, OneLaid

LEMMA ReturnLaid ==
    ASSUME NEW r, Ready(r), LowerReturn
    PROVE  Laid(r)'
<1>1. Admitted("return") /\ "return" \in Ops /\ ~Terminated(term, cur)
  BY DEF LowerReturn, BlockStops, Ops, Simple
<1>2. prog'[Here] = "return"
  BY <1>1, Lowers
<1>3. Ends(prog', r, Here, Ret(<<Here, "ret">>))
  BY <1>2 DEF Ends
<1>. QED  BY <1>1, <1>3, EndsLaid DEF LowerReturn

LEMMA JumpLaid ==
    ASSUME NEW r, Ready(r), NEW lp, Targeted(lp), NEW op \in {"break", "continue"}, LowerJump(op)
    PROVE  Laid(r)'
<1>1. Admitted(op) /\ op \in Ops /\ ~Terminated(term, cur) /\ ~BlockStops /\ stack' = stack
  BY DEF LowerJump, BlockStops, Ops, Simple
<1>2. /\ prog'[Here] = op /\ TypeOK /\ Len(prog') = Here /\ Here \in Nat /\ Laid(r)
      /\ Nesting /\ Skipping
  BY <1>1, Lowers DEF Ready
<1>3. [Next]_vars
  BY DEF Next, LowerNext
<1>4. targets # <<>>
  BY <1>1, <1>2, <1>3, JumpTarget
<1>5. PICK m \in 1..Len(stack) :
        /\ Live(stack[m]) /\ stack[m].op \in Loops
        /\ targets[Len(targets)] = TargetOf(stack[m])
        /\ InnermostLoop(prog', Here) = stack[m].at
  BY <1>1, <1>2, <1>3, JumpTarget
<1>. DEFINE f == stack[m]
            b == IF op = "break" THEN f.merge ELSE IF f.op = "for" THEN f.alt ELSE f.head
<1>6. term' = EmitTerm(term, cur, Br(b))
  <2>1. targets[Len(targets)].brk = f.merge
    BY <1>5 DEF TargetOf
  <2>2. targets[Len(targets)].cont = IF f.op = "for" THEN f.alt ELSE f.head
    BY <1>5 DEF TargetOf
  <2>. QED  BY <1>4, <2>1, <2>2 DEF LowerJump
<1>7. Framed(f, r)
  BY <1>2 DEF Laid
<1>8. prog'[f.at] = f.op
  <2>1. Nests(prog', stack)
    BY <1>1, <1>2, <1>3, NestingKept DEF Nesting
  <2>2. prog'[f.at] = IF f.op = "else" THEN "ifelse" ELSE f.op
    BY <1>2, <2>1, StackType, NestsAre
  <2>. QED  BY <1>5, <2>2 DEF Loops
<1>9. r[b] = IF op = "break" THEN <<"merge", f.at>> ELSE Again(prog', f.at)
  <2>. HIDE DEF f
  <2>. QED  BY <1>5, <1>7, <1>8 DEF Framed, Again, Loops, f
<1>10. Leads(prog', Here, r[b])
  <2>. HIDE DEF b
  <2>. QED  BY <1>2, <1>5, <1>9 DEF Leads
<1>11. Ends(prog', r, Here, Br(b))
  BY <1>10 DEF Ends, Br
<1>. HIDE DEF b
<1>. QED  BY <1>1, <1>6, <1>11, EndsLaid DEF LowerJump

\* A block behind an else or an end begins with the next token.
LEMMA BeginsBehind ==
    ASSUME NEW p, NEW k, NEW h \in Nat
    PROVE  /\ Closes(p, k, h) => Begins(p, <<"merge", k>>, h + 1)
           /\ h \in Elses(p, k) => Begins(p, <<"else", k>>, h + 1)
<1>. DEFINE s == h + 1
<1>1. s - 1 = h
  OBVIOUS
<1>. HIDE DEF s
<1>2. Closes(p, k, h) => Begins(p, <<"merge", k>>, s)
  BY <1>1 DEF Begins
<1>3. h \in Elses(p, k) => Begins(p, <<"else", k>>, s)
  BY <1>1 DEF Begins
<1>. QED  BY <1>2, <1>3 DEF s

\* The reserved blocks of the top frame.
LEMMA TopReserved ==
    ASSUME NEW r, Ready(r), phase = "lower", Turns \/ Pops, Live(Top)
    PROVE  /\ Top \in Frame /\ FrameOK(Top, nblocks) /\ Framed(Top, r)
           /\ Top.at \in Nat /\ Top.merge \in Reserved(Top)
           /\ Top.op \in {"ifelse", "for"} => Top.alt \in Reserved(Top) /\ Top.alt # Top.merge
           /\ Top.op \notin {"ifelse", "for"} => Reserved(Top) = {Top.merge}
           /\ \A b \in Reserved(Top) : b \in Blocks /\ b # cur /\ Fresh(b)
<1>1. TypeOK /\ ReservedOpen /\ Laid(r)
  BY DEF Ready
<1>2. Len(stack) \in 1..Len(stack) /\ Top = stack[Len(stack)]
  BY <1>1, StackType DEF Turns, Pops, Top
<1>3. Top \in Frame /\ FrameOK(Top, nblocks) /\ Framed(Top, r)
  BY <1>1, <1>2, StackType DEF Laid
<1>4. \A b \in Reserved(Top) : b \in Blocks /\ b # cur /\ Fresh(b)
  BY <1>1, <1>2, ReservedFresh
<1>5. Top.merge # 0 /\ (Top.alt # 0 <=> Top.op \in {"ifelse", "for"}) /\ Top.alt # Top.merge /\ Top.at \in Nat
  BY <1>3 DEF FrameOK, Live, Frame
<1>. QED  BY <1>3, <1>4, <1>5 DEF Reserved

\* The current block is closed, and one that was reserved becomes current.
LEMMA CloseLaid ==
    ASSUME NEW r, Ready(r), NEW op \in Ops, Admitted(op), UNCHANGED <<phase, nblocks, code>>,
           Turns \/ Pops, Live(Top),
           NEW t, Leads(prog', Here, r[t]), term' = CloseWith(term, cur, Br(t)),
           NEW d, cur' = d, d \in Reserved(Top), Begins(prog', r[d], Here + 1),
           Turns => d = Top.alt, Pops => Reserved(Top) = {d}
    PROVE  Laid(r)'
<1>1. /\ TypeOK /\ ReservedOpen /\ Sane(prog) /\ Laid(r) /\ phase = "lower"
      /\ Later(prog, prog') /\ Recast(nblocks, r, nblocks, r) /\ Len(prog') = Here
      /\ Blocks = 1..nblocks /\ nblocks \in Nat /\ cur \in Blocks /\ Here \in Nat
  BY Lowers
<1>2. d \in Blocks /\ d # cur /\ Fresh(d)
  BY <1>1, TopReserved
<1>3. \A b \in Blocks : b # cur => term'[b] = term[b]
  BY <1>1, CloseIs
<1>4. Rests({cur, d})
  <2>1. ASSUME NEW b \in Blocks \ {cur, d}
        PROVE  /\ code'[b] = code[b] /\ term'[b] = term[b]
               /\ b # cur \/ Terminated(term, b)
               /\ Fresh(b) => Held(stack', b)
    <3>1. Held(stack, b) => Held(stack', b)
      BY <1>1, TurnHolds
    <3>. QED  BY <1>3, <3>1 DEF Fresh
  <2>. QED  BY <2>1 DEF Rests
<1>5. \A m \in 1..Len(stack') : Framed(stack'[m], r)
  BY <1>1, TurnFramed
<1>6. Done(prog', r, r[cur], code[cur], term'[cur])
  BY <1>1, CurrentCloses
<1>7. Open(d, r)'
  <2>1. code'[d] = <<>> /\ term'[d] = None /\ phase' = "lower" /\ Len(prog') \in Nat
    BY <1>1, <1>2, <1>3 DEF Fresh
  <2>2. Unended(prog', r[d], code'[d])
    BY <1>1, <2>1, CurrentBegins
  <2>. QED  BY <2>1, <2>2 DEF Open
<1>8. \A b \in Blocks' : b \in {cur, d} \/ b > nblocks => b = cur \/ b = d
  BY <1>1 DEF Blocks
<1>9. \A b \in Blocks' : b \in {cur, d} \/ b > nblocks =>
         Done(prog', r, r[b], code'[b], term'[b]) \/ Open(b, r)' \/ Fresh(b)'
  BY <1>6, <1>7, <1>8
<1>. QED  BY <1>1, <1>4, <1>5, <1>9, LaidNext

LEMMA ElseLaid ==
    ASSUME NEW r, Ready(r), LowerElse
    PROVE  Laid(r)'
<1>1. /\ Admitted("else") /\ Top.op = "ifelse" /\ Live(Top) /\ "else" \in Ops
      /\ term' = CloseWith(term, cur, Br(Top.merge)) /\ cur' = Top.alt
      /\ UNCHANGED <<phase, nblocks, code>>
  BY DEF LowerElse, Ops
<1>2. /\ TypeOK /\ Sane(prog) /\ Nests(prog, stack) /\ Grown(prog, "else", prog') /\ phase = "lower"
      /\ Len(prog') = Here /\ Here \in Nat /\ prog'[Here] = "else"
  BY <1>1, Lowers
<1>3. Turns
  BY <1>1, <1>2, ElseTurns DEF LowerElse
<1>4. /\ Top \in Frame /\ Framed(Top, r) /\ Top.alt \in Reserved(Top)
  BY <1>1, <1>2, <1>3, TopReserved
<1>5. r[Top.merge] = <<"merge", Top.at>> /\ r[Top.alt] = <<"else", Top.at>>
  BY <1>1, <1>4 DEF Framed
<1>6. Here \in Elses(prog', Top.at)
  <2>1. Top = stack[Len(stack)]
    BY DEF Top
  <2>2. /\ Len(stack) # 0 /\ stack[Len(stack)].op = "ifelse" /\ Len(stack') = Len(stack)
        /\ \A m \in 1..(Len(stack) - 1) : stack'[m] = stack[m]
        /\ stack'[Len(stack)].op = "else" /\ stack'[Len(stack)].at = stack[Len(stack)].at
    BY <1>1, <1>3, <1>4, <2>1 DEF Turns, Keeps, Frame
  <2>. QED  BY <1>2, <2>1, <2>2, StackType, NestsElse
<1>7. Leads(prog', Here, r[Top.merge])
  BY <1>2, <1>5, <1>6 DEF Leads
<1>8. Begins(prog', r[Top.alt], Here + 1)
  BY <1>2, <1>5, <1>6, BeginsBehind
<1>9. ~Pops
  BY <1>1 DEF Pops
<1>. QED  BY <1>1, <1>3, <1>4, <1>7, <1>8, <1>9, CloseLaid

\* The end of the innermost statement.
LEMMA EndIs ==
    ASSUME NEW r, Ready(r), Admitted("end"), Pops
    PROVE  /\ Source!Innermost(Source!OpenAt(prog', Here - 1)) = Top.at
           /\ Closes(prog', Top.at, Here)
           /\ prog'[Top.at] = IF Top.op = "else" THEN "ifelse" ELSE Top.op
           /\ prog'[Here] = "end" /\ Top.at \in 1..Len(prog)
<1>1. /\ TypeOK /\ Sane(prog) /\ Nests(prog, stack) /\ Grown(prog, "end", prog')
      /\ Len(prog') = Here /\ Here \in Nat /\ prog'[Here] = "end" /\ Later(prog, prog')
      /\ Len(prog) = Here - 1
  BY Lowers DEF Ops
<1>2. /\ Stacked(stack) /\ Len(stack) # 0 /\ Len(stack) \in 1..Len(stack)
      /\ Top = stack[Len(stack)] /\ Len(prog) \in Nat
  BY <1>1, StackType DEF Pops, Top
<1>3. Source!Innermost(Source!OpenAt(prog, Len(prog))) = Top.at
  BY <1>1, <1>2, TopInnermost
<1>4. Source!OpenAt(prog', Len(prog)) = Source!OpenAt(prog, Len(prog))
  BY <1>1, <1>2, LaterBlocks
<1>5. Closes(prog', Top.at, Here)
  BY <1>1, <1>2, NestsPop DEF Pops, Keeps
<1>6. /\ Top.at \in 1..Len(prog)
      /\ prog[Top.at] = IF Top.op = "else" THEN "ifelse" ELSE Top.op
  BY <1>1, <1>2, NestsAre
<1>7. prog'[Top.at] = prog[Top.at]
  BY <1>1, <1>6, LaterTokens
<1>. QED  BY <1>1, <1>3, <1>4, <1>5, <1>6, <1>7

LEMMA EndIfLaid ==
    ASSUME NEW r, Ready(r), EndIf
    PROVE  Laid(r)'
<1>1. /\ Admitted("end") /\ Top.op \in {"if", "else"} /\ Live(Top) /\ "end" \in Ops
      /\ term' = CloseWith(term, cur, Br(Top.merge)) /\ cur' = Top.merge
      /\ UNCHANGED <<phase, nblocks, code>> /\ stack' = Pop
  BY DEF EndIf, Ops
<1>2. TypeOK /\ phase = "lower" /\ Here \in Nat
  BY <1>1, Lowers
<1>3. Pops
  BY <1>1, <1>2, EndPops
<1>4. Framed(Top, r) /\ Top.merge \in Reserved(Top) /\ Reserved(Top) = {Top.merge}
  BY <1>1, <1>2, <1>3, TopReserved
<1>5. r[Top.merge] = <<"merge", Top.at>>
  BY <1>1, <1>4 DEF Framed
<1>6. /\ Source!Innermost(Source!OpenAt(prog', Here - 1)) = Top.at
      /\ Closes(prog', Top.at, Here) /\ prog'[Top.at] \notin Loops /\ prog'[Here] = "end"
  BY <1>1, <1>3, EndIs DEF Loops
<1>7. Leads(prog', Here, r[Top.merge])
  BY <1>5, <1>6 DEF Leads
<1>8. Begins(prog', r[Top.merge], Here + 1)
  BY <1>2, <1>5, <1>6, BeginsBehind
<1>9. ~Turns
  BY <1>1 DEF Turns
<1>. QED  BY <1>1, <1>3, <1>4, <1>7, <1>8, <1>9, CloseLaid

LEMMA EndWhileLaid ==
    ASSUME NEW r, Ready(r), EndWhile
    PROVE  Laid(r)'
<1>1. /\ Admitted("end") /\ Top.op = "while" /\ Live(Top) /\ "end" \in Ops
      /\ term' = CloseWith(term, cur, Br(Top.head)) /\ cur' = Top.merge
      /\ UNCHANGED <<phase, nblocks, code>> /\ stack' = Pop
  BY DEF EndWhile, Ops
<1>2. TypeOK /\ phase = "lower" /\ Here \in Nat
  BY <1>1, Lowers
<1>3. Pops
  BY <1>1, <1>2, EndPops
<1>4. Framed(Top, r) /\ Top.merge \in Reserved(Top) /\ Reserved(Top) = {Top.merge}
  BY <1>1, <1>2, <1>3, TopReserved
<1>5. r[Top.merge] = <<"merge", Top.at>> /\ r[Top.head] = <<"cond", Top.at>>
  BY <1>1, <1>4 DEF Framed, Loops
<1>6. /\ Source!Innermost(Source!OpenAt(prog', Here - 1)) = Top.at
      /\ Closes(prog', Top.at, Here) /\ prog'[Top.at] = "while" /\ prog'[Here] = "end"
  BY <1>1, <1>3, EndIs
<1>7. Leads(prog', Here, r[Top.head])
  <2>1. r[Top.head] = Again(prog', Top.at) /\ prog'[Top.at] \in Loops
    BY <1>5, <1>6 DEF Again, Loops
  <2>. QED  BY <1>6, <2>1 DEF Leads
<1>8. Begins(prog', r[Top.merge], Here + 1)
  BY <1>2, <1>5, <1>6, BeginsBehind
<1>9. ~Turns
  BY <1>1 DEF Turns
<1>. QED  BY <1>1, <1>3, <1>4, <1>7, <1>8, <1>9, CloseLaid

\* The end of a for also fills its increment block.
LEMMA EndForLaid ==
    ASSUME NEW r, Ready(r), EndFor
    PROVE  Laid(r)'
<1>1. /\ Admitted("end") /\ Top.op = "for" /\ Live(Top) /\ "end" \in Ops
      /\ code' = AppendTo(code, Top.alt, <<Top.at, "inc">>)
      /\ term' = EmitTerm(CloseWith(term, cur, Br(Top.alt)), Top.alt, Br(Top.head))
      /\ cur' = Top.merge
      /\ UNCHANGED <<phase, nblocks>> /\ stack' = Pop
  BY DEF EndFor, Ops
<1>2. /\ TypeOK /\ ReservedOpen /\ Sane(prog) /\ Laid(r) /\ phase = "lower"
      /\ Later(prog, prog') /\ Recast(nblocks, r, nblocks, r) /\ Len(prog') = Here
      /\ Blocks = 1..nblocks /\ nblocks \in Nat /\ cur \in Blocks /\ Here \in Nat
      /\ Len(prog) = Here - 1
  BY <1>1, Lowers
<1>3. Pops
  BY <1>1, <1>2, EndPops
<1>4. PICK a, d : a = Top.alt /\ d = Top.merge
  OBVIOUS
<1>5. /\ Framed(Top, r) /\ Top.at \in Nat /\ Reserved(Top) \subseteq {a, d} /\ a # d
      /\ a \in Blocks /\ a # cur /\ Fresh(a) /\ d \in Blocks /\ d # cur /\ Fresh(d)
  <2>1. /\ Framed(Top, r) /\ Top.at \in Nat
        /\ Top.merge \in Reserved(Top) /\ Top.alt \in Reserved(Top) /\ Top.alt # Top.merge
        /\ \A b \in Reserved(Top) : b \in Blocks /\ b # cur /\ Fresh(b)
    BY <1>1, <1>2, <1>3, TopReserved
  <2>2. Reserved(Top) \subseteq {Top.alt, Top.merge}
    BY DEF Reserved
  <2>. QED  BY <1>4, <2>1, <2>2
<1>6. r[d] = <<"merge", Top.at>> /\ r[Top.head] = <<"cond", Top.at>> /\ r[a] = <<"inc", Top.at>>
  BY <1>1, <1>4, <1>5 DEF Framed, Loops
<1>7. /\ Source!Innermost(Source!OpenAt(prog', Here - 1)) = Top.at
      /\ Closes(prog', Top.at, Here) /\ prog'[Top.at] = "for" /\ prog'[Here] = "end"
      /\ Top.at \in 1..Len(prog)
  BY <1>1, <1>3, EndIs
<1>8. Leads(prog', Here, r[a])
  <2>1. r[a] = Again(prog', Top.at) /\ prog'[Top.at] \in Loops
    BY <1>6, <1>7 DEF Again, Loops
  <2>. QED  BY <1>7, <2>1 DEF Leads
<1>. DEFINE g == CloseWith(term, cur, Br(a))
<1>9. Done(prog', r, r[cur], code[cur], g[cur]) /\ \A b \in Blocks : b # cur => g[b] = term[b]
  BY <1>1, <1>2, <1>8, CurrentCloses, CloseIs
<1>10. /\ term'[a] = Br(Top.head) /\ \A b \in Blocks : b # a => term'[b] = g[b]
  <2>1. TermTable(g, nblocks)
    BY <1>2, <1>5, CloseType
  <2>2. g \in [Blocks -> Terminator]
    BY <1>2, <2>1 DEF TermTable
  <2>3. ~Terminated(g, a)
    BY <1>5, <1>9 DEF Fresh, Terminated, None
  <2>4. term' = EmitTerm(g, a, Br(Top.head))
    BY <1>1, <1>4
  <2>. HIDE DEF g
  <2>5. term' = [g EXCEPT ![a] = Br(Top.head)]
    BY <2>3, <2>4 DEF EmitTerm
  <2>. QED  BY <1>5, <2>2, <2>5
<1>11. /\ code'[a] = <<<<Top.at, "inc">>>> /\ \A b \in Blocks : b # a => code'[b] = code[b]
  <2>1. code \in [Blocks -> Seq(Event)]
    BY <1>2 DEF TypeOK, CodeTable
  <2>2. code' = [code EXCEPT ![a] = Append(code[a], <<Top.at, "inc">>)]
    BY <1>1, <1>4 DEF AppendTo
  <2>3. code[a] = <<>>
    BY <1>5 DEF Fresh
  <2>. QED  BY <1>5, <2>1, <2>2, <2>3
<1>. HIDE DEF g
<1>12. Done(prog', r, r[cur], code'[cur], term'[cur])
  BY <1>2, <1>5, <1>9, <1>10, <1>11
<1>13. Done(prog', r, r[a], code'[a], term'[a])
  <2>1. Top.at \in 1..Len(prog')
    BY <1>2, <1>7
  <2>2. Step(prog', r, r[a], code'[a], term'[a], Top.at)
    BY <1>6, <1>7, <1>10, <1>11, <2>1 DEF Step, Br
  <2>. QED  BY <1>5, <2>2 DEF Done
<1>14. Open(d, r)'
  <2>1. code'[d] = <<>> /\ term'[d] = None /\ phase' = "lower" /\ cur' = d
    BY <1>1, <1>2, <1>4, <1>5, <1>9, <1>10, <1>11 DEF Fresh
  <2>2. Begins(prog', r[d], Here + 1)
    BY <1>2, <1>6, <1>7, BeginsBehind
  <2>3. Unended(prog', r[d], code'[d])
    BY <1>2, <2>1, <2>2, CurrentBegins
  <2>. QED  BY <2>1, <2>3 DEF Open
<1>15. Rests({cur, a, d})
  <2>1. ASSUME NEW b \in Blocks \ {cur, a, d}
        PROVE  /\ code'[b] = code[b] /\ term'[b] = term[b]
               /\ b # cur \/ Terminated(term, b)
               /\ Fresh(b) => Held(stack', b)
    <3>1. Held(stack, b) => Held(stack', b)
      BY <1>2, <1>3, <1>5, TurnHolds
    <3>. QED  BY <1>9, <1>10, <1>11, <3>1 DEF Fresh
  <2>. QED  BY <2>1 DEF Rests
<1>16. \A m \in 1..Len(stack') : Framed(stack'[m], r)
  BY <1>2, <1>3, TurnFramed
<1>17. \A b \in Blocks' : b \in {cur, a, d} \/ b > nblocks => b = cur \/ b = a \/ b = d
  BY <1>1, <1>2 DEF Blocks
<1>18. \A b \in Blocks' : b \in {cur, a, d} \/ b > nblocks =>
         Done(prog', r, r[b], code'[b], term'[b]) \/ Open(b, r)' \/ Fresh(b)'
  BY <1>12, <1>13, <1>14, <1>17
<1>. QED  BY <1>1, <1>2, <1>15, <1>16, <1>18, LaidNext

\* The end of the body: the open block returns.
LEMMA FinishLaid ==
    ASSUME NEW r, Ready(r), Finish
    PROVE  Laid(r)'
<1>1. /\ TypeOK /\ ReservedOpen /\ Sane(prog) /\ Laid(r) /\ phase = "lower"
      /\ UNCHANGED <<prog, nblocks, code, cur, stack>> /\ phase' = "run"
  BY DEF Ready, Nesting, Finish
<1>2. /\ Later(prog, prog') /\ Recast(nblocks, r, nblocks, r)
      /\ Blocks = 1..nblocks /\ nblocks \in Nat /\ cur \in Blocks
  BY <1>1, SameRoles, BlockTypes DEF Later, Blocks, TypeOK
<1>3. CASE Terminated(term, cur)
  <2>1. term' = term
    BY <1>3 DEF Finish, EmitTerm
  <2>2. Rests({})
    <3>1. ASSUME NEW b \in Blocks
          PROVE  /\ code'[b] = code[b] /\ term'[b] = term[b]
                 /\ b # cur \/ Terminated(term, b)
                 /\ Fresh(b) => Held(stack', b)
      BY <1>1, <1>3, <2>1 DEF Fresh
    <3>. QED  BY <3>1 DEF Rests
  <2>3. \A b \in Blocks' : ~(b \in {} \/ b > nblocks)
    BY <1>1, <1>2 DEF Blocks
  <2>4. \A m \in 1..Len(stack') : Framed(stack'[m], r)
    BY <1>1 DEF Laid
  <2>. QED  BY <1>1, <1>2, <2>2, <2>3, <2>4, LaidNext
<1>4. CASE ~Terminated(term, cur)
  <2>1. term' = EmitTerm(term, cur, Ret(<<0, "exit">>))
    BY <1>4 DEF Finish, Terminated
  <2>2. term'[cur] = Ret(<<0, "exit">>) /\ \A b \in Blocks \ {cur} : term'[b] = term[b]
    BY <1>1, <1>2, <1>4, <2>1 DEF EmitTerm, TypeOK, TermTable
  <2>3. Unended(prog, r[cur], code[cur])
    BY <1>1, <1>4, CurrentOpen
  <2>4. ASSUME NEW b, b = cur PROVE Open(b, r)'
    BY <1>1, <2>2, <2>3, <2>4 DEF Open
  <2>5. Rests({cur})
    <3>1. ASSUME NEW b \in Blocks \ {cur}
          PROVE  /\ code'[b] = code[b] /\ term'[b] = term[b]
                 /\ b # cur \/ Terminated(term, b)
                 /\ Fresh(b) => Held(stack', b)
      BY <1>1, <2>2 DEF Fresh
    <3>. QED  BY <3>1 DEF Rests
  <2>6. \A b \in Blocks' : b \in {cur} \/ b > nblocks => b = cur
    BY <1>1, <1>2 DEF Blocks
  <2>7. \A m \in 1..Len(stack') : Framed(stack'[m], r)
    BY <1>1 DEF Laid
  <2>. QED  BY <1>1, <1>2, <2>4, <2>5, <2>6, <2>7, LaidNext
<1>. QED  BY <1>3, <1>4

-----------------------------------------------------------------------------
(* Statements with a body. *)

\* f has an entry for each of m blocks.
IsTable(f, m) == f = [b \in 1..m |-> f[b]]

LEMMA EmitsInto ==
    ASSUME NEW m, NEW f, IsTable(f, m), NEW b \in 1..m, ~Terminated(f, b), NEW t,
           NEW g, g = EmitTerm(f, b, t)
    PROVE  g[b] = t /\ IsTable(g, m) /\ \A d \in 1..m : d # b => g[d] = f[d]
<1>. DEFINE D == 1..m
<1>1. f = [d \in D |-> f[d]] /\ b \in D
  BY DEF IsTable
<1>2. g[b] = t /\ (\A d \in D : d # b => g[d] = f[d]) /\ g = [d \in D |-> g[d]]
  <2>. HIDE DEF D
  <2>. QED  BY <1>1, EmitIs
<1>. QED  BY <1>2 DEF IsTable

\* The tables with the new blocks in them.
LEMMA GrowsTo ==
    ASSUME TypeOK, NEW k \in Nat, NEW n, n = nblocks, NEW m, m = n + k,
           NEW g, g = Grow(term, k, None), NEW h, h = Grow(code, k, <<>>)
    PROVE  /\ IsTable(g, m) /\ IsTable(h, m)
           /\ \A b \in Blocks : b \in 1..m /\ g[b] = term[b] /\ h[b] = code[b]
           /\ \A b \in (n + 1)..m : b \in 1..m /\ b \notin Blocks /\ g[b] = None /\ h[b] = <<>>
<1>1. n \in Nat /\ Blocks = 1..n
  BY BlockTypes DEF Blocks
<1>2. g = [b \in 1..m |-> IF b <= n THEN term[b] ELSE None]
  BY DEF Grow
<1>3. h = [b \in 1..m |-> IF b <= n THEN code[b] ELSE <<>>]
  BY DEF Grow
<1>4. ASSUME NEW b \in Blocks PROVE b \in 1..m /\ g[b] = term[b] /\ h[b] = code[b]
  <2>1. b \in 1..m /\ b <= n
    BY <1>1, <1>4
  <2>. QED  BY <1>2, <1>3, <2>1
<1>5. ASSUME NEW b \in (n + 1)..m
      PROVE  b \in 1..m /\ b \notin Blocks /\ g[b] = None /\ h[b] = <<>>
  <2>1. b \in 1..m /\ ~(b <= n) /\ b \notin Blocks
    BY <1>1, <1>5
  <2>. QED  BY <1>2, <1>3, <2>1
<1>6. IsTable(g, m) /\ IsTable(h, m)
  BY <1>2, <1>3 DEF IsTable
<1>. QED  BY <1>4, <1>5, <1>6

\* The open block branches, and the new blocks are empty.
LEMMA BranchTables ==
    ASSUME TypeOK, ~Terminated(term, cur),
           NEW k \in Nat, NEW n, n = nblocks, NEW m, m = n + k, NEW t,
           code' = Grow(code, k, <<>>), term' = EmitTerm(Grow(term, k, None), cur, t)
    PROVE  /\ term'[cur] = t /\ code'[cur] = code[cur]
           /\ \A b \in Blocks : b # cur => code'[b] = code[b] /\ term'[b] = term[b]
           /\ \A b \in (n + 1)..m : code'[b] = <<>> /\ term'[b] = None
<1>1. PICK g : g = Grow(term, k, None)
  OBVIOUS
<1>2. PICK h : h = Grow(code, k, <<>>)
  OBVIOUS
<1>3. /\ IsTable(g, m) /\ IsTable(h, m)
      /\ \A b \in Blocks : b \in 1..m /\ g[b] = term[b] /\ h[b] = code[b]
      /\ \A b \in (n + 1)..m : b \in 1..m /\ b \notin Blocks /\ g[b] = None /\ h[b] = <<>>
  BY <1>1, <1>2, GrowsTo
<1>4. cur \in Blocks
  BY BlockTypes
<1>5. cur \in 1..m /\ ~Terminated(g, cur)
  BY <1>3, <1>4 DEF Terminated
<1>6. PICK e : e = EmitTerm(g, cur, t)
  OBVIOUS
<1>7. e[cur] = t /\ \A d \in 1..m : d # cur => e[d] = g[d]
  BY <1>3, <1>5, <1>6, EmitsInto
<1>8. code' = h /\ term' = e
  BY <1>1, <1>2, <1>6
<1>. QED  BY <1>3, <1>4, <1>7, <1>8

\* The open block branches to the first new block, and that one branches as well.
LEMMA EntryTables ==
    ASSUME TypeOK, ~Terminated(term, cur),
           NEW k \in Nat, k # 0, NEW n, n = nblocks, NEW m, m = n + k, NEW c, c = n + 1,
           NEW t, t.kind # "none", NEW u,
           term' = EmitTerm(EmitTerm(Grow(term, k, None), cur, t), c, u)
    PROVE  /\ term'[cur] = t /\ term'[c] = u
           /\ \A b \in Blocks : b # cur => term'[b] = term[b]
           /\ \A b \in (n + 1)..m : b # c => term'[b] = None
<1>1. PICK g : g = Grow(term, k, None)
  OBVIOUS
<1>2. PICK h : h = Grow(code, k, <<>>)
  OBVIOUS
<1>3. /\ IsTable(g, m)
      /\ \A b \in Blocks : b \in 1..m /\ g[b] = term[b]
      /\ \A b \in (n + 1)..m : b \in 1..m /\ b \notin Blocks /\ g[b] = None
  BY <1>1, <1>2, GrowsTo
<1>4. cur \in Blocks /\ c \in (n + 1)..m
  BY BlockTypes
<1>5. cur \in 1..m /\ ~Terminated(g, cur) /\ c \in 1..m /\ c # cur /\ c \notin Blocks
  BY <1>3, <1>4 DEF Terminated
<1>6. PICK e : e = EmitTerm(g, cur, t)
  OBVIOUS
<1>7. e[cur] = t /\ IsTable(e, m) /\ \A d \in 1..m : d # cur => e[d] = g[d]
  BY <1>3, <1>5, <1>6, EmitsInto
<1>8. e[c] = None
  BY <1>3, <1>4, <1>5, <1>7
<1>9. ~Terminated(e, c)
  BY <1>8 DEF Terminated, None
<1>10. PICK w : w = EmitTerm(e, c, u)
  OBVIOUS
<1>11. w[c] = u /\ \A d \in 1..m : d # c => w[d] = e[d]
  BY <1>5, <1>7, <1>9, <1>10, EmitsInto
<1>12. term' = w
  BY <1>1, <1>6, <1>10
<1>13. term'[cur] = t /\ term'[c] = u
  BY <1>5, <1>7, <1>11, <1>12
<1>14. ASSUME NEW b \in Blocks, b # cur PROVE term'[b] = term[b]
  <2>1. b \in 1..m /\ b # c
    BY <1>3, <1>5, <1>14
  <2>. QED  BY <1>3, <1>7, <1>11, <1>12, <1>14, <2>1
<1>15. ASSUME NEW b \in (n + 1)..m, b # c PROVE term'[b] = None
  <2>1. b \in 1..m /\ b # cur
    BY <1>3, <1>4
  <2>. QED  BY <1>3, <1>7, <1>11, <1>12, <1>15, <2>1
<1>. QED  BY <1>13, <1>14, <1>15

\* The code of the blocks, with the initialisation of a for added to the open one.
LEMMA InitTables ==
    ASSUME TypeOK, NEW k \in Nat, NEW n, n = nblocks, NEW m, m = n + k, NEW i,
           code' = AppendTo(Grow(code, k, <<>>), cur, i)
    PROVE  /\ code'[cur] = Append(code[cur], i)
           /\ \A b \in Blocks : b # cur => code'[b] = code[b]
           /\ \A b \in (n + 1)..m : code'[b] = <<>>
<1>1. PICK g : g = Grow(term, k, None)
  OBVIOUS
<1>2. PICK h : h = Grow(code, k, <<>>)
  OBVIOUS
<1>3. /\ IsTable(h, m)
      /\ \A b \in Blocks : b \in 1..m /\ h[b] = code[b]
      /\ \A b \in (n + 1)..m : b \in 1..m /\ b \notin Blocks /\ h[b] = <<>>
  BY <1>1, <1>2, GrowsTo
<1>4. cur \in Blocks /\ cur \in 1..m
  BY <1>3, BlockTypes
<1>5. code' = [h EXCEPT ![cur] = Append(h[cur], i)]
  BY <1>2 DEF AppendTo
<1>6. DOMAIN h = 1..m
  BY <1>3 DEF IsTable
<1>7. code'[cur] = Append(h[cur], i) /\ \A b \in 1..m : b # cur => code'[b] = h[b]
  <2>. DEFINE D == 1..m
  <2>. HIDE DEF D
  <2>1. cur \in D /\ DOMAIN h = D
    BY <1>4, <1>6 DEF D
  <2>2. code'[cur] = Append(h[cur], i) /\ \A b \in D : b # cur => code'[b] = h[b]
    BY <1>5, <2>1
  <2>. QED  BY <2>2 DEF D
<1>. QED  BY <1>3, <1>4, <1>7

\* The code of the blocks, with empty ones added.
LEMMA EmptyTables ==
    ASSUME TypeOK, NEW k \in Nat, NEW n, n = nblocks, NEW m, m = n + k,
           code' = Grow(code, k, <<>>)
    PROVE  /\ \A b \in Blocks : code'[b] = code[b]
           /\ \A b \in (n + 1)..m : code'[b] = <<>>
<1>1. PICK g : g = Grow(term, k, None)
  OBVIOUS
<1>2. PICK h : h = Grow(code, k, <<>>)
  OBVIOUS
<1>3. /\ \A b \in Blocks : h[b] = code[b]
      /\ \A b \in (n + 1)..m : h[b] = <<>>
  BY <1>1, <1>2, GrowsTo
<1>. QED  BY <1>2, <1>3

\* The new blocks' roles.
LEMMA NewRoles ==
    ASSUME TypeOK, NEW r, Laid(r), NEW k \in Nat, NEW f \in [1..k -> Roles],
           NEW n, n = nblocks, NEW m, m = n + k
    PROVE  \E r2 : Recast(n, r, m, r2) /\ \A j \in 1..k : r2[n + j] = f[j]
BY MoreRoles
LEMMA BodyBegins ==
    ASSUME NEW p, NEW h
    PROVE  Begins(p, <<"body", h>>, h + 1)
BY DEF Begins

\* What is left to show of a statement that creates blocks.
LEMMA OpensLaid ==
    ASSUME NEW r, Ready(r), NEW op \in Openers, Admitted(op),
           NEW k \in Nat, NEW n, n = nblocks, NEW r2, Recast(n, r, n + k, r2), nblocks' = n + k,
           NEW merge, NEW head, NEW alt, stack' = Push(op, merge, head, alt),
           \A b \in Blocks : b # cur => code'[b] = code[b] /\ term'[b] = term[b],
           Done(prog', r2, r[cur], code'[cur], term'[cur]),
           \A b \in (n + 1)..(n + k) :
              \/ Done(prog', r2, r2[b], code'[b], term'[b])
              \/ b = cur' /\ r2[b] = <<"body", Here>> /\ code'[b] = <<>> /\ term'[b] = None
              \/ b \in {merge, alt} /\ code'[b] = <<>> /\ term'[b] = None,
           merge # 0, r2[merge] = <<"merge", Here>>,
           op \in Loops => r2[head] = <<"cond", Here>>,
           op = "for" => r2[alt] = <<"inc", Here>>,
           op = "ifelse" => r2[alt] = <<"else", Here>>,
           phase' = phase
    PROVE  Laid(r2)'
<1>1. /\ TypeOK /\ Sane(prog) /\ Laid(r) /\ phase = "lower" /\ Later(prog, prog')
      /\ Len(prog') = Here /\ Here \in Nat
      /\ Blocks = 1..n /\ n \in Nat /\ cur \in Blocks
  BY Lowers, SMTT(20) DEF Ops
<1>2. /\ Pushes(op) /\ stack'[Len(stack')].merge = merge /\ stack'[Len(stack')].alt = alt
      /\ stack'[Len(stack')].head = head
  BY <1>1, PushPushes
<1>3. Len(stack') \in 1..Len(stack') /\ stack'[Len(stack')].op = op /\ stack'[Len(stack')].at = Here
  BY <1>1, <1>2, StackType DEF Pushes
<1>4. Rests({cur})
  <2>1. ASSUME NEW b \in Blocks \ {cur}
        PROVE  /\ code'[b] = code[b] /\ term'[b] = term[b]
               /\ b # cur \/ Terminated(term, b)
               /\ Fresh(b) => Held(stack', b)
    <3>1. Held(stack, b) => Held(stack', b)
      BY <1>1, <1>2, PushHolds
    <3>. QED  BY <3>1 DEF Fresh
  <2>. QED  BY <2>1 DEF Rests
<1>5. Framed(stack'[Len(stack')], r2)
  BY <1>2, <1>3 DEF Framed
<1>6. \A m \in 1..Len(stack') : Framed(stack'[m], r2)
  BY <1>1, <1>2, <1>5, PushFramed
<1>7. r2[cur] = r[cur]
  BY <1>1 DEF Recast
<1>8. ASSUME NEW b \in (n + 1)..(n + k)
      PROVE  Done(prog', r2, r2[b], code'[b], term'[b]) \/ Open(b, r2)' \/ Fresh(b)'
  <2>1. CASE b = cur' /\ r2[b] = <<"body", Here>> /\ code'[b] = <<>> /\ term'[b] = None
    <3>1. Begins(prog', r2[b], Here + 1)
      BY <2>1, BodyBegins
    <3>2. Unended(prog', r2[b], code'[b])
      BY <1>1, <2>1, <3>1, CurrentBegins
    <3>3. Open(b, r2)'
      BY <1>1, <2>1, <3>2 DEF Open
    <3>. QED  BY <3>3
  <2>2. CASE b \in {merge, alt} /\ code'[b] = <<>> /\ term'[b] = None
    <3>1. b # 0
      BY <1>1
    <3>2. b \in Reserved(stack'[Len(stack')])
      BY <1>2, <2>2, <3>1 DEF Reserved
    <3>3. Held(stack', b)
      BY <1>3, <3>2 DEF Held
    <3>4. Fresh(b)'
      BY <2>2, <3>3 DEF Fresh
    <3>. QED  BY <3>4
  <2>. QED  BY <2>1, <2>2
<1>9. \A b \in Blocks' : b \in {cur} \/ b > n => b = cur \/ b \in (n + 1)..(n + k)
  BY <1>1 DEF Blocks
<1>10. \A b \in Blocks' : b \in {cur} \/ b > n =>
         Done(prog', r2, r2[b], code'[b], term'[b]) \/ Open(b, r2)' \/ Fresh(b)'
  BY <1>7, <1>8, <1>9
<1>. QED  BY <1>1, <1>4, <1>6, <1>10, LaidNext

LEMMA IfLaid ==
    ASSUME NEW r, Ready(r), LowerIf("value")
    PROVE  \E r2 : Laid(r2)'
<1>. DEFINE f == [j \in 1..2 |-> <<IF j = 1 THEN "body" ELSE "merge", Here>>]
<1>0. PICK n : n = nblocks
  OBVIOUS
<1>1. PICK m : m = n + 2
  OBVIOUS
<1>2. PICK t : t = Cbr(<<Here, "cond">>, n + 1, n + 2)
  OBVIOUS
<1>3. /\ Admitted("if") /\ ~Terminated(term, cur) /\ "if" \in Openers /\ "if" \in Ops
      /\ nblocks' = n + 2 /\ cur' = n + 1 /\ code' = Grow(code, 2, <<>>)
      /\ term' = EmitTerm(Grow(term, 2, None), cur, t)
      /\ stack' = Push("if", n + 2, 0, 0) /\ phase' = phase
  BY <1>0, <1>2 DEF LowerIf, BlockStops, CondCode, CondTerm, Openers, Ops
<1>4. /\ TypeOK /\ Laid(r) /\ Grown(prog, "if", prog') /\ Len(prog') = Here
      /\ Here \in Nat \ {0} /\ prog'[Here] = "if" /\ n \in Nat
      /\ r[cur] \in Roles /\ Unended(prog, r[cur], code[cur])
  BY <1>0, <1>3, Lowers
<1>5. /\ term'[cur] = t /\ code'[cur] = code[cur]
      /\ \A b \in Blocks : b # cur => code'[b] = code[b] /\ term'[b] = term[b]
      /\ \A b \in (n + 1)..m : code'[b] = <<>> /\ term'[b] = None
  BY <1>0, <1>1, <1>3, <1>4, BranchTables
<1>6. f \in [1..2 -> Roles] /\ f[1] = <<"body", Here>> /\ f[2] = <<"merge", Here>>
  BY <1>4 DEF Roles
<1>. HIDE DEF f
<1>7. PICK r2 : Recast(n, r, m, r2) /\ \A j \in 1..2 : r2[n + j] = f[j]
  <2>1. PICK k : k = 2
    OBVIOUS
  <2>2. k \in Nat /\ f \in [1..k -> Roles] /\ m = n + k
    BY <1>0, <1>1, <1>4, <1>6, <2>1
  <2>3. \E r2 : Recast(n, r, m, r2) /\ \A j \in 1..k : r2[n + j] = f[j]
    <3>1. TypeOK /\ Laid(r) /\ n = nblocks
      BY <1>0, <1>4
    <3>. QED  BY <2>2, <3>1, NewRoles
  <2>. QED  BY <2>1, <2>3
<1>8. r2[n + 1] = <<"body", Here>> /\ r2[n + 2] = <<"merge", Here>>
  BY <1>6, <1>7
<1>9. Done(prog', r2, r[cur], code'[cur], term'[cur])
  <2>1. t.t = n + 1 /\ t.f = n + 2
    BY <1>2 DEF Cbr
  <2>2. Ends(prog', r2, Len(prog'), t)
    BY <1>2, <1>4, <1>8, <2>1 DEF Ends
  <2>3. Done(prog', r2, r[cur], code[cur], t)
    BY <1>4, <2>2, CurrentEnds
  <2>. QED  BY <1>5, <2>3
<1>10. \A b \in (n + 1)..m :
              \/ Done(prog', r2, r2[b], code'[b], term'[b])
              \/ b = cur' /\ r2[b] = <<"body", Here>> /\ code'[b] = <<>> /\ term'[b] = None
              \/ b \in {n + 2, 0} /\ code'[b] = <<>> /\ term'[b] = None
  <2>1. \A b \in (n + 1)..m : b = n + 1 \/ b = n + 2
    BY <1>1, <1>4
  <2>. QED  BY <1>3, <1>5, <1>8, <2>1
<1>11. n + 2 # 0 /\ "if" \notin Loops
  BY <1>4 DEF Loops
<1>. QED  BY <1>0, <1>1, <1>3, <1>5, <1>7, <1>8, <1>9, <1>10, <1>11, OpensLaid

LEMMA IfElseLaid ==
    ASSUME NEW r, Ready(r), LowerIfElse("value")
    PROVE  \E r2 : Laid(r2)'
<1>. DEFINE f == [j \in 1..3 |-> <<IF j = 1 THEN "body" ELSE IF j = 2 THEN "else" ELSE "merge", Here>>]
<1>0. PICK n : n = nblocks
  OBVIOUS
<1>1. PICK m : m = n + 3
  OBVIOUS
<1>2. PICK t : t = Cbr(<<Here, "cond">>, n + 1, n + 2)
  OBVIOUS
<1>3. /\ Admitted("ifelse") /\ ~Terminated(term, cur) /\ "ifelse" \in Openers /\ "ifelse" \in Ops
      /\ nblocks' = n + 3 /\ cur' = n + 1 /\ code' = Grow(code, 3, <<>>)
      /\ term' = EmitTerm(Grow(term, 3, None), cur, t)
      /\ stack' = Push("ifelse", n + 3, 0, n + 2) /\ phase' = phase
  BY <1>0, <1>2 DEF LowerIfElse, BlockStops, CondCode, CondTerm, Openers, Ops
<1>4. /\ TypeOK /\ Laid(r) /\ Grown(prog, "ifelse", prog') /\ Len(prog') = Here
      /\ Here \in Nat \ {0} /\ prog'[Here] = "ifelse" /\ n \in Nat
      /\ r[cur] \in Roles /\ Unended(prog, r[cur], code[cur])
  BY <1>0, <1>3, Lowers
<1>5. /\ term'[cur] = t /\ code'[cur] = code[cur]
      /\ \A b \in Blocks : b # cur => code'[b] = code[b] /\ term'[b] = term[b]
      /\ \A b \in (n + 1)..m : code'[b] = <<>> /\ term'[b] = None
  BY <1>0, <1>1, <1>3, <1>4, BranchTables
<1>6. f \in [1..3 -> Roles] /\ f[1] = <<"body", Here>> /\ f[2] = <<"else", Here>> /\ f[3] = <<"merge", Here>>
  BY <1>4 DEF Roles
<1>. HIDE DEF f
<1>7. PICK r2 : Recast(n, r, m, r2) /\ \A j \in 1..3 : r2[n + j] = f[j]
  <2>1. PICK k : k = 3
    OBVIOUS
  <2>2. k \in Nat /\ f \in [1..k -> Roles] /\ m = n + k
    BY <1>0, <1>1, <1>4, <1>6, <2>1
  <2>3. \E r2 : Recast(n, r, m, r2) /\ \A j \in 1..k : r2[n + j] = f[j]
    <3>1. TypeOK /\ Laid(r) /\ n = nblocks
      BY <1>0, <1>4
    <3>. QED  BY <2>2, <3>1, NewRoles
  <2>. QED  BY <2>1, <2>3
<1>8. r2[n + 1] = <<"body", Here>> /\ r2[n + 2] = <<"else", Here>> /\ r2[n + 3] = <<"merge", Here>>
  BY <1>6, <1>7
<1>9. Done(prog', r2, r[cur], code'[cur], term'[cur])
  <2>1. t.t = n + 1 /\ t.f = n + 2
    BY <1>2 DEF Cbr
  <2>2. Ends(prog', r2, Len(prog'), t)
    BY <1>2, <1>4, <1>8, <2>1 DEF Ends
  <2>3. Done(prog', r2, r[cur], code[cur], t)
    BY <1>4, <2>2, CurrentEnds
  <2>. QED  BY <1>5, <2>3
<1>10. \A b \in (n + 1)..m :
              \/ Done(prog', r2, r2[b], code'[b], term'[b])
              \/ b = cur' /\ r2[b] = <<"body", Here>> /\ code'[b] = <<>> /\ term'[b] = None
              \/ b \in {n + 3, n + 2} /\ code'[b] = <<>> /\ term'[b] = None
  <2>1. \A b \in (n + 1)..m : b = n + 1 \/ b = n + 2 \/ b = n + 3
    BY <1>1, <1>4
  <2>. QED  BY <1>3, <1>5, <1>8, <2>1
<1>11. n + 3 # 0 /\ "ifelse" \notin Loops
  BY <1>4 DEF Loops
<1>. QED  BY <1>0, <1>1, <1>3, <1>5, <1>7, <1>8, <1>9, <1>10, <1>11, OpensLaid

LEMMA WhileLaid ==
    ASSUME NEW r, Ready(r), LowerWhile("value")
    PROVE  \E r2 : Laid(r2)'
<1>. DEFINE f == [j \in 1..3 |-> <<IF j = 1 THEN "cond" ELSE IF j = 2 THEN "body" ELSE "merge", Here>>]
<1>0. PICK n : n = nblocks
  OBVIOUS
<1>1. PICK m : m = n + 3
  OBVIOUS
<1>2. PICK t : t = Br(n + 1)
  OBVIOUS
<1>3. PICK u : u = Cbr(<<Here, "cond">>, n + 2, n + 3)
  OBVIOUS
<1>4. /\ Admitted("while") /\ ~Terminated(term, cur) /\ "while" \in Openers /\ "while" \in Ops
      /\ nblocks' = n + 3 /\ cur' = n + 2 /\ code' = Grow(code, 3, <<>>)
      /\ term' = EmitTerm(EmitTerm(Grow(term, 3, None), cur, t), n + 1, u)
      /\ stack' = Push("while", n + 3, n + 1, 0) /\ phase' = phase
  BY <1>0, <1>2, <1>3 DEF LowerWhile, BlockStops, CondCode, CondTerm, Openers, Ops, Loops
<1>5. /\ TypeOK /\ Laid(r) /\ Grown(prog, "while", prog') /\ Later(prog, prog') /\ Len(prog') = Here
      /\ Here \in Nat \ {0} /\ prog'[Here] = "while" /\ Len(prog) = Here - 1 /\ n \in Nat
      /\ r[cur] \in Roles /\ Unended(prog, r[cur], code[cur])
  BY <1>0, <1>4, Lowers
<1>6. /\ term'[cur] = t /\ term'[n + 1] = u
      /\ \A b \in Blocks : b # cur => term'[b] = term[b]
      /\ \A b \in (n + 1)..m : b # n + 1 => term'[b] = None
  <2>1. t.kind # "none"
    BY <1>2 DEF Br
  <2>2. PICK c : c = n + 1
    OBVIOUS
  <2>3. PICK k : k = 3
    OBVIOUS
  <2>4. k \in Nat /\ k # 0 /\ m = n + k
    BY <1>1, <2>3
  <2>5. term' = EmitTerm(EmitTerm(Grow(term, k, None), cur, t), c, u)
    BY <1>4, <2>2, <2>3
  <2>6. /\ term'[cur] = t /\ term'[c] = u
        /\ \A b \in Blocks : b # cur => term'[b] = term[b]
        /\ \A b \in (n + 1)..m : b # c => term'[b] = None
    <3>1. TypeOK /\ ~Terminated(term, cur) /\ n = nblocks
      BY <1>0, <1>4, <1>5
    <3>. QED  BY <2>1, <2>2, <2>4, <2>5, <3>1, EntryTables
  <2>. QED  BY <2>2, <2>6
<1>7. /\ code'[cur] = code[cur]
      /\ \A b \in Blocks : b # cur => code'[b] = code[b]
      /\ \A b \in (n + 1)..m : code'[b] = <<>>
  BY <1>0, <1>1, <1>4, <1>5, EmptyTables, BlockTypes
<1>8. f \in [1..3 -> Roles] /\ f[1] = <<"cond", Here>> /\ f[2] = <<"body", Here>> /\ f[3] = <<"merge", Here>>
  BY <1>5 DEF Roles
<1>. HIDE DEF f
<1>9. PICK r2 : Recast(n, r, m, r2) /\ \A j \in 1..3 : r2[n + j] = f[j]
  <2>1. PICK k : k = 3
    OBVIOUS
  <2>2. k \in Nat /\ f \in [1..k -> Roles] /\ m = n + k
    BY <1>0, <1>1, <1>5, <1>8, <2>1
  <2>3. \E r2 : Recast(n, r, m, r2) /\ \A j \in 1..k : r2[n + j] = f[j]
    <3>1. TypeOK /\ Laid(r) /\ n = nblocks
      BY <1>0, <1>5
    <3>. QED  BY <2>2, <3>1, NewRoles
  <2>. QED  BY <2>1, <2>3
<1>10. r2[n + 1] = <<"cond", Here>> /\ r2[n + 2] = <<"body", Here>> /\ r2[n + 3] = <<"merge", Here>>
  BY <1>8, <1>9
<1>11. Done(prog', r2, r[cur], code'[cur], term'[cur])
  <2>1. Leads(prog', Len(prog'), r2[n + 1])
    BY <1>5, <1>10 DEF Leads
  <2>2. t.t = n + 1 /\ t = Br(t.t)
    BY <1>2 DEF Br
  <2>3. Ends(prog', r2, Len(prog'), t)
    BY <2>1, <2>2 DEF Ends
  <2>4. Done(prog', r2, r[cur], code[cur], t)
    BY <1>5, <2>3, CurrentEnds
  <2>. QED  BY <1>5, <1>6, <1>7, <2>4
<1>12. Done(prog', r2, r2[n + 1], code'[n + 1], term'[n + 1])
  <2>1. Here \in 1..Len(prog') /\ n + 1 \in (n + 1)..m /\ prog'[Here] \in Loops
    BY <1>1, <1>5 DEF Loops
  <2>2. u.t = n + 2 /\ u.f = n + 3 /\ code'[n + 1] = <<>>
    BY <1>3, <1>7, <2>1 DEF Cbr
  <2>3. Test(prog', r2, r2[n + 1], code'[n + 1], u, Here)
    BY <1>3, <1>10, <2>1, <2>2 DEF Test
  <2>. QED  BY <1>5, <1>6, <2>3 DEF Done
<1>13. \A b \in (n + 1)..m :
              \/ Done(prog', r2, r2[b], code'[b], term'[b])
              \/ b = cur' /\ r2[b] = <<"body", Here>> /\ code'[b] = <<>> /\ term'[b] = None
              \/ b \in {n + 3, 0} /\ code'[b] = <<>> /\ term'[b] = None
  <2>1. \A b \in (n + 1)..m : b = n + 1 \/ (b # n + 1 /\ (b = n + 2 \/ b = n + 3))
    BY <1>1, <1>5
  <2>. QED  BY <1>4, <1>6, <1>7, <1>10, <1>12, <2>1
<1>14. n + 3 # 0
  BY <1>5
<1>. QED  BY <1>0, <1>1, <1>4, <1>6, <1>7, <1>9, <1>10, <1>11, <1>13, <1>14, OpensLaid

LEMMA ForLaid ==
    ASSUME NEW r, Ready(r), LowerFor("value")
    PROVE  \E r2 : Laid(r2)'
<1>. DEFINE f == [j \in 1..4 |-> <<IF j = 1 THEN "cond" ELSE IF j = 2 THEN "body" ELSE IF j = 3 THEN "inc" ELSE "merge", Here>>]
<1>0. PICK n : n = nblocks
  OBVIOUS
<1>1. PICK m : m = n + 4
  OBVIOUS
<1>2. PICK t : t = Br(n + 1)
  OBVIOUS
<1>3. PICK u : u = Cbr(<<Here, "cond">>, n + 2, n + 4)
  OBVIOUS
<1>4. /\ Admitted("for") /\ ~Terminated(term, cur) /\ "for" \in Openers /\ "for" \in Ops
      /\ nblocks' = n + 4 /\ cur' = n + 2 /\ code' = AppendTo(Grow(code, 4, <<>>), cur, <<Here, "init">>)
      /\ term' = EmitTerm(EmitTerm(Grow(term, 4, None), cur, t), n + 1, u)
      /\ stack' = Push("for", n + 4, n + 1, n + 3) /\ phase' = phase
  BY <1>0, <1>2, <1>3 DEF LowerFor, BlockStops, CondCode, CondTerm, Openers, Ops, Loops
<1>5. /\ TypeOK /\ Laid(r) /\ Grown(prog, "for", prog') /\ Later(prog, prog') /\ Len(prog') = Here
      /\ Here \in Nat \ {0} /\ prog'[Here] = "for" /\ Len(prog) = Here - 1 /\ n \in Nat
      /\ r[cur] \in Roles /\ Unended(prog, r[cur], code[cur])
  BY <1>0, <1>4, Lowers
<1>6. /\ term'[cur] = t /\ term'[n + 1] = u
      /\ \A b \in Blocks : b # cur => term'[b] = term[b]
      /\ \A b \in (n + 1)..m : b # n + 1 => term'[b] = None
  <2>1. t.kind # "none"
    BY <1>2 DEF Br
  <2>2. PICK c : c = n + 1
    OBVIOUS
  <2>3. PICK k : k = 4
    OBVIOUS
  <2>4. k \in Nat /\ k # 0 /\ m = n + k
    BY <1>1, <2>3
  <2>5. term' = EmitTerm(EmitTerm(Grow(term, k, None), cur, t), c, u)
    BY <1>4, <2>2, <2>3
  <2>6. /\ term'[cur] = t /\ term'[c] = u
        /\ \A b \in Blocks : b # cur => term'[b] = term[b]
        /\ \A b \in (n + 1)..m : b # c => term'[b] = None
    <3>1. TypeOK /\ ~Terminated(term, cur) /\ n = nblocks
      BY <1>0, <1>4, <1>5
    <3>. QED  BY <2>1, <2>2, <2>4, <2>5, <3>1, EntryTables
  <2>. QED  BY <2>2, <2>6
<1>7. /\ code'[cur] = Append(code[cur], <<Here, "init">>)
      /\ \A b \in Blocks : b # cur => code'[b] = code[b]
      /\ \A b \in (n + 1)..m : code'[b] = <<>>
  <2>1. PICK k : k = 4
    OBVIOUS
  <2>2. PICK i : i = <<Here, "init">>
    OBVIOUS
  <2>3. k \in Nat /\ m = n + k
    BY <1>1, <2>1
  <2>4. code' = AppendTo(Grow(code, k, <<>>), cur, i)
    BY <1>4, <2>1, <2>2
  <2>5. /\ code'[cur] = Append(code[cur], i)
        /\ \A b \in Blocks : b # cur => code'[b] = code[b]
        /\ \A b \in (n + 1)..m : code'[b] = <<>>
    BY <1>0, <1>5, <2>3, <2>4, InitTables
  <2>. QED  BY <2>2, <2>5
<1>8. f \in [1..4 -> Roles] /\ f[1] = <<"cond", Here>> /\ f[2] = <<"body", Here>> /\ f[3] = <<"inc", Here>> /\ f[4] = <<"merge", Here>>
  BY <1>5 DEF Roles
<1>. HIDE DEF f
<1>9. PICK r2 : Recast(n, r, m, r2) /\ \A j \in 1..4 : r2[n + j] = f[j]
  <2>1. PICK k : k = 4
    OBVIOUS
  <2>2. k \in Nat /\ f \in [1..k -> Roles] /\ m = n + k
    BY <1>0, <1>1, <1>5, <1>8, <2>1
  <2>3. \E r2 : Recast(n, r, m, r2) /\ \A j \in 1..k : r2[n + j] = f[j]
    <3>1. TypeOK /\ Laid(r) /\ n = nblocks
      BY <1>0, <1>5
    <3>. QED  BY <2>2, <3>1, NewRoles
  <2>. QED  BY <2>1, <2>3
<1>10. r2[n + 1] = <<"cond", Here>> /\ r2[n + 2] = <<"body", Here>> /\ r2[n + 3] = <<"inc", Here>> /\ r2[n + 4] = <<"merge", Here>>
  BY <1>8, <1>9
<1>11. Done(prog', r2, r[cur], code'[cur], term'[cur])
  <2>1. PICK s \in Nat : Runs(prog, r[cur], s, Len(prog) + 1) /\ code[cur] = Acts(s, Len(prog) + 1)
    BY <1>5 DEF Unended
  <2>2. Len(prog) + 1 = Here
    BY <1>5
  <2>3. Runs(prog', r[cur], s, Here)
    BY <1>5, <2>1, <2>2, RunsStays
  <2>4. term'[cur] = t /\ t = Br(t.t) /\ r2[t.t] = <<"cond", Here>>
    BY <1>2, <1>6, <1>10 DEF Br
  <2>5. code'[cur] = Append(Acts(s, Here), <<Here, "init">>)
    BY <1>7, <2>1, <2>2
  <2>6. Here <= Len(prog')
    BY <1>5
  <2>7. Line(prog', r2, r[cur], code'[cur], term'[cur], s, Here)
    BY <1>5, <2>3, <2>4, <2>5, <2>6 DEF Line
  <2>. QED  BY <1>5, <2>7 DEF Done
<1>12. Done(prog', r2, r2[n + 1], code'[n + 1], term'[n + 1])
  <2>1. Here \in 1..Len(prog') /\ n + 1 \in (n + 1)..m /\ prog'[Here] \in Loops
    BY <1>1, <1>5 DEF Loops
  <2>2. u.t = n + 2 /\ u.f = n + 4 /\ code'[n + 1] = <<>>
    BY <1>3, <1>7, <2>1 DEF Cbr
  <2>3. Test(prog', r2, r2[n + 1], code'[n + 1], u, Here)
    BY <1>3, <1>10, <2>1, <2>2 DEF Test
  <2>. QED  BY <1>5, <1>6, <2>3 DEF Done
<1>13. \A b \in (n + 1)..m :
              \/ Done(prog', r2, r2[b], code'[b], term'[b])
              \/ b = cur' /\ r2[b] = <<"body", Here>> /\ code'[b] = <<>> /\ term'[b] = None
              \/ b \in {n + 4, n + 3} /\ code'[b] = <<>> /\ term'[b] = None
  <2>1. \A b \in (n + 1)..m : b = n + 1 \/ (b # n + 1 /\ (b = n + 2 \/ b = n + 3 \/ b = n + 4))
    BY <1>1, <1>5
  <2>. QED  BY <1>4, <1>6, <1>7, <1>10, <1>12, <2>1
<1>14. n + 4 # 0
  BY <1>5
<1>. QED  BY <1>0, <1>1, <1>4, <1>6, <1>7, <1>9, <1>10, <1>11, <1>13, <1>14, OpensLaid

-----------------------------------------------------------------------------
(* The blocks are laid out as the source is, at every step. *)

Flow ==
  /\ Nesting /\ Skipping
  /\ \E lp : Targeted(lp)
  /\ \E r : Laid(r)
  /\ phase = "run" => stack = <<>>

LEMMA InitFlow == Init => Flow
<1>. SUFFICES ASSUME Init PROVE Flow
  OBVIOUS
<1>1. /\ prog = <<>> /\ phase = "lower" /\ nblocks = 1 /\ cur = 1 /\ stack = <<>> /\ targets = <<>>
      /\ code = [b \in 1..1 |-> <<>>] /\ term = [b \in 1..1 |-> None]
  BY DEF Init
<1>2. Nesting
  BY InitNesting
<1>3. Len(stack) = 0 /\ Len(targets) = 0 /\ Len(prog) = 0
  BY <1>1
<1>4. Skipping
  BY <1>3 DEF Skipping
<1>5. ASSUME NEW lp PROVE Targeted(lp)
  BY <1>3 DEF Targeted
<1>6. PICK r : r = [b \in Blocks |-> <<"entry", 1>>]
  OBVIOUS
<1>7. Blocks = {1}
  BY <1>1 DEF Blocks
<1>8. r[1] = <<"entry", 1>> /\ r \in [Blocks -> Roles]
  BY <1>6, <1>7 DEF Roles
<1>9. code[1] = <<>> /\ term[1] = None
  BY <1>1
<1>10. Begins(prog, r[1], Len(prog) + 1)
  BY <1>3, <1>8 DEF Begins
<1>11. Unended(prog, r[1], <<>>)
  BY <1>3, <1>10, CurrentBegins
<1>12. Open(1, r)
  BY <1>1, <1>9, <1>11 DEF Open
<1>13. Laid(r)
  BY <1>3, <1>7, <1>8, <1>12 DEF Laid
<1>. QED  BY <1>1, <1>2, <1>4, <1>5, <1>13 DEF Flow

\* While the blocks are run, they stay.
LEMMA RunLaid ==
    ASSUME NEW r, Laid(r), UNCHANGED <<prog, phase, nblocks, code, term, cur, stack, targets>>
    PROVE  Laid(r)'
<1>1. Blocks' = Blocks
  BY DEF Blocks
<1>2. ASSUME NEW m \in 1..Len(stack) PROVE Framed(stack[m], r)
  BY DEF Laid
<1>3. ASSUME NEW b \in Blocks, Open(b, r) PROVE Open(b, r)'
  BY <1>3 DEF Open
<1>4. ASSUME NEW b \in Blocks, Fresh(b) PROVE Fresh(b)'
  BY <1>4 DEF Fresh
<1>5. ASSUME NEW b \in Blocks
      PROVE  Done(prog', r, r[b], code'[b], term'[b]) \/ Open(b, r)' \/ Fresh(b)'
  BY <1>3, <1>4 DEF Laid
<1>6. r \in [Blocks -> Roles] /\ r[1] = <<"entry", 1>>
  BY DEF Laid
<1>7. \A m \in 1..Len(stack') : Framed(stack'[m], r)
  BY <1>2
<1>8. \A b \in Blocks' : Done(prog', r, r[b], code'[b], term'[b]) \/ Open(b, r)' \/ Fresh(b)'
  BY <1>1, <1>5
<1>. QED  BY <1>1, <1>6, <1>7, <1>8 DEF Laid

LEMMA LowerLaid ==
    ASSUME CondYields = {"value"}, NEW r, Ready(r), NEW lp, Targeted(lp), LowerNext
    PROVE  \E r2 : Laid(r2)'
<1>1. ASSUME NEW op \in Simple, SkipSimple(op) PROVE Laid(r)'
  BY <1>1, SkipsLaid DEF Ops
<1>2. ASSUME NEW op \in Openers, SkipOpen(op) PROVE Laid(r)'
  BY <1>2, SkipsLaid DEF Ops
<1>3. CASE SkipElse \/ SkipEnd
  <2>1. "act" \in Ops
    BY DEF Ops, Simple
  <2>2. Laid(r)'
    BY <1>3, <2>1, SkipsLaid
  <2>. QED  BY <2>2
<1>4. CASE LowerAct \/ LowerReturn \/ LowerElse \/ EndIf \/ EndWhile \/ EndFor \/ Finish
  <2>1. Laid(r)'
    BY <1>4, ActLaid, ReturnLaid, ElseLaid, EndIfLaid, EndWhileLaid, EndForLaid, FinishLaid
  <2>. QED  BY <2>1
<1>5. ASSUME NEW op \in {"break", "continue"}, LowerJump(op) PROVE Laid(r)'
  BY <1>5, JumpLaid
<1>6. CASE LowerIf("value") \/ LowerIfElse("value") \/ LowerWhile("value") \/ LowerFor("value")
  BY <1>6, IfLaid, IfElseLaid, WhileLaid, ForLaid
<1>. QED  BY <1>1, <1>2, <1>3, <1>4, <1>5, <1>6 DEF LowerNext

LEMMA FlowKept ==
    ASSUME CondYields = {"value"}, TypeOK, ReservedOpen, Flow, [Next]_vars
    PROVE  Flow'
<1>1. Nesting' /\ Skipping'
  BY NestingKept, SkippingKept DEF Flow
<1>2. PICK lp : Targeted(lp)
  BY DEF Flow
<1>3. PICK r : Laid(r)
  BY DEF Flow
<1>4. \E l : Targeted(l)'
  BY <1>2, TargetedKept
<1>5. CASE LowerNext
  <2>1. Ready(r)
    BY <1>3 DEF Ready, Flow
  <2>2. \E r2 : Laid(r2)'
    BY <1>2, <1>5, <2>1, LowerLaid
  <2>3. phase' = "lower" \/ stack' = <<>>
    BY <1>5 DEF LowerNext, SkipSimple, LowerAct, LowerReturn, LowerJump, SkipOpen, LowerIf,
         LowerIfElse, LowerWhile, LowerFor, SkipElse, LowerElse, SkipEnd, EndIf, EndWhile, EndFor,
         Finish, Admitted
  <2>. QED  BY <1>1, <1>4, <2>2, <2>3 DEF Flow
<1>6. CASE RunNext \/ UNCHANGED vars
  <2>1. UNCHANGED <<prog, phase, nblocks, code, term, cur, stack, targets>>
    BY <1>6 DEF RunNext, Exec, Jump, Branch, Returned, vars
  <2>2. Laid(r)'
    BY <1>3, <2>1, RunLaid
  <2>3. phase' = "run" => stack' = <<>>
    BY <2>1 DEF Flow
  <2>. QED  BY <1>1, <1>4, <2>2, <2>3 DEF Flow
<1>. QED  BY <1>5, <1>6 DEF Next

\* Whatever source text comes in, each block of the lowered function stands for the
\* piece of it that its role names, and branches where that piece leads.
THEOREM BlocksFollowSource ==
    ASSUME CondYields = {"value"}
    PROVE  Spec => []Flow
<1>1. TypeOK /\ ReservedOpen /\ Flow /\ [Next]_vars => (TypeOK /\ ReservedOpen /\ Flow)'
  BY NextType, NextReserved, FlowKept
<1>2. Init => TypeOK /\ ReservedOpen /\ Flow
  BY InitType, InitReserved, InitFlow
<1>. QED  BY <1>1, <1>2, PTL DEF Spec

-----------------------------------------------------------------------------
(* Functions that are defined by what they are further on. *)

\* g takes its value at b of E from to[b], and has v[b] elsewhere.
Recurs(g, D, E, to, v) == g = [b \in D |-> IF b \in E THEN g[to[b]] ELSE v[b]]

LEMMA Recursion ==
    ASSUME NEW n \in Nat, NEW D, NEW rank, \A b \in D : rank[b] \in 0..n,
           NEW E, NEW to, \A b \in E : b \in D /\ to[b] \in D /\ rank[b] < rank[to[b]], NEW v
    PROVE  \E g : Recurs(g, D, E, to, v)
<1>. DEFINE Right(g, b) == g[b] = IF b \in E THEN g[to[b]] ELSE v[b]
            Behind(k) == \E g : \A b \in D : k <= rank[b] => Right(g, b)
            S == {k \in 0..(n + 1) : Behind(k)}
<1>1. n + 1 \in S
  <2>1. \A b \in D : ~(n + 1 <= rank[b])
    OBVIOUS
  <2>. QED  BY <2>1
<1>2. PICK m \in S : \A k \in S : m <= k
  <2>1. S \in SUBSET Nat /\ S # {}
    BY <1>1
  <2>. HIDE DEF S
  <2>. QED  BY <2>1, Least
<1>3. PICK g : \A b \in D : m <= rank[b] => Right(g, b)
  BY <1>2
<1>4. m = 0
  <2>1. SUFFICES ASSUME m # 0 PROVE FALSE
    OBVIOUS
  <2>2. m - 1 \in 0..(n + 1) /\ m \in Nat
    BY <1>2, <2>1
  <2>. DEFINE h == [b \in D |-> IF rank[b] = m - 1 THEN IF b \in E THEN g[to[b]] ELSE v[b] ELSE g[b]]
  <2>3. \A b \in D : m <= rank[b] => h[b] = g[b]
    BY <2>2
  <2>4. \A b \in D : rank[b] = m - 1 => h[b] = IF b \in E THEN g[to[b]] ELSE v[b]
    OBVIOUS
  <2>. HIDE DEF h
  <2>5. ASSUME NEW b \in D, m - 1 <= rank[b] PROVE Right(h, b)
    <3>1. b \in E => h[to[b]] = g[to[b]]
      <4>1. b \in E => to[b] \in D /\ m <= rank[to[b]]
        BY <2>2, <2>5
      <4>. QED  BY <2>3, <4>1
    <3>2. CASE rank[b] = m - 1
      BY <2>4, <3>1, <3>2
    <3>3. CASE rank[b] # m - 1
      <4>1. m <= rank[b]
        BY <2>2, <2>5, <3>3
      <4>. QED  BY <1>3, <2>3, <3>1, <4>1
    <3>. QED  BY <3>2, <3>3
  <2>6. m - 1 \in S
    BY <2>2, <2>5
  <2>. QED  BY <1>2, <2>2, <2>6
<1>5. \A b \in D : Right(g, b)
  BY <1>3, <1>4
<1>. DEFINE f == [b \in D |-> g[b]]
<1>6. f = [b \in D |-> IF b \in E THEN f[to[b]] ELSE v[b]]
  BY <1>5
<1>. QED  BY <1>6 DEF Recurs

-----------------------------------------------------------------------------
(* Settle is the function that its definition describes. *)

\* Every statement of the whole body is closed.
Whole(p) == p \in Seq(Ops) /\ Sane(p) /\ Depth(p, Len(p)) = 0

LEMMA OpenerCloses ==
    ASSUME NEW p, Whole(p), NEW i \in 0..Len(p), NEW k \in Source!OpenAt(p, i)
    PROVE  /\ k \in 1..i
           /\ \E j \in (i + 1)..Len(p) : Closes(p, k, j)
           /\ \A j : Closes(p, k, j) => j \in (i + 1)..Len(p) /\ Source!Closing(p, k) = j
<1>1. Len(p) \in Nat /\ Sane(p)
  BY DEF Whole
<1>2. k \in 1..i /\ p[k] \in Openers /\ \A j \in k..i : Depth(p, j) >= Depth(p, k)
  BY <1>1, OpenIs
<1>3. Depth(p, k) \in Int /\ Depth(p, k - 1) = Depth(p, k) - 1
  BY <1>2, OpenerDepth
<1>4. Depth(p, k - 1) >= 0
  <2>1. CASE k = 1
    BY <2>1, DepthNext
  <2>2. CASE k # 1
    <3>1. k - 1 \in 1..Len(p)
      BY <1>1, <1>2, <2>2
    <3>. QED  BY <1>1, <3>1 DEF Sane
  <2>. QED  BY <2>1, <2>2
<1>5. Depth(p, Len(p)) < Depth(p, k) /\ k \in 1..Len(p) /\ k \in Nat \ {0}
  BY <1>1, <1>2, <1>3, <1>4 DEF Whole
<1>6. ASSUME NEW j, Closes(p, k, j) PROVE j \in (i + 1)..Len(p) /\ Source!Closing(p, k) = j
  <2>1. j \in (k + 1)..Len(p) /\ Depth(p, j) = Depth(p, k) - 1
    BY <1>6 DEF Closes
  <2>2. ~(j \in k..i)
    BY <1>2, <1>3, <2>1
  <2>3. Source!Closing(p, k) = j
    BY <1>1, <1>5, <1>6, ClosingIs
  <2>. QED  BY <1>1, <1>2, <2>1, <2>2, <2>3
<1>7. \E j \in (k + 1)..Len(p) : Closes(p, k, j)
  BY <1>1, <1>5, ClosingExists
<1>. QED  BY <1>2, <1>6, <1>7

LEMMA LoopAround ==
    ASSUME NEW p, Whole(p), NEW i \in 1..Len(p), p[i] \in {"break", "continue"}
    PROVE  /\ InnermostLoop(p, i) \in Source!OpenAt(p, i) /\ InnermostLoop(p, i) \in 1..i
           /\ p[InnermostLoop(p, i)] \in Loops
<1>1. Source!LoopsAt(p, i) # {} /\ i \in Nat
  BY DEF Whole, Sane
<1>2. /\ Source!OpenAt(p, i) \in SUBSET (1..i)
      /\ Source!LoopsAt(p, i) \in SUBSET Source!OpenAt(p, i)
  BY <1>1, OpenBefore
<1>3. Source!LoopsAt(p, i) \in SUBSET (1..i)
  BY <1>2
<1>4. InnermostLoop(p, i) \in Source!LoopsAt(p, i)
  BY <1>1, <1>3, InnermostIn DEF InnermostLoop
<1>5. p[InnermostLoop(p, i)] \in Loops
  BY <1>4, SameWords DEF Source!LoopsAt
<1>. QED  BY <1>2, <1>4, <1>5

\* The tokens that send control further on, and where to.
Onward(p) ==
  {i \in 1..Len(p) : \/ p[i] \in {"else", "break"}
                     \/ /\ p[i] = "end"
                        /\ p[Source!Innermost(Source!OpenAt(p, i - 1))] \notin Loops}
Onto(p, i) ==
  IF p[i] = "else" THEN Source!Closing(p, i) + 1
  ELSE IF p[i] = "break" THEN Source!Closing(p, InnermostLoop(p, i)) + 1
  ELSE i + 1

LEMMA OntoAhead ==
    ASSUME NEW p, Whole(p), NEW i \in Onward(p)
    PROVE  Onto(p, i) \in (i + 1)..(Len(p) + 1)
<1>1. Len(p) \in Nat /\ i \in 1..Len(p) /\ Sane(p)
  BY DEF Whole, Onward
<1>2. CASE p[i] = "else"
  <2>1. Depth(p, i) >= 1 /\ Depth(p, Len(p)) = 0
    BY <1>1, <1>2 DEF Sane, Whole
  <2>2. Depth(p, i) \in Int
    <3>1. i \in Nat
      BY <1>1
    <3>. QED  BY <3>1, DepthNext
  <2>3. Depth(p, Len(p)) < Depth(p, i)
    BY <2>1, <2>2
  <2>4. PICK j \in (i + 1)..Len(p) : Closes(p, i, j)
    BY <1>1, <2>3, ClosingExists
  <2>5. Source!Closing(p, i) = j
    BY <1>1, <2>4, ClosingIs
  <2>. QED  BY <1>1, <1>2, <2>4, <2>5 DEF Onto
<1>3. CASE p[i] = "break"
  <2>1. InnermostLoop(p, i) \in Source!OpenAt(p, i) /\ i \in 0..Len(p)
    BY <1>1, <1>3, LoopAround
  <2>2. Source!Closing(p, InnermostLoop(p, i)) \in (i + 1)..Len(p)
    BY <2>1, OpenerCloses
  <2>3. Onto(p, i) = Source!Closing(p, InnermostLoop(p, i)) + 1
    BY <1>3 DEF Onto
  <2>. QED  BY <1>1, <2>2, <2>3
<1>4. CASE p[i] = "end"
  BY <1>1, <1>4 DEF Onto
<1>. QED  BY <1>2, <1>3, <1>4 DEF Onward

LEMMA ReachesOnward ==
    ASSUME NEW p, Len(p) \in Nat, NEW i \in Onward(p), NEW s
    PROVE  Source!Reaches(p, s, i) = s[Onto(p, i)]
<1>1. i \in 1..Len(p) /\ i # Len(p) + 1
  BY DEF Onward
<1>2. CASE p[i] = "else"
  BY <1>1, <1>2 DEF Source!Reaches, Onto
<1>3. CASE p[i] = "break"
  BY <1>1, <1>3 DEF Source!Reaches, Onto, InnermostLoop
<1>4. CASE p[i] = "end" /\ p[Source!Innermost(Source!OpenAt(p, i - 1))] \notin Loops
  BY <1>1, <1>4, SameWords DEF Source!Reaches, Onto
<1>. QED  BY <1>2, <1>3, <1>4 DEF Onward

LEMMA ReachesHere ==
    ASSUME NEW p, p \in Seq(Ops), NEW i \in (1..(Len(p) + 1)) \ Onward(p), NEW s, NEW t
    PROVE  Source!Reaches(p, s, i) = Source!Reaches(p, t, i)
<1>1. CASE i = Len(p) + 1
  BY <1>1 DEF Source!Reaches
<1>2. CASE i # Len(p) + 1
  <2>1. i \in 1..Len(p) /\ p[i] \in Ops
    BY <1>2
  <2>2. CASE p[i] = "end"
    <3>1. p[Source!Innermost(Source!OpenAt(p, i - 1))] \in Loops
      BY <2>1, <2>2 DEF Onward
    <3>. QED  BY <1>2, <2>2, <3>1, SameWords DEF Source!Reaches
  <2>3. CASE p[i] \in {"act", "return", "for", "if", "ifelse", "while", "continue"}
    BY <1>2, <2>3 DEF Source!Reaches
  <2>4. p[i] \notin {"else", "break"}
    BY <2>1 DEF Onward
  <2>. QED  BY <2>1, <2>2, <2>3, <2>4 DEF Ops, Openers, Simple, Loops
<1>. QED  BY <1>1, <1>2

LEMMA SettleIs ==
    ASSUME NEW p, Whole(p)
    PROVE  \A i \in 1..(Len(p) + 1) :
             Source!Settle(p)[i] = Source!Reaches(p, Source!Settle(p), i)
<1>. DEFINE D == 1..(Len(p) + 1)
            E == Onward(p)
            rank == [i \in D |-> i]
            to == [i \in E |-> Onto(p, i)]
            v == [i \in D |-> Source!Reaches(p, <<>>, i)]
<1>1. Len(p) + 1 \in Nat /\ p \in Seq(Ops) /\ Len(p) \in Nat
  BY DEF Whole
<1>2. \A i \in D : rank[i] \in 0..(Len(p) + 1)
  BY <1>1
<1>3. ASSUME NEW i \in E PROVE i \in D /\ to[i] \in D /\ rank[i] < rank[to[i]]
  <2>1. i \in 1..Len(p) /\ to[i] = Onto(p, i) /\ Onto(p, i) \in (i + 1)..(Len(p) + 1)
    BY <1>3, OntoAhead DEF Onward
  <2>2. i \in D /\ to[i] \in D /\ i < to[i]
    BY <1>1, <2>1
  <2>. QED  BY <2>2
<1>4. \E g : Recurs(g, D, E, to, v)
  <2>. HIDE DEF D, E, rank, to, v
  <2>. QED  BY <1>1, <1>2, <1>3, Recursion
<1>5. PICK g : g = [i \in D |-> IF i \in E THEN g[to[i]] ELSE v[i]]
  BY <1>4 DEF Recurs
<1>6. ASSUME NEW i \in D PROVE g[i] = Source!Reaches(p, g, i)
  <2>1. CASE i \in E
    BY <1>1, <1>5, <2>1, ReachesOnward
  <2>2. CASE i \notin E
    <3>1. g[i] = Source!Reaches(p, <<>>, i)
      BY <1>5, <2>2
    <3>2. Source!Reaches(p, <<>>, i) = Source!Reaches(p, g, i)
      BY <1>1, <2>2, ReachesHere
    <3>. QED  BY <3>1, <3>2
  <2>. QED  BY <2>1, <2>2
<1>7. g = [i \in 1..(Len(p) + 1) |-> Source!Reaches(p, g, i)]
  <2>1. g = [i \in D |-> g[i]]
    BY <1>5
  <2>. HIDE DEF E, to, v
  <2>. QED  BY <1>6, <2>1
<1>8. Source!Settle(p) = [i \in 1..(Len(p) + 1) |-> Source!Reaches(p, Source!Settle(p), i)]
  BY <1>7 DEF Source!Settle
<1>. QED  BY <1>8

-----------------------------------------------------------------------------
(* Where control goes from the end of a block. *)

\* A block that takes control from the token at q begins where q sends it ...
LEMMA LeadsOnto ==
    ASSUME NEW p, Whole(p), NEW q \in 1..Len(p), NEW x \in Roles, Leads(p, q, x),
           NEW s \in Nat, Begins(p, x, s)
    PROVE  q \in Onward(p) /\ s = Onto(p, q)
<1>1. Len(p) \in Nat /\ q \in Nat \ {0} /\ Sane(p)
  BY DEF Whole
<1>2. x[1] \notin {"cond", "inc"}
  BY DEF Begins
<1>4. CASE p[q] = "else" /\ x[1] = "merge" /\ q \in Elses(p, x[2])
  <2>1. Closes(p, x[2], s - 1)
    BY <1>4 DEF Begins
  <2>. DEFINE k == x[2]
  <2>2. k \in Nat \ {0}
    BY RoleParts
  <2>. HIDE DEF k
  <2>3. /\ s - 1 \in (k + 1)..Len(p) /\ Depth(p, s - 1) = Depth(p, k) - 1
        /\ \A i \in k..(s - 2) : Depth(p, i) >= Depth(p, k)
    <3>1. Closes(p, k, s - 1)
      BY <2>1 DEF k
    <3>2. s - 1 - 1 = s - 2
      OBVIOUS
    <3>. QED  BY <3>1, <3>2 DEF Closes
  <2>4. /\ q \in (k + 1)..Len(p) /\ Depth(p, q) = Depth(p, k)
        /\ \A i \in k..q : Depth(p, i) >= Depth(p, k)
    BY <1>4 DEF Elses, k
  <2>5. Depth(p, k) \in Int
    BY <2>2, DepthNext
  <2>6. ~(s - 1 \in k..q)
    BY <2>3, <2>4, <2>5
  <2>7. s - 1 \in (q + 1)..Len(p)
    BY <1>1, <2>2, <2>3, <2>4, <2>6
  <2>10. \A i \in q..(s - 1 - 1) : i \in k..(s - 2)
    BY <1>1, <2>2, <2>4
  <2>8. Closes(p, q, s - 1)
    BY <2>3, <2>4, <2>7, <2>10 DEF Closes
  <2>9. Source!Closing(p, q) = s - 1
    BY <1>1, <2>8, ClosingIs
  <2>. QED  BY <1>1, <1>4, <2>9 DEF Onward, Onto
<1>5. CASE p[q] = "break" /\ x = <<"merge", InnermostLoop(p, q)>>
  <2>1. Closes(p, InnermostLoop(p, q), s - 1)
    BY <1>5 DEF Begins
  <2>2. InnermostLoop(p, q) \in Source!OpenAt(p, q) /\ q \in 0..Len(p)
    BY <1>1, <1>5, LoopAround
  <2>3. Source!Closing(p, InnermostLoop(p, q)) = s - 1
    BY <2>1, <2>2, OpenerCloses
  <2>. QED  BY <1>1, <1>5, <2>3 DEF Onward, Onto
<1>6. CASE p[q] \in {"while", "continue"}
  BY <1>2, <1>6 DEF Leads, Again
<1>7. CASE p[q] = "end"
  <2>. DEFINE k == Source!Innermost(Source!OpenAt(p, q - 1))
  <2>1. p[k] \notin Loops /\ x = <<"merge", k>> /\ Closes(p, k, q)
    BY <1>2, <1>7 DEF Leads, Again
  <2>2. Closes(p, k, s - 1)
    BY <2>1 DEF Begins
  <2>3. k \in Nat \ {0}
    <3>. HIDE DEF k
    <3>. QED  BY <2>1, RoleParts
  <2>4. q = s - 1
    <3>. HIDE DEF k
    <3>1. Source!Closing(p, k) = q /\ Source!Closing(p, k) = s - 1
      BY <1>1, <2>1, <2>2, <2>3, ClosingIs
    <3>. QED  BY <3>1
  <2>. QED  BY <1>1, <1>7, <2>1, <2>4 DEF Onward, Onto
<1>. QED  BY <1>4, <1>5, <1>6, <1>7 DEF Leads

\* ... unless it is that of a condition or of an increment, which come next then.
LEMMA LeadsAgain ==
    ASSUME NEW p, Len(p) \in Nat, NEW q \in 1..Len(p), NEW x \in Roles, Leads(p, q, x),
           x[1] \in {"cond", "inc"}, NEW s
    PROVE  Source!Reaches(p, s, q) = <<x[2], x[1]>>
<1>1. q # Len(p) + 1
  OBVIOUS
<1>2. ASSUME NEW k, x = Again(p, k) PROVE Source!NextIteration(p, k) = <<x[2], x[1]>>
  BY <1>2 DEF Again, Source!NextIteration
<1>3. CASE p[q] = "while" /\ x = <<"cond", q>>
  BY <1>1, <1>3 DEF Source!Reaches
<1>4. CASE p[q] = "continue" /\ x = Again(p, InnermostLoop(p, q))
  BY <1>1, <1>2, <1>4 DEF Source!Reaches, InnermostLoop
<1>5. CASE p[q] = "end"
  <2>. DEFINE k == Source!Innermost(Source!OpenAt(p, q - 1))
  <2>1. p[k] \in Loops /\ x = Again(p, k)
    BY <1>5 DEF Leads
  <2>2. Source!NextIteration(p, k) = <<x[2], x[1]>>
    BY <1>2, <2>1
  <2>. QED  BY <1>1, <1>5, <2>1, <2>2, SameWords DEF Source!Reaches
<1>6. ~(p[q] \in {"else", "break"})
  BY DEF Leads
<1>. QED  BY <1>3, <1>4, <1>5, <1>6 DEF Leads

-----------------------------------------------------------------------------
(* The finished blocks. *)

Running(r) ==
  TypeOK /\ Laid(r) /\ Whole(prog) /\ phase = "run" /\ stack = <<>>

\* The block b does the statements from s up to q and ends with the one at q.
Piece(r, b, s, q) ==
  \/ Line(prog, r, r[b], code[b], term[b], s, q)
  \/ /\ Runs(prog, r[b], s, q) /\ q = Len(prog) + 1
     /\ code[b] = Acts(s, q) /\ term[b] = Ret(<<0, "exit">>)

LEMMA RunningTypes ==
    ASSUME NEW r, Running(r)
    PROVE  /\ Len(prog) \in Nat /\ Blocks = 1..nblocks
           /\ \A b \in Blocks : r[b] \in Roles /\ BranchOK(term[b], nblocks) /\ Len(code[b]) \in Nat
<1>1. TypeOK /\ Laid(r)
  BY DEF Running
<1>2. Len(prog) \in Nat /\ Blocks = 1..nblocks
  BY <1>1, StackType DEF Blocks
<1>3. \A b \in Blocks : BranchOK(term[b], nblocks) /\ code[b] \in Seq(Event)
  BY <1>1, BlockTypes
<1>4. \A b \in Blocks : Len(code[b]) \in Nat
  BY <1>3
<1>5. \A b \in Blocks : r[b] \in Roles
  BY <1>1 DEF Laid
<1>. QED  BY <1>2, <1>3, <1>4, <1>5

LEMMA Pieces ==
    ASSUME NEW r, Running(r), NEW b \in Blocks
    PROVE  \/ \E s, q \in Nat : Piece(r, b, s, q)
           \/ \E i \in Nat : \/ Test(prog, r, r[b], code[b], term[b], i)
                             \/ Step(prog, r, r[b], code[b], term[b], i)
<1>1. ~Fresh(b)
  BY DEF Running, Fresh, Held
<1>2. CASE Open(b, r)
  <2>1. PICK s \in Nat : Runs(prog, r[b], s, Len(prog) + 1) /\ code[b] = Acts(s, Len(prog) + 1)
    BY <1>2 DEF Open, Unended
  <2>2. Piece(r, b, s, Len(prog) + 1)
    BY <1>2, <2>1 DEF Open, Piece, Running
  <2>3. Len(prog) + 1 \in Nat
    BY RunningTypes
  <2>. QED  BY <2>2, <2>3
<1>3. CASE Done(prog, r, r[b], code[b], term[b])
  BY <1>3 DEF Done, Piece
<1>. QED  BY <1>1, <1>2, <1>3 DEF Running, Laid

LEMMA PieceRuns ==
    ASSUME NEW r, Running(r), NEW b \in Blocks, NEW s, NEW q, Piece(r, b, s, q)
    PROVE  /\ s \in 1..(Len(prog) + 1) /\ q \in s..(Len(prog) + 1) /\ s \in Nat /\ q \in Nat
           /\ Begins(prog, r[b], s) /\ \A i \in s..(q - 1) : prog[i] = "act"
           /\ r[b][1] \notin {"cond", "inc"}
<1>1. Runs(prog, r[b], s, q)
  BY DEF Piece, Line
<1>2. Len(prog) \in Nat
  BY RunningTypes
<1>. QED  BY <1>1, <1>2 DEF Runs, Begins

LEMMA ActsAre ==
    ASSUME NEW s \in Nat, NEW q \in Nat, s <= q
    PROVE  /\ Len(Acts(s, q)) = q - s
           /\ \A c \in 1..(q - s) : Acts(s, q)[c] = <<s + c - 1, "act">>
           /\ \A e : /\ Len(Append(Acts(s, q), e)) = q - s + 1
                     /\ Append(Acts(s, q), e)[q - s + 1] = e
                     /\ \A c \in 1..(q - s) : Append(Acts(s, q), e)[c] = <<s + c - 1, "act">>
<1>. DEFINE n == q - s
            a == Acts(s, q)
<1>1. n \in Nat
  OBVIOUS
<1>2. a = [i \in 1..n |-> <<s + i - 1, "act">>]
  BY DEF Acts
<1>3. Len(a) = n /\ a \in Seq(Int \X {"act"}) /\ \A c \in 1..n : a[c] = <<s + c - 1, "act">>
  <2>1. \A i \in 1..n : <<s + i - 1, "act">> \in Int \X {"act"}
    BY <1>1
  <2>. HIDE DEF n, a
  <2>. QED  BY <1>1, <1>2, <2>1
<1>4. ASSUME NEW e
      PROVE  /\ Len(Append(a, e)) = n + 1 /\ Append(a, e)[n + 1] = e
             /\ \A c \in 1..n : Append(a, e)[c] = <<s + c - 1, "act">>
  <2>1. a \in Seq(Int \X {"act"} \cup {e})
    BY <1>3
  <2>. HIDE DEF n, a
  <2>. QED  BY <1>1, <1>3, <2>1
<1>. QED  BY <1>3, <1>4

LEMMA EventIs ==
    ASSUME NEW b, NEW c
    PROVE  /\ AtEnd(<<b, c>>) <=> c = Len(code[b]) + 1
           /\ c # Len(code[b]) + 1 => EventAt(<<b, c>>) = code[b][c]
           /\ c = Len(code[b]) + 1 /\ term[b].kind # "none" => EventAt(<<b, c>>) = term[b].ev
BY DEF AtEnd, EventAt

-----------------------------------------------------------------------------
(* Where the empty blocks land. *)

\* The blocks that do nothing but branch.
Passing == {b \in Blocks : code[b] = <<>> /\ term[b].kind = "br"}

LEMMA PieceJumps ==
    ASSUME NEW r, Running(r), NEW b \in Blocks, NEW s, NEW q, Piece(r, b, s, q),
           term[b].kind = "br"
    PROVE  /\ q \in 1..Len(prog) /\ term[b].t \in Blocks
           /\ \/ code[b] = Acts(s, q) /\ Leads(prog, q, r[term[b].t])
              \/ /\ code[b] = Append(Acts(s, q), <<q, "init">>) /\ prog[q] = "for"
                 /\ r[term[b].t] = <<"cond", q>>
<1>1. Line(prog, r, r[b], code[b], term[b], s, q)
  BY DEF Piece, Ret
<1>2. Len(prog) \in Nat /\ Blocks = 1..nblocks /\ BranchOK(term[b], nblocks)
  BY RunningTypes
<1>3. q \in 1..Len(prog)
  BY <1>1, <1>2, PieceRuns DEF Line
<1>4. term[b].t \in Blocks
  BY <1>2 DEF BranchOK
<1>5. Ends(prog, r, q, term[b]) => Leads(prog, q, r[term[b].t])
  BY DEF Ends, Ret, Cbr
<1>. QED  BY <1>1, <1>3, <1>4, <1>5 DEF Line

LEMMA PassingIs ==
    ASSUME NEW r, Running(r), NEW b \in Passing
    PROVE  /\ term[b].t \in Blocks
           /\ \A s, q \in Nat : Piece(r, b, s, q) => q = s
           /\ \E s \in 1..Len(prog) : Piece(r, b, s, s) /\ Leads(prog, s, r[term[b].t])
<1>1. b \in Blocks /\ code[b] = <<>> /\ term[b].kind = "br"
  BY DEF Passing
<1>2. Len(code[b]) = 0
  BY <1>1
<1>3. ASSUME NEW s \in Nat, NEW q \in Nat, Piece(r, b, s, q)
      PROVE  /\ q = s /\ s \in 1..Len(prog) /\ term[b].t \in Blocks
             /\ Leads(prog, s, r[term[b].t])
  <2>1. s <= q /\ q \in 1..Len(prog) /\ Len(prog) \in Nat
    BY <1>1, <1>3, PieceRuns, PieceJumps, RunningTypes
  <2>2. Len(Acts(s, q)) = q - s /\ Len(Append(Acts(s, q), <<q, "init">>)) = q - s + 1
    BY <2>1, ActsAre
  <2>3. code[b] = Acts(s, q) /\ q = s
    BY <1>1, <1>2, <1>3, <2>1, <2>2, PieceJumps
  <2>4. code[b] # Append(Acts(s, q), <<q, "init">>)
    BY <1>2, <2>1, <2>2
  <2>5. term[b].t \in Blocks /\ Leads(prog, q, r[term[b].t])
    BY <1>1, <1>3, <2>4, PieceJumps
  <2>. QED  BY <2>1, <2>3, <2>5
<1>4. ~(\E i \in Nat : \/ Test(prog, r, r[b], code[b], term[b], i)
                       \/ Step(prog, r, r[b], code[b], term[b], i))
  <2>1. ASSUME NEW i, Test(prog, r, r[b], code[b], term[b], i) PROVE FALSE
    BY <1>1, <2>1 DEF Test, Cbr
  <2>2. ASSUME NEW i, Step(prog, r, r[b], code[b], term[b], i) PROVE FALSE
    <3>1. code[b] = <<<<i, "inc">>>>
      BY <2>2 DEF Step
    <3>2. Len(<<<<i, "inc">>>>) = 1
      OBVIOUS
    <3>. QED  BY <1>2, <3>1, <3>2
  <2>. QED  BY <2>1, <2>2
<1>5. PICK s \in Nat, q \in Nat : Piece(r, b, s, q)
  BY <1>1, <1>4, Pieces
<1>. QED  BY <1>3, <1>5

LEMMA LandingIs ==
    ASSUME NEW r, Running(r)
    PROVE  \A b \in Blocks :
             Landing[b] = IF b \in Passing THEN Landing[term[b].t] ELSE <<b, 1>>
<1>. DEFINE P(b, s) == Piece(r, b, s, s) /\ Leads(prog, s, r[term[b].t])
            n == Len(prog) + 1
            D == Blocks
            E == Passing
            rank == [b \in D |-> IF b \in E THEN CHOOSE s \in 1..Len(prog) : P(b, s) ELSE n]
            to == [b \in E |-> term[b].t]
            v == [b \in D |-> <<b, 1>>]
<1>1. n \in Nat /\ Len(prog) \in Nat /\ E \subseteq D
  BY RunningTypes DEF Passing
<1>2. ASSUME NEW b \in E PROVE rank[b] \in 1..Len(prog) /\ P(b, rank[b]) /\ to[b] \in D
  <2>1. \E s \in 1..Len(prog) : P(b, s)
    BY <1>2, PassingIs
  <2>2. rank[b] = CHOOSE s \in 1..Len(prog) : P(b, s)
    BY <1>1, <1>2
  <2>3. to[b] \in D
    BY <1>2, PassingIs
  <2>. HIDE DEF P
  <2>. QED  BY <2>1, <2>2, <2>3
<1>3. ASSUME NEW b \in D, b \notin E PROVE rank[b] = n
  BY <1>3
<1>4. ASSUME NEW b \in E PROVE rank[b] < rank[to[b]]
  <2>. DEFINE s == rank[b]
              t == to[b]
  <2>1. s \in 1..Len(prog) /\ P(b, s) /\ t \in D /\ t = term[b].t
    BY <1>2, <1>4
  <2>2. CASE t \notin E
    <3>. HIDE DEF rank, to
    <3>. QED  BY <1>1, <1>3, <2>1, <2>2
  <2>3. CASE t \in E
    <3>1. rank[t] \in 1..Len(prog) /\ P(t, rank[t])
      BY <1>2, <2>3
    <3>. HIDE DEF rank, to
    <3>2. Begins(prog, r[t], rank[t]) /\ rank[t] \in Nat
      BY <2>1, <3>1, PieceRuns
    <3>3. r[t] \in Roles /\ Whole(prog)
      BY <2>1, RunningTypes DEF Running
    <3>4. s \in Onward(prog) /\ rank[t] = Onto(prog, s)
      BY <2>1, <3>2, <3>3, LeadsOnto
    <3>5. rank[t] \in (s + 1)..n
      BY <3>3, <3>4, OntoAhead
    <3>. QED  BY <2>1, <3>5
  <2>. HIDE DEF rank, to
  <2>. QED  BY <2>2, <2>3
<1>5. \A b \in D : rank[b] \in 0..n
  <2>. HIDE DEF rank, P, to, E, D
  <2>. QED  BY <1>1, <1>2, <1>3
<1>6. \A b \in E : b \in D /\ to[b] \in D /\ rank[b] < rank[to[b]]
  BY <1>1, <1>2, <1>4
<1>7. \E g : Recurs(g, D, E, to, v)
  <2>. HIDE DEF n, D, E, rank, to, v
  <2>. QED  BY <1>1, <1>5, <1>6, Recursion
<1>8. PICK g : g = [b \in D |-> IF b \in E THEN g[to[b]] ELSE v[b]]
  BY <1>7 DEF Recurs
<1>9. g = [b \in Blocks |->
             IF code[b] = <<>> /\ term[b].kind = "br" THEN g[term[b].t] ELSE <<b, 1>>]
  <2>. DEFINE w(b) == IF code[b] = <<>> /\ term[b].kind = "br" THEN g[term[b].t] ELSE <<b, 1>>
  <2>1. ASSUME NEW b \in D PROVE g[b] = w(b)
    <3>1. b \in E <=> code[b] = <<>> /\ term[b].kind = "br"
      BY DEF Passing
    <3>2. b \in E => to[b] = term[b].t
      OBVIOUS
    <3>3. v[b] = <<b, 1>>
      OBVIOUS
    <3>4. g[b] = IF b \in E THEN g[to[b]] ELSE v[b]
      BY <1>8
    <3>. HIDE DEF E, to, v
    <3>. QED  BY <3>1, <3>2, <3>3, <3>4
  <2>2. g = [b \in D |-> g[b]]
    BY <1>8
  <2>. HIDE DEF w, E, to, v
  <2>3. g = [b \in D |-> w(b)]
    BY <2>1, <2>2
  <2>. QED  BY <2>3 DEF w
<1>10. Landing = [b \in Blocks |->
             IF code[b] = <<>> /\ term[b].kind = "br" THEN Landing[term[b].t] ELSE <<b, 1>>]
  BY <1>9 DEF Landing
<1>11. ASSUME NEW b \in Blocks
       PROVE  Landing[b] = IF b \in Passing THEN Landing[term[b].t] ELSE <<b, 1>>
  <2>1. Landing[b] = IF code[b] = <<>> /\ term[b].kind = "br" THEN Landing[term[b].t] ELSE <<b, 1>>
    BY <1>10
  <2>. QED  BY <2>1 DEF Passing
<1>. QED  BY <1>11

-----------------------------------------------------------------------------
(* What is observed in a block. *)

\* What the structured program does when control comes to s.
Upcoming(s) == Source!Settle(prog)[s]

\* What is observed at instruction c of block b.
Shown(b, c) ==
  IF c = Len(code[b]) + 1 /\ term[b].kind = "br" THEN EventAt(Landing[term[b].t])
  ELSE EventAt(<<b, c>>)

LEMMA ReachesWhat ==
    ASSUME NEW p, Whole(p), NEW i \in 1..(Len(p) + 1), NEW s, s = Source!Settle(p)
    PROVE  /\ i = Len(p) + 1 => s[i] = <<0, "exit">>
           /\ i # Len(p) + 1 =>
                /\ p[i] = "act" => s[i] = <<i, "act">>
                /\ p[i] = "return" => s[i] = <<i, "ret">>
                /\ p[i] = "for" => s[i] = <<i, "init">>
                /\ p[i] \in {"if", "ifelse", "while"} => s[i] = <<i, "cond">>
                /\ i \in Onward(p) => s[i] = s[Onto(p, i)]
<1>1. s[i] = Source!Reaches(p, s, i)
  BY SettleIs
<1>2. Len(p) \in Nat
  BY DEF Whole
<1>3. i \in Onward(p) => s[i] = s[Onto(p, i)]
  BY <1>1, <1>2, ReachesOnward
<1>4. i = Len(p) + 1 => s[i] = <<0, "exit">>
  BY <1>1 DEF Source!Reaches, Source!Exit
<1>5. ASSUME i # Len(p) + 1
      PROVE  /\ p[i] = "act" => s[i] = <<i, "act">>
             /\ p[i] = "return" => s[i] = <<i, "ret">>
             /\ p[i] = "for" => s[i] = <<i, "init">>
             /\ p[i] \in {"if", "ifelse", "while"} => s[i] = <<i, "cond">>
  BY <1>1, <1>5 DEF Source!Reaches
<1>. QED  BY <1>3, <1>4, <1>5

LEMMA PieceShows ==
    ASSUME NEW r, Running(r), NEW b \in Blocks, NEW s, NEW q, Piece(r, b, s, q),
           NEW c \in 1..(Len(code[b]) + 1), ~(c = Len(code[b]) + 1 /\ term[b].kind = "br")
    PROVE  /\ EventAt(<<b, c>>) = Upcoming(s + c - 1) /\ s + c - 1 \in s..q
           /\ c <= q - s => EventAt(<<b, c>>) = <<s + c - 1, "act">>
<1>1. /\ s \in 1..(Len(prog) + 1) /\ q \in s..(Len(prog) + 1) /\ s \in Nat /\ q \in Nat /\ s <= q
      /\ \A i \in s..(q - 1) : prog[i] = "act"
      /\ Len(prog) \in Nat /\ Whole(prog)
  BY PieceRuns, RunningTypes DEF Running
<1>2. /\ Len(Acts(s, q)) = q - s
      /\ \A i \in 1..(q - s) : Acts(s, q)[i] = <<s + i - 1, "act">>
      /\ \A e : /\ Len(Append(Acts(s, q), e)) = q - s + 1
                /\ Append(Acts(s, q), e)[q - s + 1] = e
                /\ \A i \in 1..(q - s) : Append(Acts(s, q), e)[i] = <<s + i - 1, "act">>
  BY <1>1, ActsAre
<1>3. code[b] = Acts(s, q) \/ code[b] = Append(Acts(s, q), <<q, "init">>)
  BY DEF Piece, Line
<1>4. c \in Nat \ {0} /\ Len(code[b]) \in Nat
  BY RunningTypes
<1>5. CASE c <= q - s
  <2>1. c \in 1..(q - s) /\ s + c - 1 \in s..(q - 1) /\ s + c - 1 \in 1..(Len(prog) + 1)
        /\ s + c - 1 # Len(prog) + 1
    BY <1>1, <1>4, <1>5
  <2>2. c # Len(code[b]) + 1
    BY <1>1, <1>2, <1>3, <2>1
  <2>6. code[b][c] = <<s + c - 1, "act">>
    <3>1. \A e : Append(Acts(s, q), e)[c] = <<s + c - 1, "act">>
      BY <1>2, <2>1
    <3>2. Acts(s, q)[c] = <<s + c - 1, "act">>
      BY <1>2, <2>1
    <3>. QED  BY <1>3, <3>1, <3>2
  <2>3. EventAt(<<b, c>>) = <<s + c - 1, "act">>
    <3>1. EventAt(<<b, c>>) = code[b][c]
      BY <2>2, EventIs
    <3>. QED  BY <2>6, <3>1
  <2>4. prog[s + c - 1] = "act"
    BY <1>1, <2>1
  <2>5. Upcoming(s + c - 1) = <<s + c - 1, "act">>
    BY <1>1, <2>1, <2>4, ReachesWhat DEF Upcoming
  <2>. QED  BY <1>1, <2>1, <2>3, <2>5
<1>6. CASE ~(c <= q - s) /\ code[b] = Append(Acts(s, q), <<q, "init">>) /\ prog[q] = "for"
           /\ term[b].kind = "br" /\ q <= Len(prog)
  <2>1. c = q - s + 1 /\ c # Len(code[b]) + 1 /\ s + c - 1 = q
    BY <1>1, <1>2, <1>4, <1>6
  <2>2. EventAt(<<b, c>>) = <<q, "init">>
    <3>1. EventAt(<<b, c>>) = code[b][c]
      BY <2>1, EventIs
    <3>. QED  BY <1>2, <1>6, <2>1, <3>1
  <2>3. q \in 1..(Len(prog) + 1) /\ q # Len(prog) + 1
    BY <1>1, <1>6
  <2>4. Upcoming(q) = <<q, "init">>
    BY <1>1, <1>6, <2>3, ReachesWhat DEF Upcoming
  <2>5. EventAt(<<b, c>>) = Upcoming(s + c - 1)
    BY <2>1, <2>2, <2>4
  <2>6. s + c - 1 \in s..q
    BY <1>1, <2>1
  <2>. QED  BY <1>6, <2>5, <2>6
<1>7. CASE ~(c <= q - s) /\ code[b] = Acts(s, q)
  <2>1. c = q - s + 1 /\ c = Len(code[b]) + 1 /\ s + c - 1 = q
    BY <1>1, <1>2, <1>4, <1>7
  <2>2. term[b].kind # "br"
    BY <2>1
  <2>3. term[b].kind # "none" /\ Upcoming(q) = term[b].ev
    <3>1. CASE q = Len(prog) + 1 /\ term[b] = Ret(<<0, "exit">>)
      BY <1>1, <3>1, ReachesWhat DEF Upcoming, Ret
    <3>2. CASE q <= Len(prog) /\ Ends(prog, r, q, term[b])
      <4>1. q \in 1..(Len(prog) + 1) /\ q # Len(prog) + 1
        BY <1>1, <3>2
      <4>2. \/ prog[q] = "return" /\ term[b] = Ret(<<q, "ret">>)
            \/ prog[q] \in {"if", "ifelse"} /\ term[b] = Cbr(<<q, "cond">>, term[b].t, term[b].f)
        BY <2>2, <3>2 DEF Ends, Br
      <4>. QED  BY <1>1, <4>1, <4>2, ReachesWhat DEF Upcoming, Ret, Cbr
    <3>3. ~(q <= Len(prog) /\ term[b] = Br(term[b].t))
      BY <2>2 DEF Br
    <3>. QED  BY <3>1, <3>2, <3>3 DEF Piece, Line
  <2>4. EventAt(<<b, c>>) = term[b].ev
    BY <2>1, <2>3, EventIs
  <2>. QED  BY <1>1, <1>7, <2>1, <2>3, <2>4
<1>8. code[b] = Acts(s, q) \/
      (code[b] = Append(Acts(s, q), <<q, "init">>) /\ prog[q] = "for"
           /\ term[b].kind = "br" /\ q <= Len(prog))
  BY DEF Piece, Line, Br
<1>. QED  BY <1>5, <1>6, <1>7, <1>8

\* A block of a condition or of an increment shows it.
LEMMA LoopLands ==
    ASSUME NEW r, Running(r), NEW t \in Blocks, r[t][1] \in {"cond", "inc"}
    PROVE  /\ EventAt(Landing[t]) = <<r[t][2], r[t][1]>> /\ EventAt(<<t, 1>>) = EventAt(Landing[t])
           /\ Landing[t] = <<t, 1>>
<1>1. \A s, q : ~Piece(r, t, s, q)
  BY PieceRuns
<1>2. PICK i \in Nat : \/ Test(prog, r, r[t], code[t], term[t], i)
                       \/ Step(prog, r, r[t], code[t], term[t], i)
  BY <1>1, Pieces
<1>3. CASE Test(prog, r, r[t], code[t], term[t], i)
  <2>1. code[t] = <<>> /\ term[t] = Cbr(<<i, "cond">>, term[t].t, term[t].f) /\ r[t] = <<"cond", i>>
    BY <1>3 DEF Test
  <2>2. term[t].kind = "cbr" /\ term[t].ev = <<i, "cond">> /\ Len(code[t]) = 0
    BY <2>1 DEF Cbr
  <2>3. Landing[t] = <<t, 1>>
    BY <2>2, LandingIs DEF Passing
  <2>4. EventAt(<<t, 1>>) = <<i, "cond">>
    <3>1. EventAt(<<t, 1>>) = term[t].ev
      BY <2>2, EventIs
    <3>. QED  BY <2>2, <3>1
  <2>. QED  BY <2>1, <2>3, <2>4
<1>4. CASE Step(prog, r, r[t], code[t], term[t], i)
  <2>1. code[t] = <<<<i, "inc">>>> /\ r[t] = <<"inc", i>>
    BY <1>4 DEF Step
  <2>2. Len(code[t]) = 1 /\ code[t][1] = <<i, "inc">> /\ code[t] # <<>>
    <3>1. Len(<<<<i, "inc">>>>) = 1 /\ Len(<<>>) = 0 /\ <<<<i, "inc">>>>[1] = <<i, "inc">>
      OBVIOUS
    <3>. QED  BY <2>1, <3>1
  <2>3. Landing[t] = <<t, 1>>
    BY <2>2, LandingIs DEF Passing
  <2>4. EventAt(<<t, 1>>) = <<i, "inc">>
    <3>1. 1 # Len(code[t]) + 1
      BY <2>2
    <3>2. EventAt(<<t, 1>>) = code[t][1]
      BY <3>1, EventIs
    <3>. QED  BY <2>2, <3>2
  <2>. QED  BY <2>1, <2>3, <2>4
<1>. QED  BY <1>2, <1>3, <1>4

\* A jump shows what the token at q sends control to, if the target shows the token it
\* begins with.
LEMMA JumpLands ==
    ASSUME NEW r, Running(r), NEW q \in 1..Len(prog), NEW t \in Blocks, Leads(prog, q, r[t]),
           \A s, e \in Nat : q < s /\ Piece(r, t, s, e) => EventAt(Landing[t]) = Upcoming(s)
    PROVE  EventAt(Landing[t]) = Upcoming(q)
<1>1. /\ Whole(prog) /\ Len(prog) \in Nat /\ r[t] \in Roles
      /\ q \in 1..(Len(prog) + 1) /\ q # Len(prog) + 1
  BY RunningTypes DEF Running
<1>2. ASSUME NEW s \in Nat, NEW e \in Nat, Piece(r, t, s, e)
      PROVE  EventAt(Landing[t]) = Upcoming(q)
  <2>1. Begins(prog, r[t], s)
    BY <1>2, PieceRuns
  <2>2. q \in Onward(prog) /\ s = Onto(prog, q)
    BY <1>1, <1>2, <2>1, LeadsOnto
  <2>3. q < s
    BY <1>1, <2>2, OntoAhead
  <2>4. Upcoming(q) = Upcoming(s)
    BY <1>1, <2>2, ReachesWhat DEF Upcoming
  <2>. QED  BY <1>2, <2>3, <2>4
<1>3. ASSUME NEW i, \/ Test(prog, r, r[t], code[t], term[t], i)
                    \/ Step(prog, r, r[t], code[t], term[t], i)
      PROVE  EventAt(Landing[t]) = Upcoming(q)
  <2>1. r[t][1] \in {"cond", "inc"}
    BY <1>3 DEF Test, Step
  <2>2. EventAt(Landing[t]) = <<r[t][2], r[t][1]>>
    BY <2>1, LoopLands
  <2>3. Upcoming(q) = Source!Reaches(prog, Source!Settle(prog), q)
    BY <1>1, SettleIs DEF Upcoming
  <2>. QED  BY <1>1, <2>1, <2>2, <2>3, LeadsAgain
<1>. QED  BY <1>2, <1>3, Pieces

LEMMA NeverEmpty ==
    ASSUME NEW s \in Nat
    PROVE  \A e : <<>> # Append(Acts(s, s), e)
<1>1. TAKE e
<1>2. PICK z : z = Append(Acts(s, s), e)
  OBVIOUS
<1>3. s <= s
  OBVIOUS
<1>4. Len(z) = s - s + 1
  BY <1>2, <1>3, ActsAre
<1>5. <<>> # z
  BY <1>4
<1>. QED  BY <1>2, <1>5

LEMMA PieceLands ==
    ASSUME NEW r, Running(r), NEW b \in Blocks, NEW s \in Nat, NEW q \in Nat, Piece(r, b, s, q)
    PROVE  EventAt(Landing[b]) = Upcoming(s)
<1>. DEFINE Wrong(i) == \E a \in Blocks, e \in Nat :
                          Piece(r, a, i, e) /\ EventAt(Landing[a]) # Upcoming(i)
            n == Len(prog) + 1
            S == {i \in 0..n : Wrong(i)}
<1>1. SUFFICES ASSUME EventAt(Landing[b]) # Upcoming(s) PROVE FALSE
  OBVIOUS
<1>2. n \in Nat /\ Len(prog) \in Nat
  BY RunningTypes
<1>3. S # {}
  <2>1. s \in 0..n
    BY <1>2, PieceRuns
  <2>2. Wrong(s)
    BY <1>1
  <2>. QED  BY <2>1, <2>2
<1>4. PICK m \in S : \A k \in S : k <= m
  <2>1. S \in SUBSET (0..n)
    OBVIOUS
  <2>. HIDE DEF S, n
  <2>. QED  BY <1>2, <1>3, <2>1, Greatest
<1>5. PICK a \in Blocks, e \in Nat : Piece(r, a, m, e) /\ EventAt(Landing[a]) # Upcoming(m)
  BY <1>4
<1>6. m \in Nat /\ m \in 1..n /\ e \in m..n
  BY <1>2, <1>5, PieceRuns
<1>7. CASE a \in Passing
  <2>1. term[a].t \in Blocks /\ e = m /\ Landing[a] = Landing[term[a].t] /\ term[a].kind = "br"
    BY <1>5, <1>6, <1>7, PassingIs, LandingIs DEF Passing
  <2>2. m \in 1..Len(prog) /\ Leads(prog, m, r[term[a].t])
    <3>1. /\ m \in 1..Len(prog)
          /\ \/ Leads(prog, m, r[term[a].t])
             \/ code[a] = Append(Acts(m, m), <<m, "init">>)
      <4>1. Piece(r, a, m, m)
        BY <1>5, <2>1
      <4>. QED  BY <2>1, <4>1, PieceJumps
    <3>2. code[a] = <<>>
      BY <1>7 DEF Passing
    <3>3. \A x : x = <<m, "init">> => code[a] # Append(Acts(m, m), x)
      BY <1>6, <3>2, NeverEmpty
    <3>. QED  BY <3>1, <3>3
  <2>3. ASSUME NEW i \in Nat, NEW j \in Nat, m < i, Piece(r, term[a].t, i, j)
        PROVE  EventAt(Landing[term[a].t]) = Upcoming(i)
    <3>1. i \in 0..n
      BY <1>2, <2>1, <2>3, PieceRuns
    <3>2. i \notin S
      BY <1>4, <1>6, <2>3
    <3>. QED  BY <2>1, <2>3, <3>1, <3>2
  <2>4. EventAt(Landing[term[a].t]) = Upcoming(m)
    BY <2>1, <2>2, <2>3, JumpLands
  <2>. QED  BY <1>5, <2>1, <2>4
<1>8. CASE a \notin Passing
  <2>1. Landing[a] = <<a, 1>>
    BY <1>8, LandingIs
  <2>2. Len(code[a]) \in Nat
    BY RunningTypes
  <2>3. ~(1 = Len(code[a]) + 1 /\ term[a].kind = "br")
    <3>1. SUFFICES ASSUME Len(code[a]) = 0, term[a].kind = "br" PROVE FALSE
      BY <2>2
    <3>2. code[a] # <<>>
      BY <1>8, <3>1 DEF Passing
    <3>3. code[a] \in Seq(Event)
      BY BlockTypes DEF Running
    <3>. QED  BY <3>1, <3>2, <3>3
  <2>4. 1 \in 1..(Len(code[a]) + 1) /\ m + 1 - 1 = m
    BY <1>6, <2>2
  <2>5. EventAt(<<a, 1>>) = Upcoming(m + 1 - 1)
    BY <1>5, <2>3, <2>4, PieceShows
  <2>. QED  BY <1>5, <2>1, <2>4, <2>5
<1>. QED  BY <1>7, <1>8

-----------------------------------------------------------------------------
(* The steps of the blocks are steps of the source. *)

LEMMA ShownFirst ==
    ASSUME NEW r, Running(r), NEW t \in Blocks
    PROVE  Shown(t, 1) = EventAt(Landing[t])
<1>1. Len(code[t]) \in Nat /\ code[t] \in Seq(Event)
  BY RunningTypes, BlockTypes DEF Running
<1>2. 1 = Len(code[t]) + 1 <=> code[t] = <<>>
  BY <1>1
<1>3. CASE t \in Passing
  BY <1>2, <1>3, LandingIs DEF Passing, Shown
<1>4. CASE t \notin Passing
  BY <1>2, <1>4, LandingIs DEF Passing, Shown
<1>. QED  BY <1>3, <1>4

\* A block that begins with a token shows what that token does first.
LEMMA RoleLands ==
    ASSUME NEW r, Running(r), NEW t \in Blocks, r[t][1] \notin {"cond", "inc"}
    PROVE  \E s \in 1..(Len(prog) + 1) : Begins(prog, r[t], s) /\ Shown(t, 1) = Upcoming(s)
<1>1. ASSUME NEW i PROVE ~(\/ Test(prog, r, r[t], code[t], term[t], i)
                           \/ Step(prog, r, r[t], code[t], term[t], i))
  BY DEF Test, Step
<1>2. PICK s \in Nat, q \in Nat : Piece(r, t, s, q)
  BY <1>1, Pieces
<1>3. s \in 1..(Len(prog) + 1) /\ Begins(prog, r[t], s)
  BY <1>2, PieceRuns
<1>4. Shown(t, 1) = Upcoming(s)
  BY <1>2, PieceLands, ShownFirst
<1>. QED  BY <1>3, <1>4

LEMMA LoopShows ==
    ASSUME NEW r, Running(r), NEW t \in Blocks, NEW x \in {"cond", "inc"}, NEW i, r[t] = <<x, i>>
    PROVE  EventAt(Landing[t]) = <<i, x>> /\ EventAt(<<t, 1>>) = <<i, x>>
<1>1. r[t][1] = x /\ r[t][2] = i
  OBVIOUS
<1>. QED  BY <1>1, LoopLands

LEMMA PieceShown ==
    ASSUME NEW r, Running(r), NEW b \in Blocks, NEW s \in Nat, NEW q \in Nat, Piece(r, b, s, q),
           NEW c \in 1..(Len(code[b]) + 1)
    PROVE  \/ /\ s + c - 1 \in s..q /\ Shown(b, c) = Upcoming(s + c - 1)
              /\ c <= q - s => Shown(b, c) = <<s + c - 1, "act">>
           \/ c = q - s + 2 /\ Shown(b, c) = <<q, "cond">>
<1>1. s <= q /\ c \in Nat \ {0}
  BY PieceRuns, RunningTypes
<1>2. /\ Len(Acts(s, q)) = q - s
      /\ \A e : Len(Append(Acts(s, q), e)) = q - s + 1
  BY <1>1, ActsAre
<1>3. CASE ~(c = Len(code[b]) + 1 /\ term[b].kind = "br")
  <2>1. Shown(b, c) = EventAt(<<b, c>>)
    BY <1>3 DEF Shown
  <2>2. /\ EventAt(<<b, c>>) = Upcoming(s + c - 1) /\ s + c - 1 \in s..q
        /\ c <= q - s => EventAt(<<b, c>>) = <<s + c - 1, "act">>
    BY <1>3, PieceShows
  <2>. QED  BY <2>1, <2>2
<1>4. CASE c = Len(code[b]) + 1 /\ term[b].kind = "br"
  <2>. DEFINE t == term[b].t
  <2>1. Shown(b, c) = EventAt(Landing[t])
    BY <1>4 DEF Shown
  <2>2. /\ q \in 1..Len(prog) /\ t \in Blocks
        /\ \/ code[b] = Acts(s, q) /\ Leads(prog, q, r[t])
           \/ code[b] = Append(Acts(s, q), <<q, "init">>) /\ r[t] = <<"cond", q>>
    BY <1>4, PieceJumps
  <2>. HIDE DEF t
  <2>3. CASE code[b] = Acts(s, q) /\ Leads(prog, q, r[t])
    <3>1. \A i, e \in Nat : q < i /\ Piece(r, t, i, e) => EventAt(Landing[t]) = Upcoming(i)
      BY <2>2, PieceLands
    <3>2. EventAt(Landing[t]) = Upcoming(q)
      BY <2>2, <2>3, <3>1, JumpLands
    <3>3. c = q - s + 1
      BY <1>2, <1>4, <2>3
    <3>4. s + c - 1 = q /\ ~(c <= q - s) /\ q \in s..q
      BY <1>1, <3>3
    <3>5. s + c - 1 \in s..q /\ Shown(b, c) = Upcoming(s + c - 1)
      BY <2>1, <3>2, <3>4
    <3>. QED  BY <3>4, <3>5
  <2>4. CASE code[b] = Append(Acts(s, q), <<q, "init">>) /\ r[t] = <<"cond", q>>
    <3>1. c = q - s + 2
      <4>1. Len(code[b]) = q - s + 1
        BY <1>2, <2>4
      <4>. QED  BY <1>1, <1>4, <4>1
    <3>2. EventAt(Landing[t]) = <<q, "cond">>
      BY <2>2, <2>4, LoopShows
    <3>. QED  BY <2>1, <3>1, <3>2
  <2>. QED  BY <2>2, <2>3, <2>4
<1>. QED  BY <1>3, <1>4

LEMMA SuccessorsAre ==
    ASSUME NEW i
    PROVE  /\ Source!Successors(prog, <<i, "act">>) = {Upcoming(i + 1)}
           /\ Source!Successors(prog, <<i, "init">>) = {<<i, "cond">>}
           /\ Source!Successors(prog, <<i, "inc">>) = {<<i, "cond">>}
           /\ prog[i] = "ifelse" =>
                Source!Successors(prog, <<i, "cond">>) =
                  {Upcoming(i + 1), Upcoming(Source!ElseOf(prog, i) + 1)}
           /\ prog[i] # "ifelse" =>
                Source!Successors(prog, <<i, "cond">>) =
                  {Upcoming(i + 1), Upcoming(Source!Closing(prog, i) + 1)}
BY DEF Source!Successors, Upcoming

\* The event x follows the event e of the source.
Follows(e, x) == x \in Source!Successors(prog, e) /\ e # <<0, "parse">>

LEMMA FollowsIf ==
    ASSUME NEW i, NEW e, NEW x,
           \/ e = <<i, "act">> /\ x = Upcoming(i + 1)
           \/ e \in {<<i, "init">>, <<i, "inc">>} /\ x = <<i, "cond">>
           \/ e = <<i, "cond">> /\ \/ x = Upcoming(i + 1)
                                   \/ prog[i] = "ifelse" /\ x = Upcoming(Source!ElseOf(prog, i) + 1)
                                   \/ prog[i] # "ifelse" /\ x = Upcoming(Source!Closing(prog, i) + 1)
    PROVE  Follows(e, x)
<1>1. e # <<0, "parse">>
  OBVIOUS
<1>2. CASE e = <<i, "act">> /\ x = Upcoming(i + 1)
  BY <1>1, <1>2, SuccessorsAre DEF Follows
<1>3. CASE e \in {<<i, "init">>, <<i, "inc">>} /\ x = <<i, "cond">>
  BY <1>1, <1>3, SuccessorsAre DEF Follows
<1>4. CASE e = <<i, "cond">> /\ prog[i] = "ifelse"
           /\ x \in {Upcoming(i + 1), Upcoming(Source!ElseOf(prog, i) + 1)}
  BY <1>1, <1>4, SuccessorsAre DEF Follows
<1>5. CASE e = <<i, "cond">> /\ prog[i] # "ifelse"
           /\ x \in {Upcoming(i + 1), Upcoming(Source!Closing(prog, i) + 1)}
  BY <1>1, <1>5, SuccessorsAre DEF Follows
<1>. QED  BY <1>2, <1>3, <1>4, <1>5

\* An instruction and the next one of its block.
LEMMA ExecShown ==
    ASSUME NEW r, Running(r), NEW b \in Blocks, NEW c \in 1..Len(code[b])
    PROVE  Follows(Shown(b, c), Shown(b, c + 1))
<1>1. Len(code[b]) \in Nat /\ Len(prog) \in Nat /\ Whole(prog)
  BY RunningTypes DEF Running
<1>2. c \in 1..(Len(code[b]) + 1) /\ c + 1 \in 1..(Len(code[b]) + 1) /\ c # Len(code[b]) + 1
  BY <1>1
<1>3. ASSUME NEW s \in Nat, NEW q \in Nat, Piece(r, b, s, q)
      PROVE  Follows(Shown(b, c), Shown(b, c + 1))
  <2>1. s <= q /\ s \in 1..(Len(prog) + 1) /\ q \in s..(Len(prog) + 1)
    BY <1>1, <1>3, PieceRuns
  <2>2. /\ Len(Acts(s, q)) = q - s
        /\ \A e : Len(Append(Acts(s, q), e)) = q - s + 1
    BY <2>1, ActsAre
  <2>3. PICK d : d = c + 1
    OBVIOUS
  <2>4. \/ s + d - 1 \in s..q /\ Shown(b, d) = Upcoming(s + d - 1)
        \/ d = q - s + 2 /\ Shown(b, d) = <<q, "cond">>
    <3>1. d \in 1..(Len(code[b]) + 1)
      BY <1>2, <2>3
    <3>. QED  BY <1>3, <3>1, PieceShown
  <2>5. CASE c <= q - s
    <3>1. Shown(b, c) = <<s + c - 1, "act">>
      BY <1>2, <1>3, <2>1, <2>5, PieceShown
    <3>2. s + d - 1 = s + c - 1 + 1 /\ d # q - s + 2
      BY <1>2, <2>1, <2>3, <2>5
    <3>3. Shown(b, d) = Upcoming(s + c - 1 + 1)
      BY <2>4, <3>2
    <3>. QED  BY <2>3, <3>1, <3>3, FollowsIf
  <2>6. CASE ~(c <= q - s)
    <3>1. code[b] = Append(Acts(s, q), <<q, "init">>) /\ prog[q] = "for" /\ q <= Len(prog)
          /\ c = q - s + 1
      <4>1. code[b] # Acts(s, q)
        BY <1>2, <2>1, <2>2, <2>6
      <4>2. /\ code[b] = Append(Acts(s, q), <<q, "init">>) /\ prog[q] = "for" /\ q <= Len(prog)
        BY <1>3, <4>1 DEF Piece, Line
      <4>3. Len(code[b]) = q - s + 1
        BY <2>2, <4>2
      <4>. QED  BY <1>2, <2>1, <2>6, <4>2, <4>3
    <3>2. Shown(b, c) = Upcoming(q)
      <4>1. \/ s + c - 1 \in s..q /\ Shown(b, c) = Upcoming(s + c - 1)
            \/ c = q - s + 2
        BY <1>2, <1>3, PieceShown
      <4>2. s + c - 1 = q /\ c # q - s + 2
        BY <2>1, <3>1
      <4>. QED  BY <4>1, <4>2
    <3>3. q \in 1..(Len(prog) + 1) /\ q # Len(prog) + 1
      BY <1>1, <2>1, <3>1
    <3>4. Upcoming(q) = <<q, "init">>
      BY <1>1, <3>1, <3>3, ReachesWhat DEF Upcoming
    <3>5. Shown(b, d) = <<q, "cond">>
      <4>1. ~(s + d - 1 \in s..q)
        BY <2>1, <2>3, <3>1
      <4>. QED  BY <2>4, <4>1
    <3>. QED  BY <2>3, <3>2, <3>4, <3>5, FollowsIf
  <2>. QED  BY <2>5, <2>6
<1>4. ASSUME NEW i, Test(prog, r, r[b], code[b], term[b], i) PROVE FALSE
  BY <1>2, <1>4 DEF Test
<1>5. ASSUME NEW i, Step(prog, r, r[b], code[b], term[b], i)
      PROVE  Follows(Shown(b, c), Shown(b, c + 1))
  <2>1. /\ r[b] = <<"inc", i>> /\ code[b] = <<<<i, "inc">>>>
        /\ term[b] = Br(term[b].t) /\ r[term[b].t] = <<"cond", i>>
    BY <1>5 DEF Step
  <2>2. Len(code[b]) = 1
    <3>1. Len(<<<<i, "inc">>>>) = 1
      OBVIOUS
    <3>. QED  BY <2>1, <3>1
  <2>3. c = 1 /\ c + 1 = Len(code[b]) + 1
    BY <2>2
  <2>4. term[b].kind = "br" /\ term[b].t \in Blocks
    <3>1. term[b].kind = "br"
      BY <2>1 DEF Br
    <3>. QED  BY <3>1, RunningTypes DEF BranchOK
  <2>5. Shown(b, c) = <<i, "inc">>
    <3>1. EventAt(<<b, 1>>) = <<i, "inc">>
      BY <2>1, LoopShows
    <3>. QED  BY <1>2, <2>3, <3>1 DEF Shown
  <2>6. Shown(b, c + 1) = EventAt(Landing[term[b].t])
    BY <2>3, <2>4 DEF Shown
  <2>7. EventAt(Landing[term[b].t]) = <<i, "cond">>
    BY <2>1, <2>4, LoopShows
  <2>. QED  BY <2>5, <2>6, <2>7, FollowsIf
<1>. QED  BY <1>3, <1>4, <1>5, Pieces

\* A condition and what follows it.
LEMMA BranchShown ==
    ASSUME NEW r, Running(r), NEW b \in Blocks, term[b].kind = "cbr",
           NEW t, t = term[b].t \/ t = term[b].f
    PROVE  t \in Blocks /\ Follows(term[b].ev, Shown(t, 1))
<1>1. t \in Blocks /\ Len(prog) \in Nat /\ Whole(prog)
  BY RunningTypes DEF Running, BranchOK
<1>2. PICK i \in 1..Len(prog) :
        /\ term[b].ev = <<i, "cond">> /\ prog[i] \in Openers
        /\ r[term[b].t] = <<"body", i>>
        /\ r[term[b].f] = <<IF prog[i] = "ifelse" THEN "else" ELSE "merge", i>>
  <2>1. ASSUME NEW s \in Nat, NEW q \in Nat, Piece(r, b, s, q)
        PROVE  /\ q \in 1..Len(prog) /\ term[b].ev = <<q, "cond">> /\ prog[q] \in Openers
               /\ r[term[b].t] = <<"body", q>>
               /\ r[term[b].f] = <<IF prog[q] = "ifelse" THEN "else" ELSE "merge", q>>
    <3>1. q <= Len(prog) /\ Ends(prog, r, q, term[b])
      BY <2>1 DEF Piece, Line, Ret, Br
    <3>2. q \in 1..Len(prog)
      BY <1>1, <2>1, <3>1, PieceRuns
    <3>3. /\ prog[q] \in {"if", "ifelse"} /\ term[b] = Cbr(<<q, "cond">>, term[b].t, term[b].f)
          /\ r[term[b].t] = <<"body", q>>
          /\ r[term[b].f] = <<IF prog[q] = "if" THEN "merge" ELSE "else", q>>
      BY <3>1 DEF Ends, Ret, Br
    <3>. QED  BY <3>2, <3>3 DEF Cbr, Openers
  <2>2. ASSUME NEW i, Test(prog, r, r[b], code[b], term[b], i)
        PROVE  /\ i \in 1..Len(prog) /\ term[b].ev = <<i, "cond">> /\ prog[i] \in Openers
               /\ r[term[b].t] = <<"body", i>>
               /\ r[term[b].f] = <<IF prog[i] = "ifelse" THEN "else" ELSE "merge", i>>
    <3>1. /\ i \in 1..Len(prog) /\ prog[i] \in Loops
          /\ term[b] = Cbr(<<i, "cond">>, term[b].t, term[b].f)
          /\ r[term[b].t] = <<"body", i>> /\ r[term[b].f] = <<"merge", i>>
      BY <2>2 DEF Test
    <3>. QED  BY <3>1 DEF Cbr, Openers, Loops
  <2>3. ASSUME NEW i, Step(prog, r, r[b], code[b], term[b], i) PROVE FALSE
    BY <2>3 DEF Step, Br
  <2>. QED  BY <2>1, <2>2, <2>3, Pieces
<1>3. r[t][1] \notin {"cond", "inc"}
  BY <1>2
<1>4. PICK s \in 1..(Len(prog) + 1) : Begins(prog, r[t], s) /\ Shown(t, 1) = Upcoming(s)
  BY <1>1, <1>3, RoleLands
<1>5. s \in Nat /\ i \in 0..Len(prog) /\ i \in Nat \ {0}
  BY <1>1
<1>6. i \in Source!OpenAt(prog, i)
  <2>1. Depth(prog, i) >= Depth(prog, i)
    <3>1. Depth(prog, i) \in Int
      BY <1>5, DepthNext
    <3>. QED  BY <3>1
  <2>2. \A j \in i..i : j = i
    BY <1>5
  <2>. QED  BY <1>2, <1>5, <2>1, <2>2, OpenIs
<1>7. PICK j : Closes(prog, i, j)
  BY <1>1, <1>5, <1>6, OpenerCloses
<1>8. CASE r[t] = <<"body", i>>
  <2>1. s = i + 1
    BY <1>4, <1>8 DEF Begins
  <2>. QED  BY <1>1, <1>2, <1>4, <2>1, FollowsIf
<1>9. CASE r[t] = <<"merge", i>> /\ prog[i] # "ifelse"
  <2>1. Closes(prog, i, s - 1)
    BY <1>4, <1>9 DEF Begins
  <2>2. Source!Closing(prog, i) = s - 1
    BY <1>1, <1>5, <2>1, ClosingIs
  <2>3. s = Source!Closing(prog, i) + 1
    BY <1>5, <2>2
  <2>. QED  BY <1>1, <1>2, <1>4, <1>9, <2>3, FollowsIf
<1>10. CASE r[t] = <<"else", i>> /\ prog[i] = "ifelse"
  <2>1. s - 1 \in Elses(prog, i)
    BY <1>4, <1>10 DEF Begins
  <2>2. \A d \in Elses(prog, i) : d = s - 1
    BY <1>1, <1>2, <2>1 DEF Whole, Sane
  <2>3. Source!ElseOf(prog, i) = s - 1
    BY <1>1, <1>5, <1>7, <2>1, <2>2, ElseIs
  <2>4. s = Source!ElseOf(prog, i) + 1
    BY <1>5, <2>3
  <2>. QED  BY <1>1, <1>2, <1>4, <1>10, <2>4, FollowsIf
<1>. QED  BY <1>2, <1>8, <1>9, <1>10

-----------------------------------------------------------------------------
(* The refinement. *)

LEMMA FlowRuns ==
    ASSUME TypeOK, Flow, phase = "run"
    PROVE  \E r : Running(r)
<1>1. PICK r : Laid(r)
  BY DEF Flow
<1>2. stack = <<>> /\ Len(stack) = 0
  BY DEF Flow
<1>3. Whole(prog)
  BY <1>2 DEF Flow, Nesting, Nests, Whole, TypeOK
<1>4. Running(r)
  BY <1>1, <1>2, <1>3 DEF Running
<1>. QED  BY <1>4

LEMMA ObservedIs ==
    ASSUME TypeOK, phase = "run"
    PROVE  /\ ip[1] \in Blocks /\ ip[2] \in 1..(Len(code[ip[1]]) + 1) /\ ip = <<ip[1], ip[2]>>
           /\ Observed = Shown(ip[1], ip[2])
<1>1. /\ ip \in Blocks \X (Nat \ {0}) /\ ip[2] <= Len(code[ip[1]]) + 1
      /\ code \in [Blocks -> Seq(Event)]
  BY DEF TypeOK, CodeTable, Blocks
<1>2. ip[1] \in Blocks /\ ip[2] \in 1..(Len(code[ip[1]]) + 1) /\ ip = <<ip[1], ip[2]>>
  BY <1>1
<1>3. Observed = Shown(ip[1], ip[2])
  <2>1. AtEnd(ip) <=> ip[2] = Len(code[ip[1]]) + 1
    BY DEF AtEnd
  <2>. QED  BY <1>2, <2>1 DEF Observed, Shown
<1>. QED  BY <1>2, <1>3

\* The run starts where the source does.
Starting == phase = "run" /\ ip = <<1, 1>> => Observed = Source!Settle(prog)[1]

LEMMA FlowStarts == TypeOK /\ Flow => Starting
<1>. SUFFICES ASSUME TypeOK, Flow, phase = "run", ip = <<1, 1>>
              PROVE  Observed = Source!Settle(prog)[1]
  BY DEF Starting
<1>1. PICK r : Running(r)
  BY FlowRuns
<1>2. Observed = Shown(1, 1) /\ 1 \in Blocks
  BY ObservedIs
<1>3. r[1] = <<"entry", 1>>
  BY <1>1 DEF Running, Laid
<1>4. PICK s \in 1..(Len(prog) + 1) : Begins(prog, r[1], s) /\ Shown(1, 1) = Upcoming(s)
  BY <1>1, <1>2, <1>3, RoleLands
<1>5. s = 1
  BY <1>3, <1>4 DEF Begins
<1>. QED  BY <1>2, <1>4, <1>5 DEF Upcoming

\* Running the blocks changes none of them.
LEMMA SameShown ==
    ASSUME UNCHANGED <<nblocks, code, term>>, NEW b, NEW c
    PROVE  Shown(b, c)' = Shown(b, c)
<1>. DEFINE L(n, cd, tm) == CHOOSE Landing_0 : Landing_0 =
              [a \in 1..n |-> IF cd[a] = <<>> /\ tm[a].kind = "br" THEN Landing_0[tm[a].t] ELSE <<a, 1>>]
<1>1. Landing = L(nblocks, code, term)
  BY DEF Landing, Blocks
<1>2. Landing' = L(nblocks', code', term')
  BY DEF Landing, Blocks
<1>3. Landing' = Landing
  <2>. HIDE DEF L
  <2>. QED  BY <1>1, <1>2
<1>4. \A a, d : EventAt(<<a, d>>)' = EventAt(<<a, d>>)
  BY DEF EventAt, AtEnd
<1>. QED  BY <1>3, <1>4 DEF Shown, EventAt, AtEnd

\* A token that arrives is one that the grammar admits, and nothing runs yet.
LEMMA ParseStep ==
    ASSUME TypeOK, Flow, [Next]_vars, NEW op \in Ops, Admitted(op), phase' = "lower"
    PROVE  Source!FlowParse(op)
<1>1. phase = "lower" /\ prog' = Append(prog, op) /\ prog' # prog
  <2>1. phase = "lower" /\ prog' = Append(prog, op)
    BY DEF Admitted
  <2>2. Grown(prog, op, prog')
    BY AdmittedGrows
  <2>3. Len(prog') = Len(prog) + 1 /\ Len(prog) \in Nat
    BY <2>2, Appended
  <2>. QED  BY <2>1, <2>3
<1>2. Observed = Source!Parsing /\ Observed' = Source!Parsing
  BY <1>1 DEF Observed, Source!Parsing
<1>3. /\ Len(prog) \in Nat /\ Stacked(stack) /\ Len(stack) \in Nat
      /\ Nests(prog, stack) /\ Sane(prog)
  BY StackType DEF Flow, Nesting
<1>4. Source!Admits(prog, op)
  <2>1. CASE op \in {"break", "continue"}
    <3>1. PICK m \in 1..Len(stack) : stack[m].op \in Loops
      BY <2>1, LoopOpen
    <3>2. stack[m].at \in Source!LoopsAt(prog, Len(prog))
      BY <1>3, <3>1, LoopIsOpen
    <3>. QED  BY <2>1, <3>2 DEF Source!Admits
  <2>2. CASE op \in {"else", "end"}
    <3>1. Len(stack) # 0 /\ \/ op = "else" /\ Top.op = "ifelse"
                            \/ op = "end" /\ Top.op # "ifelse"
      <4>1. ASSUME NEW o \in Ops, Admitted(o) PROVE o = op
        <5>1. prog'[Len(prog) + 1] = o /\ prog'[Len(prog) + 1] = op
          BY <4>1, AdmittedGrows, Appended
        <5>. QED  BY <5>1
      <4>2. "else" # "end" /\ "else" \in Ops /\ "end" \in Ops /\ op \notin Simple
            /\ op \notin Openers /\ Simple \subseteq Ops /\ Openers \subseteq Ops
        BY <2>2 DEF Ops, Simple, Openers, Loops
      <4>3. \/ Admitted("else") /\ Turns
            \/ Admitted("end") /\ Pops
        BY <1>1, <4>1, <4>2, Shape
      <4>. QED  BY <4>1, <4>2, <4>3 DEF Turns, Pops
    <3>. DEFINE k == Source!Innermost(Source!OpenAt(prog, Len(prog)))
    <3>2. Source!OpenAt(prog, Len(prog)) # {} /\ k = Top.at
      BY <1>3, <3>1, TopInnermost DEF Top
    <3>3. /\ k \in 1..Len(prog) /\ prog[k] = IF Top.op = "else" THEN "ifelse" ELSE Top.op
          /\ Top.op = "else" <=> Elses(prog, k) # {}
      <4>1. Len(stack) \in 1..Len(stack)
        BY <1>3, <3>1
      <4>2. Nested(prog, Top, Len(stack))
        BY <1>3, <4>1 DEF Nests, Top
      <4>. HIDE DEF k
      <4>. QED  BY <3>2, <4>2 DEF Nested
    <3>4. Source!HasElse(prog, k) <=> Elses(prog, k) # {}
      <4>. HIDE DEF k
      <4>. QED  BY <1>3, <3>3, HasElseIs
    <3>5. CASE op = "else" /\ Top.op = "ifelse"
      BY <3>2, <3>3, <3>4, <3>5 DEF Source!Admits
    <3>6. CASE op = "end" /\ Top.op # "ifelse"
      BY <3>2, <3>3, <3>4, <3>6 DEF Source!Admits
    <3>. QED  BY <3>1, <3>5, <3>6
  <2>3. CASE op \notin {"break", "continue", "else", "end"}
    BY <2>3, SameWords DEF Source!Admits
  <2>. QED  BY <2>1, <2>2, <2>3
<1>. QED  BY <1>1, <1>2, <1>4 DEF Source!FlowParse

LEMMA StartStep ==
    ASSUME TypeOK, Flow, Starting', Finish
    PROVE  Source!FlowStart
<1>1. /\ phase = "lower" /\ phase' = "run" /\ ip' = <<1, 1>> /\ prog' = prog /\ stack = <<>>
  BY DEF Finish
<1>2. Observed = Source!Parsing
  BY <1>1 DEF Observed, Source!Parsing
<1>3. Observed' = Source!Settle(prog')[1]
  BY <1>1 DEF Starting
<1>4. Source!OpenAt(prog, Len(prog)) = {}
  <2>1. Len(stack) = 0
    BY <1>1
  <2>. QED  BY <2>1, StackType, TopInnermost DEF Flow, Nesting
<1>. QED  BY <1>1, <1>2, <1>3, <1>4 DEF Source!FlowStart

LEMMA ObservedShown == TypeOK /\ phase = "run" => Observed = Shown(ip[1], ip[2])
BY ObservedIs

LEMMA ObservedNext == (TypeOK /\ phase = "run" => Observed = Shown(ip[1], ip[2]))'
BY ObservedShown, PTL

\* An instruction, and a condition, are steps of the source; a branch and the end are none.
LEMMA RunStep ==
    ASSUME TypeOK, Flow, TypeOK', RunNext
    PROVE  Source!FlowStep \/ UNCHANGED Source!flowVars
<1>1. phase = "run" /\ UNCHANGED <<prog, phase, nblocks, code, term>>
  BY DEF RunNext, Exec, Jump, Branch, Returned, vars
<1>2. PICK r : Running(r)
  BY <1>1, FlowRuns
<1>3. PICK b, c : ip = <<b, c>> /\ b \in Blocks /\ c \in 1..(Len(code[b]) + 1)
                  /\ Observed = Shown(b, c)
  BY <1>1, ObservedIs
<1>4. ASSUME NEW a, NEW d, ip' = <<a, d>> PROVE Observed' = Shown(a, d)
  <2>1. Observed' = Shown(a, d)'
    BY <1>1, <1>4, ObservedNext
  <2>. QED  BY <1>1, <2>1, SameShown
<1>5. AtEnd(ip) <=> c = Len(code[b]) + 1
  BY <1>3, EventIs
<1>6. Len(code[b]) \in Nat
  BY <1>2, <1>3, RunningTypes
<1>7. ASSUME NEW a, NEW d, ip' = <<a, d>>, Follows(Shown(b, c), Shown(a, d))
      PROVE  Source!FlowStep
  <2>1. Observed' \in Source!Successors(prog, Observed) /\ Observed # Source!Parsing
    BY <1>3, <1>4, <1>7 DEF Follows, Source!Parsing
  <2>. QED  BY <1>1, <2>1 DEF Source!FlowStep
<1>8. CASE Exec
  <2>1. c \in 1..Len(code[b]) /\ ip' = <<b, c + 1>>
    BY <1>3, <1>5, <1>6, <1>8 DEF Exec
  <2>2. PICK d : d = c + 1
    OBVIOUS
  <2>3. Follows(Shown(b, c), Shown(b, c + 1))
    BY <1>2, <1>3, <2>1, ExecShown
  <2>. QED  BY <1>7, <2>1, <2>2, <2>3
<1>9. CASE Jump
  <2>1. PICK t : t = term[b].t
    OBVIOUS
  <2>2. c = Len(code[b]) + 1 /\ term[b].kind = "br" /\ ip' = <<t, 1>>
    BY <1>3, <1>5, <1>9, <2>1 DEF Jump
  <2>3. t \in Blocks
    BY <1>2, <1>3, <2>1, <2>2, RunningTypes DEF BranchOK
  <2>4. Shown(b, c) = EventAt(Landing[t])
    BY <2>1, <2>2 DEF Shown
  <2>5. Observed' = Observed
    BY <1>2, <1>3, <1>4, <2>2, <2>3, <2>4, ShownFirst
  <2>. QED  BY <1>1, <2>5 DEF Source!flowVars
<1>10. ASSUME NEW taken \in BOOLEAN, Branch(taken) PROVE Source!FlowStep
  <2>1. PICK t : t = IF taken THEN term[b].t ELSE term[b].f
    OBVIOUS
  <2>2. c = Len(code[b]) + 1 /\ term[b].kind = "cbr" /\ ip' = <<t, 1>>
    BY <1>3, <1>5, <1>10, <2>1 DEF Branch
  <2>3. Follows(term[b].ev, Shown(t, 1))
    BY <1>2, <1>3, <2>1, <2>2, BranchShown
  <2>4. Shown(b, c) = term[b].ev
    <3>1. EventAt(<<b, c>>) = term[b].ev
      BY <2>2, EventIs
    <3>. QED  BY <2>2, <3>1 DEF Shown
  <2>. QED  BY <1>7, <2>2, <2>3, <2>4
<1>11. CASE Returned
  <2>1. ip' = <<b, c>>
    BY <1>3, <1>11 DEF Returned, vars
  <2>2. Observed' = Observed
    BY <1>3, <1>4, <2>1
  <2>. QED  BY <1>1, <2>2 DEF Source!flowVars
<1>. QED  BY <1>8, <1>9, <1>10, <1>11 DEF RunNext

\* While the text is read, every other step than the last one reads a token.
LEMMA LowerSteps ==
    ASSUME LowerNext
    PROVE  Finish \/ (phase' = "lower" /\ \E op \in Ops : Admitted(op))
<1>1. /\ {"act", "return", "break", "continue", "if", "ifelse", "while", "for", "else", "end"} \subseteq Ops
      /\ Simple \subseteq Ops /\ Openers \subseteq Ops
  BY DEF Ops, Simple, Openers, Loops
<1>2. ASSUME NEW op \in Ops, Admitted(op), UNCHANGED phase
      PROVE  phase' = "lower" /\ \E o \in Ops : Admitted(o)
  BY <1>2 DEF Admitted
<1>3. ASSUME NEW op \in Simple, SkipSimple(op)
      PROVE  phase' = "lower" /\ \E o \in Ops : Admitted(o)
  BY <1>1, <1>2, <1>3 DEF SkipSimple
<1>4. ASSUME NEW op \in Openers, SkipOpen(op)
      PROVE  phase' = "lower" /\ \E o \in Ops : Admitted(o)
  BY <1>1, <1>2, <1>4 DEF SkipOpen
<1>5. ASSUME NEW op \in {"break", "continue"}, LowerJump(op)
      PROVE  phase' = "lower" /\ \E o \in Ops : Admitted(o)
  BY <1>1, <1>2, <1>5 DEF LowerJump
<1>6. ASSUME NEW y, LowerIf(y) \/ LowerIfElse(y) \/ LowerWhile(y) \/ LowerFor(y)
      PROVE  phase' = "lower" /\ \E o \in Ops : Admitted(o)
  BY <1>1, <1>2, <1>6 DEF LowerIf, LowerIfElse, LowerWhile, LowerFor
<1>7. CASE \/ LowerAct \/ LowerReturn \/ SkipElse \/ LowerElse
           \/ SkipEnd \/ EndIf \/ EndWhile \/ EndFor
  BY <1>1, <1>2, <1>7
     DEF LowerAct, LowerReturn, SkipElse, LowerElse, SkipEnd, EndIf, EndWhile, EndFor
<1>. QED  BY <1>3, <1>4, <1>5, <1>6, <1>7 DEF LowerNext

LEMMA SourceNext ==
    TypeOK /\ Flow /\ TypeOK' /\ Starting' /\ [Next]_vars => [Source!FlowNext]_Source!flowVars
<1>. SUFFICES ASSUME TypeOK, Flow, TypeOK', Starting', [Next]_vars
              PROVE  Source!FlowNext \/ UNCHANGED Source!flowVars
  OBVIOUS
<1>1. CASE LowerNext
  <2>1. ASSUME NEW op \in Ops, Admitted(op), phase' = "lower" PROVE Source!FlowNext
    <3>1. Source!FlowParse(op)
      BY <2>1, ParseStep
    <3>. QED  BY <2>1, <3>1, SameWords DEF Source!FlowNext
  <2>2. CASE Finish
    BY <2>2, StartStep DEF Source!FlowNext
  <2>. QED  BY <1>1, <2>1, <2>2, LowerSteps
<1>2. CASE RunNext
  BY <1>2, RunStep DEF Source!FlowNext
<1>3. CASE UNCHANGED vars
  <2>1. UNCHANGED <<prog, phase, nblocks, code, term, ip>>
    BY <1>3 DEF vars
  <2>2. Observed' = Observed
    <3>1. CASE phase = "lower"
      BY <2>1, <3>1 DEF Observed
    <3>2. CASE phase = "run"
      <4>1. PICK b, c : ip = <<b, c>> /\ Observed = Shown(b, c)
        BY <3>2, ObservedIs
      <4>2. Observed' = Shown(b, c)'
        BY <2>1, <3>2, <4>1, ObservedNext
      <4>. QED  BY <2>1, <4>1, <4>2, SameShown
    <3>. QED  BY <3>1, <3>2 DEF TypeOK
  <2>. QED  BY <2>1, <2>2 DEF Source!flowVars
<1>. QED  BY <1>1, <1>2, <1>3 DEF Next

LEMMA SourceInit == Init => Source!FlowInit
BY DEF Init, Source!FlowInit, Observed, Source!Parsing

\* Whatever the source text is and however deep its statements are nested, the blocks that
\* it is lowered to do what it says: SourceSemantics.
THEOREM BlocksImplementSource ==
    ASSUME CondYields = {"value"}
    PROVE  Spec => SourceSemantics
<1>1. Init => TypeOK /\ ReservedOpen /\ Flow /\ Source!FlowInit
  BY InitType, InitReserved, InitFlow, SourceInit
<1>2. TypeOK /\ ReservedOpen /\ Flow /\ [Next]_vars => (TypeOK /\ ReservedOpen /\ Flow)'
  BY NextType, NextReserved, FlowKept
<1>3. (TypeOK /\ Flow => Starting)'
  BY FlowStarts, PTL
<1>4. TypeOK /\ ReservedOpen /\ Flow /\ [Next]_vars => [Source!FlowNext]_Source!flowVars
  BY <1>2, <1>3, SourceNext
<1>. QED  BY <1>1, <1>2, <1>4, PTL DEF Spec, SourceSemantics, Source!FlowSpec

=============================================================================
