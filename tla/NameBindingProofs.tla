--------------------------- MODULE NameBindingProofs ---------------------------
(***************************************************************************)
(* Proofs about module NameBinding.                                        *)
(*                                                                         *)
(* The validator:                                                          *)
(*   Nested  the open constructs, from the function inwards, are those     *)
(*           that "nesting" lists;                                         *)
(*   Placed  a token stands where the grammar allows it;                   *)
(*   Mirror  each scope of the stack has, for each name, the first         *)
(*           declaration in its part of the source: gives that a lookup    *)
(*           finds what Lexical says;                                      *)
(*   Valid   these three, the size of the stack, and LexicalBinding for    *)
(*           the names resolved so far.                                    *)
(*                                                                         *)
(* The lowering:                                                           *)
(*   Passes    what is left is the end of each pass;                       *)
(*   Tabled    the table has the last declaration of a name that the       *)
(*             lowering has come to;                                       *)
(*   Referred  the name of a variable that has been lowered has a          *)
(*             declaration, and the validator's if none hides it;          *)
(*   Inv       Valid, and in the lowering these three.                     *)
(***************************************************************************)
EXTENDS NameBinding, FiniteSetTheorems, SequenceTheorems, WellFoundedInduction, TLAPS

(* Numbers and sequences. *)

\* A set of numbers has a least one.
LEMMA Least ==
  ASSUME NEW S \in SUBSET Nat, S # {}
  PROVE  \E m \in S : \A k \in S : m <= k
<1> DEFINE Upto(m) == 0..(m - 1)
           Sets == {Upto(m) : m \in S}
           R == StrictSubsetOrdering(Nat)
<1>1. IsWellFoundedOn(R, FiniteSubsetsOf(Nat))
  BY FS_StrictSubsetOrderingWellFounded
<1>2. Sets \subseteq FiniteSubsetsOf(Nat)
  <2> SUFFICES ASSUME NEW m \in S PROVE Upto(m) \in FiniteSubsetsOf(Nat)
    OBVIOUS
  <2>1. IsFiniteSet(0..(m - 1))
    BY FS_Interval
  <2> QED BY <2>1 DEF FiniteSubsetsOf
<1>3. \E x \in Sets : \A y \in Sets : ~(<<y, x>> \in R)
  <2> Sets # {}
    OBVIOUS
  <2> HIDE DEF R, Sets
  <2> QED BY <1>1, <1>2, WFMin
<1>4. PICK m \in S : \A y \in Sets : ~(<<y, Upto(m)>> \in R)
  BY <1>3
<1>5. ASSUME NEW k \in S, k < m PROVE FALSE
  <2>1. Upto(k) \in Sets
    OBVIOUS
  <2>2. Upto(k) \subseteq Upto(m) /\ k \in Upto(m) /\ k \notin Upto(k)
    BY <1>5
  <2>3. Upto(k) \in SUBSET Nat /\ Upto(m) \in SUBSET Nat /\ Upto(k) # Upto(m)
    BY <2>2
  <2>4. <<Upto(k), Upto(m)>> \in R
    <3> HIDE DEF Upto
    <3> QED BY <2>2, <2>3 DEF StrictSubsetOrdering
  <2> QED BY <2>1, <2>4, <1>4
<1> QED BY <1>5

\* One with a bound has a greatest one, and Max finds it.
LEMMA Greatest ==
  ASSUME NEW n \in Nat, NEW S \in SUBSET (1..n), S # {}
  PROVE  Max(S) \in S /\ \A k \in S : k <= Max(S)
<1> DEFINE T == {n - k : k \in S}
<1>1. T \in SUBSET Nat /\ T # {}
  <2>1. \A k \in S : n - k \in Nat
    OBVIOUS
  <2> QED BY <2>1
<1>2. PICK t \in T : \A k \in T : t <= k
  BY <1>1, Least
<1>3. PICK m \in S : t = n - m
  OBVIOUS
<1>4. \A k \in S : m >= k
  BY <1>2, <1>3
<1>5. Max(S) \in S /\ \A k \in S : Max(S) >= k
  BY <1>4 DEF Max
<1> QED BY <1>5

\* The front of a sequence.
LEMMA FrontFacts ==
  ASSUME NEW S, NEW s \in Seq(S), s # <<>>
  PROVE  /\ Front(s) \in Seq(S) /\ Len(Front(s)) = Len(s) - 1 /\ Len(s) \in Nat \ {0}
         /\ \A i \in 1..(Len(s) - 1) : Front(s)[i] = s[i]
<1> DEFINE n == Len(s) - 1
<1>1. n \in Nat /\ n + 1 = Len(s) /\ \A i \in 1..n : s[i] \in S
  OBVIOUS
<1>2. /\ SubSeq(s, 1, n) \in Seq(S)
      /\ Len(SubSeq(s, 1, n)) = IF 1 <= n THEN n - 1 + 1 ELSE 0
      /\ \A i \in 1..(n - 1 + 1) : SubSeq(s, 1, n)[i] = s[1 + i - 1]
  BY <1>1, SubSeqProperties
<1>3. Front(s) = SubSeq(s, 1, n)
  BY DEF Front
<1> HIDE DEF n
<1>4. Len(s) = n + 1
  BY <1>1
<1> QED BY <1>1, <1>2, <1>3, <1>4

\* A sequence with one more element.
LEMMA AppendFacts ==
  ASSUME NEW S, NEW s \in Seq(S), NEW x \in S
  PROVE  /\ Append(s, x) \in Seq(S) /\ Len(Append(s, x)) = Len(s) + 1 /\ Len(s) \in Nat
         /\ \A i \in 1..Len(s) : Append(s, x)[i] = s[i]
         /\ Append(s, x)[Len(s) + 1] = x
OBVIOUS

(* Tokens. *)

OpensAt(tok) == tok.op \in {"function", "for", "open"}

\* The operation of a token says which kind it is.
LEMMA TokenOps ==
  ASSUME NEW tok \in Token
  PROVE  /\ tok \in Decl <=> tok.op \in {"global", "local"}
         /\ tok \in Signature <=> tok.op = "signature"
         /\ tok \in For <=> tok.op = "for"
         /\ tok \in Function <=> tok.op = "function"
         /\ tok \in Use <=> tok.op \in {"use", "assign"}
         /\ tok \in Block <=> tok.op = "open"
         /\ tok \in Close <=> tok.op = "close"
         /\ tok \in Close => tok = [op |-> "close", of |-> tok.of] /\ tok.of \in Nat
<1>1. \/ tok \in Decl /\ tok.op \in {"global", "local"}
      \/ tok \in Signature /\ tok.op = "signature"
      \/ tok \in For /\ tok.op = "for"
      \/ tok \in Function /\ tok.op = "function"
      \/ tok \in Use /\ tok.op \in {"use", "assign"}
      \/ tok \in Block /\ tok.op = "open"
      \/ tok \in Close /\ tok.op = "close"
  BY DEF Token, Decl, Signature, For, Function, Use, Block, Close
<1>2. /\ tok \in Decl => tok.op \in {"global", "local"}
      /\ tok \in Signature => tok.op = "signature"
      /\ tok \in For => tok.op = "for"
      /\ tok \in Function => tok.op = "function"
      /\ tok \in Use => tok.op \in {"use", "assign"}
      /\ tok \in Block => tok.op = "open"
      /\ tok \in Close => tok.op = "close"
  BY DEF Decl, Signature, For, Function, Use, Block, Close
<1>3. tok \in Close => tok = [op |-> "close", of |-> tok.of] /\ tok.of \in Nat
  BY DEF Close
<1> QED BY <1>1, <1>2, <1>3

(* What is open behind the last token. *)

Open == {k \in 1..Len(prog) :
           Opener(k) /\ \A j \in k..Len(prog) : prog[j] # [op |-> "close", of |-> k]}

\* A token behind them leaves the other tokens where they are.
LEMMA Past ==
  ASSUME prog \in Seq(Token), NEW tok \in Token, prog' = Append(prog, tok),
         NEW i \in 1..Len(prog)
  PROVE  /\ Enclosing(i)' = Enclosing(i) /\ Region(i)' = Region(i)
         /\ Opener(i)' = Opener(i)
         /\ \A n \in Names : Declares(i, n)' = Declares(i, n) /\ Stores(i, n)' = Stores(i, n)
         /\ IsUse(i)' = IsUse(i) /\ UsedName(i)' = UsedName(i)
         /\ prog'[i] = prog[i] /\ Depth(i)' = Depth(i)
<1>1. /\ Len(prog') = Len(prog) + 1 /\ Len(prog) \in Nat
      /\ \A k \in 1..Len(prog) : prog'[k] = prog[k]
  BY AppendFacts
<1>2. \A k \in 1..Len(prog) : Opener(k)' = Opener(k)
  BY <1>1 DEF Opener
<1>3. \A k \in 1..Len(prog) : Encloses(k, i)' = Encloses(k, i)
  <2> TAKE k \in 1..Len(prog)
  <2>1. \A j \in k..(i - 1) : j \in 1..Len(prog)
    BY <1>1
  <2> QED BY <1>1, <1>2, <2>1 DEF Encloses
<1>4. \A k \in 1..Len(prog') : Encloses(k, i)' => k \in 1..Len(prog)
  BY <1>1 DEF Encloses
<1>5. Enclosing(i)' = Enclosing(i)
  BY <1>1, <1>3, <1>4 DEF Enclosing
<1>6. Region(i)' = Region(i)
  BY <1>5 DEF Region
<1>7. Depth(i)' = Depth(i)
  BY <1>2, <1>6 DEF Depth
<1>8. /\ \A n \in Names : Declares(i, n)' = Declares(i, n) /\ Stores(i, n)' = Stores(i, n)
      /\ IsUse(i)' = IsUse(i) /\ UsedName(i)' = UsedName(i)
  BY <1>1 DEF Declares, Stores, IsUse, UsedName
<1> QED BY <1>1, <1>2, <1>5, <1>6, <1>7, <1>8

\* And what a name means at them.
LEMMA PastLexical ==
  ASSUME prog \in Seq(Token), NEW tok \in Token, prog' = Append(prog, tok),
         NEW i \in 1..Len(prog), NEW n \in Names
  PROVE  Lexical(n, i)' = Lexical(n, i) /\ Visible(n, i)' = Visible(n, i)
<1>1. \A d \in 1..i : d \in 1..Len(prog)
  OBVIOUS
<1>2. Visible(n, i)' = Visible(n, i)
  BY <1>1, Past DEF Visible
<1>3. \A d \in Visible(n, i) : Depth(d)' = Depth(d)
  BY <1>1, Past DEF Visible
<1> QED BY <1>2, <1>3 DEF Lexical

\* The new token is inside of what was open, and of itself if it opens something.
LEMMA Later ==
  ASSUME prog \in Seq(Token), NEW tok \in Token, prog' = Append(prog, tok),
         NEW h \in Nat, h = Len(prog) + 1
  PROVE  /\ Enclosing(h)' = Open \cup (IF OpensAt(tok) THEN {h} ELSE {})
         /\ Open' = {k \in Open : tok # [op |-> "close", of |-> k]}
                         \cup (IF OpensAt(tok) THEN {h} ELSE {})
<1>1. /\ Len(prog') = h /\ Len(prog) \in Nat /\ prog'[h] = tok
      /\ \A k \in 1..Len(prog) : prog'[k] = prog[k]
  BY AppendFacts
<1>2. \A k \in 1..Len(prog) : Opener(k)' = Opener(k)
  BY <1>1 DEF Opener
<1>3. Opener(h)' <=> OpensAt(tok)
  BY <1>1 DEF Opener, OpensAt
<1>4. \A k \in 1..Len(prog) : Encloses(k, h)' <=> k \in Open
  BY <1>1, <1>2 DEF Encloses, Open
<1>5. Encloses(h, h)' <=> OpensAt(tok)
  BY <1>1, <1>3 DEF Encloses
<1>6. Enclosing(h)' = {k \in 1..h : Encloses(k, h)'}
  BY <1>1 DEF Enclosing
<1>7. Enclosing(h)' = Open \cup (IF OpensAt(tok) THEN {h} ELSE {})
  <2>1. \A k \in 1..h : k \in 1..Len(prog) \/ k = h
    BY <1>1
  <2>2. Open \subseteq 1..Len(prog) /\ 1..Len(prog) \subseteq 1..h /\ h \in 1..h
    BY <1>1 DEF Open
  <2> QED BY <2>1, <2>2, <1>4, <1>5, <1>6
<1>8. \A k \in 1..Len(prog) : k \in Open' <=> k \in Open /\ tok # [op |-> "close", of |-> k]
  <2> TAKE k \in 1..Len(prog)
  <2>1. \A j \in k..h : j \in k..Len(prog) \/ j = h
    BY <1>1
  <2>2. k \in 1..h /\ k..Len(prog) \subseteq k..h /\ h \in k..h /\ k..Len(prog) \subseteq 1..Len(prog)
    BY <1>1
  <2>3. (\A j \in k..h : prog'[j] # [op |-> "close", of |-> k])
           <=> /\ \A j \in k..Len(prog) : prog[j] # [op |-> "close", of |-> k]
               /\ tok # [op |-> "close", of |-> k]
    BY <2>1, <2>2, <1>1
  <2> QED BY <2>2, <2>3, <1>1, <1>2 DEF Open
<1>9. h \in Open' <=> OpensAt(tok)
  <2>1. OpensAt(tok) => tok # [op |-> "close", of |-> h]
    BY DEF OpensAt
  <2>2. \A j \in h..h : j = h
    BY <1>1
  <2> QED BY <1>1, <1>3, <2>1, <2>2 DEF Open
<1>10. Open' \subseteq 1..h /\ Open \subseteq 1..Len(prog)
  BY <1>1 DEF Open
<1>11. Open' = {k \in Open : tok # [op |-> "close", of |-> k]} \cup (IF OpensAt(tok) THEN {h} ELSE {})
  <2>1. \A k \in 1..h : k \in 1..Len(prog) \/ k = h
    BY <1>1
  <2> QED BY <2>1, <1>8, <1>9, <1>10
<1> QED BY <1>7, <1>11

\* What is still open encloses every token behind it.
LEMMA OpenEncloses ==
  ASSUME prog \in Seq(Token), NEW i \in 1..Len(prog), NEW k \in Open, k <= i
  PROVE  k \in Enclosing(i)
<1>1. \A j \in k..(i - 1) : j \in k..Len(prog)
  BY DEF Open
<1> QED BY <1>1 DEF Open, Enclosing, Encloses

(* The nesting of the source. *)

Nested ==
  /\ prog \in Seq(Token) /\ nesting \in Seq(1..Len(prog))
  /\ \A j, k \in 1..Len(nesting) : j < k => nesting[j] < nesting[k]
  /\ Open = {nesting[k] : k \in 1..Len(nesting)}
  /\ \A k \in 1..Len(nesting) : prog[nesting[k]].op = "function" <=> k = 1
  /\ \A o \in Open : Enclosing(o) \subseteq Open

\* Where token i is.
Placed(i) ==
  /\ prog[i].op \in {"global", "signature"} => Enclosing(i) = {}
  /\ prog[i].op \in {"local", "function", "for", "open", "close"} => Enclosing(i) # {}
  /\ prog[i].op = "close" => prog[i].of \in 1..i /\ Enclosing(i) = Enclosing(prog[i].of)
  /\ Enclosing(i) # {} =>
       /\ \E k \in Enclosing(i) : \A j \in Enclosing(i) : j <= k
       /\ \E f \in Enclosing(i) : \A j \in Enclosing(i) : prog[j].op = "function" <=> j = f

\* What a token may do to the nesting.
Moves(tok) ==
  \/ /\ ~OpensAt(tok) /\ tok.op # "close" /\ nesting' = nesting
     /\ tok.op \in {"global", "signature"} => nesting = <<>>
     /\ tok.op = "local" => nesting # <<>>
  \/ /\ OpensAt(tok) /\ nesting' = Append(nesting, Len(prog) + 1)
     /\ tok.op = "function" <=> nesting = <<>>
  \/ /\ nesting # <<>> /\ nesting' = Front(nesting)
     /\ tok = [op |-> "close", of |-> nesting[Len(nesting)]]

\* The innermost construct is the last one.
LEMMA Innermost ==
  ASSUME Nested
  PROVE  /\ Open = {} <=> nesting = <<>>
         /\ nesting # <<>> =>
              /\ Len(nesting) \in Nat \ {0} /\ nesting[Len(nesting)] \in Open
              /\ nesting[1] \in Open /\ nesting[Len(nesting)] \in 1..Len(prog)
              /\ \A k \in Open : k <= nesting[Len(nesting)]
              /\ \A k \in Open : prog[k].op = "function" <=> k = nesting[1]
<1>1. nesting = <<>> <=> Len(nesting) = 0
  BY DEF Nested
<1>2. Len(nesting) \in Nat
  BY DEF Nested
<1>3. Open = {} <=> nesting = <<>>
  <2>1. Open = {nesting[k] : k \in 1..Len(nesting)}
    BY DEF Nested
  <2>2. Len(nesting) = 0 => 1..Len(nesting) = {}
    OBVIOUS
  <2>3. Len(nesting) # 0 => 1 \in 1..Len(nesting)
    BY <1>2
  <2> QED BY <1>1, <2>1, <2>2, <2>3
<1>4. ASSUME nesting # <<>>
      PROVE  /\ Len(nesting) \in Nat \ {0} /\ nesting[Len(nesting)] \in Open
             /\ nesting[1] \in Open /\ nesting[Len(nesting)] \in 1..Len(prog)
             /\ \A k \in Open : k <= nesting[Len(nesting)]
             /\ \A k \in Open : prog[k].op = "function" <=> k = nesting[1]
  <2>1. Len(nesting) \in Nat \ {0} /\ Len(nesting) \in 1..Len(nesting) /\ 1 \in 1..Len(nesting)
    BY <1>1, <1>2, <1>4
  <2>2. nesting[Len(nesting)] \in Open /\ nesting[1] \in Open /\ nesting[Len(nesting)] \in 1..Len(prog)
    BY <2>1 DEF Nested
  <2>3. ASSUME NEW k \in Open PROVE k <= nesting[Len(nesting)]
    <3>1. PICK j \in 1..Len(nesting) : k = nesting[j]
      BY DEF Nested
    <3>2. k \in 1..Len(prog)
      BY DEF Open
    <3>3. j < Len(nesting) \/ j = Len(nesting)
      BY <2>1
    <3> QED BY <2>1, <2>2, <3>1, <3>2, <3>3 DEF Nested
  <2>4. ASSUME NEW k \in Open PROVE prog[k].op = "function" <=> k = nesting[1]
    <3>1. PICK j \in 1..Len(nesting) : k = nesting[j]
      BY DEF Nested
    <3>2. j = 1 \/ 1 < j
      OBVIOUS
    <3>3. 1 < j => nesting[1] < nesting[j]
      BY <2>1 DEF Nested
    <3>4. nesting[1] \in Nat /\ nesting[j] \in Nat
      BY <2>1 DEF Nested
    <3> QED BY <2>1, <3>1, <3>2, <3>3, <3>4 DEF Nested
  <2> QED BY <2>1, <2>2, <2>3, <2>4
<1> QED BY <1>3, <1>4

\* A token keeps the nesting.
LEMMA NestedStep ==
  ASSUME Nested, NEW tok \in Token, prog' = Append(prog, tok), Moves(tok)
  PROVE  Nested'
<1> DEFINE last == nesting[Len(nesting)]
<1>1. PICK h \in Nat : h = Len(prog) + 1
  BY DEF Nested
<1>2. /\ prog' \in Seq(Token) /\ Len(prog') = h /\ Len(prog) \in Nat /\ prog'[h] = tok
      /\ \A i \in 1..Len(prog) : prog'[i] = prog[i]
  BY <1>1, AppendFacts DEF Nested
<1>3. /\ Enclosing(h)' = Open \cup (IF OpensAt(tok) THEN {h} ELSE {})
      /\ Open' = {k \in Open : tok # [op |-> "close", of |-> k]} \cup (IF OpensAt(tok) THEN {h} ELSE {})
  BY <1>1, Later DEF Nested
<1>4. \A i \in 1..Len(prog) : Enclosing(i)' = Enclosing(i)
  BY Past DEF Nested
<1>5. /\ Open \subseteq 1..Len(prog) /\ Len(nesting) \in Nat
      /\ \A k \in 1..Len(nesting) : nesting[k] \in 1..Len(prog) /\ nesting[k] \in Open
  BY DEF Open, Nested
<1> DEFINE n == Len(nesting)
<1>9. /\ \A j, k \in 1..n : j < k => nesting[j] < nesting[k]
      /\ Open = {nesting[k] : k \in 1..n}
      /\ \A k \in 1..n : prog[nesting[k]].op = "function" <=> k = 1
      /\ \A o \in Open : Enclosing(o) \subseteq Open
  BY DEF Nested
<1>10. \A k \in 1..n : prog'[nesting[k]].op = "function" <=> k = 1
  BY <1>2, <1>5, <1>9
<1>6. CASE ~OpensAt(tok) /\ tok.op # "close" /\ nesting' = nesting
  <2>1. Open' = Open
    BY <1>3, <1>6
  <2>2. nesting' \in Seq(1..Len(prog'))
    <3>1. 1..Len(prog) \subseteq 1..Len(prog')
      BY <1>1, <1>2
    <3> QED BY <1>6, <3>1 DEF Nested
  <2>3. \A k \in 1..Len(nesting') : prog'[nesting'[k]].op = "function" <=> k = 1
    BY <1>6, <1>10
  <2>4. \A o \in Open' : Enclosing(o)' \subseteq Open'
    BY <2>1, <1>4, <1>5, <1>9
  <2>5. /\ \A j, k \in 1..Len(nesting') : j < k => nesting'[j] < nesting'[k]
        /\ Open' = {nesting'[k] : k \in 1..Len(nesting')}
    BY <1>6, <1>9, <2>1
  <2> HIDE DEF n
  <2> QED BY <1>2, <2>2, <2>3, <2>4, <2>5 DEF Nested
<1>7. CASE /\ OpensAt(tok) /\ nesting' = Append(nesting, Len(prog) + 1)
           /\ tok.op = "function" <=> nesting = <<>>
  <2>1. Open' = Open \cup {h} /\ Enclosing(h)' = Open'
    BY <1>3, <1>7 DEF OpensAt
  <2>2. nesting \in Seq(1..Len(prog')) /\ h \in 1..Len(prog')
    <3>1. 1..Len(prog) \subseteq 1..Len(prog')
      BY <1>1, <1>2
    <3> QED BY <3>1, <1>1, <1>2 DEF Nested
  <2>3. /\ nesting' \in Seq(1..Len(prog')) /\ Len(nesting') = Len(nesting) + 1
        /\ \A k \in 1..Len(nesting) : nesting'[k] = nesting[k]
        /\ nesting'[Len(nesting) + 1] = h
    BY <1>1, <1>7, <2>2, AppendFacts
  <2>4. \A k \in 1..Len(nesting') : k \in 1..Len(nesting) \/ k = Len(nesting) + 1
    BY <2>3, <1>5
  <2>5. \A j, k \in 1..Len(nesting') : j < k => nesting'[j] < nesting'[k]
    <3>1. \A j \in 1..Len(nesting) : nesting'[j] < h
      BY <1>1, <1>2, <1>5, <2>3
    <3>2. \A j, k \in 1..n : j < k => nesting'[j] < nesting'[k]
      BY <2>3, <1>9
    <3>3. ASSUME NEW j \in 1..Len(nesting'), NEW k \in 1..Len(nesting'), j < k
          PROVE  j \in 1..n /\ (k \in 1..n \/ nesting'[k] = h)
      BY <2>3, <2>4, <3>3, <1>5
    <3> QED BY <3>1, <3>2, <3>3
  <2>6. Open' = {nesting'[k] : k \in 1..Len(nesting')}
    <3>1. \A k \in 1..Len(nesting) : k \in 1..Len(nesting')
      BY <2>3, <1>5
    <3>2. Len(nesting) + 1 \in 1..Len(nesting')
      BY <2>3, <1>5
    <3>3. \A k \in 1..Len(nesting') : nesting'[k] \in Open'
      BY <2>1, <2>3, <2>4, <1>9
    <3>4. \A o \in Open : \E k \in 1..Len(nesting') : o = nesting'[k]
      BY <2>3, <3>1, <1>9
    <3>5. \A o \in Open' : \E k \in 1..Len(nesting') : o = nesting'[k]
      BY <2>1, <2>3, <3>2, <3>4
    <3> QED BY <3>3, <3>5
  <2>7. \A k \in 1..Len(nesting') : prog'[nesting'[k]].op = "function" <=> k = 1
    <3>1. nesting = <<>> <=> Len(nesting) = 0
      BY DEF Nested
    <3>2. tok.op = "function" <=> Len(nesting) + 1 = 1
      BY <3>1, <1>5, <1>7
    <3>3. \A k \in 1..Len(nesting) : prog'[nesting'[k]].op = "function" <=> k = 1
      BY <2>3, <1>10
    <3>4. prog'[nesting'[Len(nesting) + 1]].op = tok.op
      BY <1>2, <2>3
    <3> QED BY <2>4, <3>2, <3>3, <3>4
  <2>8. \A o \in Open' : Enclosing(o)' \subseteq Open'
    BY <2>1, <1>4, <1>5, <1>9
  <2> QED BY <1>2, <2>3, <2>5, <2>6, <2>7, <2>8 DEF Nested
<1>8. CASE /\ nesting # <<>> /\ nesting' = Front(nesting)
           /\ tok = [op |-> "close", of |-> nesting[Len(nesting)]]
  <2>1. /\ last \in Open /\ last \in 1..Len(prog) /\ Len(nesting) \in Nat \ {0}
        /\ \A k \in Open : k <= last
    BY <1>8, Innermost
  <2>2. Open' = Open \ {last}
    <3>1. tok.op = "close"
      BY <1>8
    <3>2. \A k \in Open : tok = [op |-> "close", of |-> k] <=> k = last
      BY <1>8
    <3>3. ~OpensAt(tok)
      BY <3>1 DEF OpensAt
    <3> QED BY <1>3, <3>2, <3>3
  <2>3. /\ Len(nesting') = Len(nesting) - 1
        /\ \A k \in 1..(Len(nesting) - 1) : nesting'[k] = nesting[k]
        /\ nesting' \in Seq(1..Len(prog))
    BY <1>8, FrontFacts DEF Nested
  <2>4. nesting' \in Seq(1..Len(prog'))
    <3>1. 1..Len(prog) \subseteq 1..Len(prog')
      BY <1>1, <1>2
    <3> QED BY <3>1, <2>3
  <2>5. \A k \in 1..Len(nesting') : k \in 1..Len(nesting) /\ k < Len(nesting) /\ nesting'[k] = nesting[k]
    BY <2>1, <2>3
  <2>6. \A j, k \in 1..Len(nesting') : j < k => nesting'[j] < nesting'[k]
    BY <2>5 DEF Nested
  <2>7. Open' = {nesting'[k] : k \in 1..Len(nesting')}
    <3>1. \A k \in 1..Len(nesting') : nesting'[k] \in Open \ {last}
      <4> TAKE k \in 1..Len(nesting')
      <4>1. k \in 1..n /\ n \in 1..n /\ k < n /\ nesting'[k] = nesting[k]
        BY <2>1, <2>5
      <4>2. nesting[k] \in Nat /\ last \in Nat /\ nesting[k] < last
        BY <4>1, <2>1, <1>5, <1>9
      <4> QED BY <4>1, <4>2, <1>5
    <3>2. ASSUME NEW o \in Open \ {last} PROVE \E k \in 1..Len(nesting') : o = nesting'[k]
      <4>1. PICK k \in 1..Len(nesting) : o = nesting[k]
        BY DEF Nested
      <4>2. k # Len(nesting)
        BY <4>1
      <4>3. k \in 1..Len(nesting')
        BY <4>2, <2>1, <2>3
      <4> QED BY <4>1, <4>3, <2>5
    <3> QED BY <3>1, <3>2, <2>2
  <2>8. \A k \in 1..Len(nesting') : prog'[nesting'[k]].op = "function" <=> k = 1
    BY <2>5, <1>10
  <2>9. \A o \in Open' : Enclosing(o)' \subseteq Open'
    <3>1. ASSUME NEW o \in Open \ {last} PROVE Enclosing(o)' \subseteq Open \ {last}
      <4>1. o < last /\ o \in 1..Len(prog)
        BY <2>1, <1>5
      <4>2. \A k \in Enclosing(o) : k <= o
        BY DEF Enclosing, Encloses
      <4>3. last \notin Enclosing(o)
        BY <4>1, <4>2, <2>1
      <4> QED BY <4>1, <4>3, <1>4 DEF Nested
    <3> QED BY <3>1, <2>2
  <2> QED BY <1>2, <2>4, <2>6, <2>7, <2>8, <2>9 DEF Nested
<1> QED BY <1>6, <1>7, <1>8 DEF Moves

\* And every token is placed.
LEMMA PlacedStep ==
  ASSUME Nested, NEW tok \in Token, prog' = Append(prog, tok), Moves(tok),
         \A i \in 1..Len(prog) : Placed(i)
  PROVE  \A i \in 1..Len(prog') : Placed(i)'
<1> DEFINE last == nesting[Len(nesting)]
<1>1. PICK h \in Nat : h = Len(prog) + 1
  BY DEF Nested
<1>2. /\ Len(prog') = h /\ Len(prog) \in Nat /\ prog'[h] = tok
      /\ \A i \in 1..Len(prog) : prog'[i] = prog[i]
  BY <1>1, AppendFacts DEF Nested
<1>3. Enclosing(h)' = Open \cup (IF OpensAt(tok) THEN {h} ELSE {})
  BY <1>1, Later DEF Nested
<1>4. /\ \A i \in 1..Len(prog) : Enclosing(i)' = Enclosing(i) /\ Enclosing(i) \subseteq 1..Len(prog)
      /\ Open \subseteq 1..Len(prog)
  BY Past DEF Nested, Enclosing, Open
<1>5. ASSUME NEW i \in 1..Len(prog) PROVE Placed(i)'
  <2>1. Placed(i) /\ prog'[i] = prog[i] /\ Enclosing(i)' = Enclosing(i)
    BY <1>2, <1>4
  <2>2. prog[i].op = "close" => Enclosing(prog[i].of)' = Enclosing(prog[i].of)
    <3>1. SUFFICES ASSUME prog[i].op = "close" PROVE Enclosing(prog[i].of)' = Enclosing(prog[i].of)
      OBVIOUS
    <3>2. PICK k \in 1..Len(prog) : k = prog[i].of /\ k = prog'[i].of
      BY <2>1, <3>1, <1>2 DEF Placed
    <3>3. Enclosing(k)' = Enclosing(k)
      BY <1>4
    <3> QED BY <3>2, <3>3
  <2>3. \A k \in Enclosing(i) : prog'[k] = prog[k]
    BY <1>2, <1>4
  <2>4. Enclosing(i)' # {} =>
          \E f \in Enclosing(i)' : \A j \in Enclosing(i)' : prog'[j].op = "function" <=> j = f
    <3>1. SUFFICES ASSUME Enclosing(i)' # {}
                   PROVE  \E f \in Enclosing(i)' :
                            \A j \in Enclosing(i)' : prog'[j].op = "function" <=> j = f
      OBVIOUS
    <3>2. PICK f \in Enclosing(i) : \A j \in Enclosing(i) : prog[j].op = "function" <=> j = f
      BY <2>1, <3>1 DEF Placed
    <3>3. f \in Enclosing(i)' /\ \A j \in Enclosing(i)' : prog'[j].op = "function" <=> j = f
      BY <2>1, <2>3, <3>2
    <3> QED BY <3>3
  <2>5. Enclosing(i)' # {} => \E k \in Enclosing(i)' : \A j \in Enclosing(i)' : j <= k
    BY <2>1 DEF Placed
  <2>6. /\ prog'[i].op \in {"global", "signature"} => Enclosing(i)' = {}
        /\ prog'[i].op \in {"local", "function", "for", "open", "close"} => Enclosing(i)' # {}
        /\ prog'[i].op = "close" => prog'[i].of \in 1..i /\ Enclosing(i)' = Enclosing(prog[i].of)'
    BY <2>1, <2>2 DEF Placed
  <2> QED BY <2>4, <2>5, <2>6 DEF Placed
<1>6. Placed(h)'
  <2>1. /\ Open = {} <=> nesting = <<>>
        /\ \A k \in Open : prog'[k] = prog[k] /\ k < h
    BY <1>1, <1>2, <1>4, Innermost
  <2>2. ASSUME nesting # <<>>
        PROVE  /\ last \in Open /\ last \in 1..Len(prog) /\ \A k \in Open : k <= last
               /\ nesting[1] \in Open /\ \A k \in Open : prog'[k].op = "function" <=> k = nesting[1]
    BY <2>1, <2>2, Innermost
  <2> HIDE DEF last
  <2>3. CASE ~OpensAt(tok) /\ tok.op # "close" /\ nesting' = nesting
    <3>1. /\ tok.op \in {"global", "signature"} => nesting = <<>>
          /\ tok.op = "local" => nesting # <<>>
          /\ tok.op \notin {"function", "for", "open", "close"}
      BY <2>3 DEF Moves, OpensAt
    <3>2. Enclosing(h)' = Open
      BY <1>3, <2>3
    <3> QED BY <1>2, <2>1, <2>2, <3>1, <3>2 DEF Placed
  <2>4. CASE OpensAt(tok)
    <3>1. /\ tok.op \in {"function", "for", "open"} /\ (tok.op = "function" <=> nesting = <<>>)
      BY <2>4 DEF Moves, OpensAt
    <3>2. Enclosing(h)' = Open \cup {h}
      BY <1>3, <2>4
    <3>3. \E k \in Enclosing(h)' : \A j \in Enclosing(h)' : j <= k
      <4>1. \A j \in Open : j <= h
        BY <1>1, <1>2, <1>4
      <4> QED BY <3>2, <4>1
    <3>4. \E f \in Enclosing(h)' : \A j \in Enclosing(h)' : prog'[j].op = "function" <=> j = f
      <4>1. CASE nesting = <<>>
        <5>1. Enclosing(h)' = {h} /\ prog'[h].op = "function"
          BY <1>2, <2>1, <3>1, <3>2, <4>1
        <5> QED BY <5>1
      <4>2. CASE nesting # <<>>
        <5>1. prog'[h].op # "function" /\ nesting[1] # h
          BY <1>2, <2>1, <2>2, <3>1, <4>2
        <5>2. nesting[1] \in Enclosing(h)'
          BY <2>2, <3>2, <4>2
        <5>3. \A j \in Enclosing(h)' : prog'[j].op = "function" <=> j = nesting[1]
          BY <2>2, <3>2, <4>2, <5>1
        <5> QED BY <5>2, <5>3
      <4> QED BY <4>1, <4>2
    <3> QED BY <1>2, <3>1, <3>2, <3>3, <3>4 DEF Placed
  <2>5. CASE nesting # <<>> /\ tok = [op |-> "close", of |-> nesting[Len(nesting)]]
    <3>1. tok.op = "close" /\ tok.of = last
      BY <2>5 DEF last
    <3>2. Enclosing(h)' = Open
      BY <1>3, <3>1 DEF OpensAt
    <3>3. last \in Open /\ last \in 1..Len(prog) /\ \A k \in Open : k <= last
      BY <2>2, <2>5
    <3>4. Enclosing(last) = Open
      <4>1. Enclosing(last) \subseteq Open
        BY <3>3 DEF Nested
      <4>2. \A k \in Open : k \in Enclosing(last)
        BY <3>3, OpenEncloses DEF Nested
      <4> QED BY <4>1, <4>2
    <3>5. PICK o \in 1..Len(prog) : o = last
      BY <3>3
    <3>6. Enclosing(o)' = Open /\ prog'[h].of = o /\ o \in 1..h
      BY <1>1, <1>2, <1>4, <3>1, <3>4, <3>5
    <3>7. Enclosing(prog[h].of)' = Enclosing(o)'
      BY <3>6
    <3>8. /\ \E k \in Enclosing(h)' : \A j \in Enclosing(h)' : j <= k
          /\ \E f \in Enclosing(h)' : \A j \in Enclosing(h)' : prog'[j].op = "function" <=> j = f
      <4>1. nesting[1] \in Open /\ \A k \in Open : prog'[k].op = "function" <=> k = nesting[1]
        BY <2>2, <2>5
      <4> QED BY <3>2, <3>3, <4>1
    <3>9. /\ prog'[h].op = "close" /\ Enclosing(h)' # {}
          /\ prog'[h].of \in 1..h /\ Enclosing(h)' = Enclosing(prog[h].of)'
      BY <1>2, <3>1, <3>2, <3>3, <3>6, <3>7
    <3> QED BY <3>8, <3>9 DEF Placed
  <2> QED BY <2>3, <2>4, <2>5 DEF Moves
<1>7. \A i \in 1..Len(prog') : i \in 1..Len(prog) \/ i = h
  BY <1>1, <1>2
<1> QED BY <1>5, <1>6, <1>7

(* The stack of scopes and the declarations of the source. *)

Entry == [id : Nat, type : Types \cup {""}, mut : BOOLEAN]

\* The declarations of n that can be seen.
Seen(n) == {d \in 1..Len(prog) : Declares(d, n) /\ Region(d) \subseteq Open}

\* A number for the scope of a declaration: that of a construct k has 2 * k for its
\* parameter or variable, and 2 * k + 1 for its body.
Belongs(d, m) ==
  IF Opener(d) THEN m = 2 * d
  ELSE IF Region(d) = {} THEN m = 1
  ELSE \E k \in Region(d) : m = 2 * k + 1 /\ \A j \in Region(d) : j <= k

InScope(n, m) == {d \in Seen(n) : Belongs(d, m)}

Keys == {1} \cup {2 * k + 1 : k \in Open} \cup {2 * k : k \in {o \in Open : prog[o].op # "open"}}

\* The first of the declarations of a scope is its entry.
Holds(id, S) == IF S = {} THEN id = 0 ELSE id \in S /\ \A e \in S : id <= e

Mirror(at) ==
  /\ at \in Seq(Nat) /\ Len(at) = Len(scopes)
  /\ \A s, t \in 1..Len(at) : s < t => at[s] < at[t]
  /\ \A s \in 1..Len(at) : at[s] \in Keys
  /\ \A m \in Keys : \E s \in 1..Len(at) : m = at[s]
  /\ \A s \in 1..Len(at) : \A n \in Names : Holds(scopes[s][n].id, InScope(n, at[s]))

\* The innermost scope, and the one around a body.
LEMMA TopKey ==
  ASSUME Nested, NEW at, Mirror(at)
  PROVE  /\ Len(at) \in Nat \ {0}
         /\ nesting = <<>> => at[Len(at)] = 1
         /\ nesting # <<>> =>
              /\ at[Len(at)] = 2 * nesting[Len(nesting)] + 1
              /\ prog[nesting[Len(nesting)]].op # "open" =>
                   Len(at) > 1 /\ at[Len(at) - 1] = 2 * nesting[Len(nesting)]
<1> DEFINE last == nesting[Len(nesting)]
           top  == IF nesting = <<>> THEN 1 ELSE 2 * last + 1
<1>1. /\ Len(at) \in Nat /\ \A s \in 1..Len(at) : at[s] \in Nat /\ at[s] \in Keys
      /\ \A m \in Keys : \E s \in 1..Len(at) : m = at[s]
      /\ \A s, t \in 1..Len(at) : s < t => at[s] < at[t]
  BY DEF Mirror
<1>2. 1 \in Keys
  BY DEF Keys
<1>3. Len(at) \in Nat \ {0} /\ Len(at) \in 1..Len(at)
  BY <1>1, <1>2
<1>4. /\ Open = {} <=> nesting = <<>>
      /\ nesting # <<>> => last \in Open /\ \A k \in Open : k <= last
      /\ Open \subseteq Nat
  BY Innermost DEF Open
<1>5. top \in Keys
  BY <1>2, <1>4 DEF Keys
<1>6. top \in Nat /\ \A m \in Keys : m \in Nat /\ m <= top
  <2> HIDE DEF last
  <2>1. nesting # <<>> => last \in Nat
    BY <1>4
  <2>2. top \in Nat /\ top >= 1
    BY <2>1
  <2>3. \A k \in Open : k \in Nat /\ 2 * k + 1 <= top
    BY <1>4, <2>1
  <2> HIDE DEF top
  <2> QED BY <2>2, <2>3 DEF Keys
<1> HIDE DEF top, last
<1>7. PICK s \in 1..Len(at) : top = at[s]
  BY <1>1, <1>5
<1>8. s = Len(at)
  <2>1. at[Len(at)] <= top /\ at[Len(at)] \in Nat
    BY <1>1, <1>3, <1>6
  <2>2. s < Len(at) => at[s] < at[Len(at)]
    BY <1>1, <1>3
  <2> QED BY <1>3, <1>6, <1>7, <2>1, <2>2
<1>9. ASSUME nesting # <<>>, prog[last].op # "open"
      PROVE  Len(at) > 1 /\ at[Len(at) - 1] = 2 * last
  <2>1. last \in Nat /\ 2 * last \in Keys /\ 2 * last < top /\ top = 2 * last + 1
    <3>1. last \in Open /\ last \in Nat
      BY <1>4, <1>9
    <3>2. 2 * last \in Keys
      BY <1>9, <3>1 DEF Keys
    <3> QED BY <1>9, <3>1, <3>2 DEF top
  <2>2. PICK r \in 1..Len(at) : at[r] = 2 * last
    BY <1>1, <2>1
  <2>3. r # Len(at)
    BY <1>7, <1>8, <2>1, <2>2, <1>6
  <2>4. r < Len(at) /\ Len(at) - 1 \in 1..Len(at) /\ r \in Nat
    BY <1>3, <2>3
  <2>5. r = Len(at) - 1
    <3>1. SUFFICES ASSUME r < Len(at) - 1 PROVE FALSE
      BY <2>4, <1>3
    <3> DEFINE p == Len(at) - 1
    <3>2. at[r] < at[p] /\ at[p] < at[Len(at)] /\ at[p] \in Nat
      BY <1>1, <1>3, <2>4, <3>1
    <3> HIDE DEF p
    <3> QED BY <1>7, <1>8, <2>1, <2>2, <3>2
  <2> QED BY <2>2, <2>4, <2>5, <1>3
<1> QED BY <1>3, <1>7, <1>8, <1>9 DEF top, last

(* What a token does to what the scopes have to hold. *)

\* The scopes of the earlier declarations stay.
LEMMA PastSeen ==
  ASSUME Nested, NEW tok \in Token, prog' = Append(prog, tok), NEW d \in 1..Len(prog)
  PROVE  /\ \A m : Belongs(d, m)' = Belongs(d, m)
         /\ Region(d)' = Region(d) /\ \A n \in Names : Declares(d, n)' = Declares(d, n)
<1>1. Region(d)' = Region(d) /\ Opener(d)' = Opener(d)
  BY Past DEF Nested
<1> QED BY <1>1, Past DEF Belongs, Nested

\* A token that neither opens nor closes declares in the innermost scope, if at all.
LEMMA KeysPlain ==
  ASSUME Nested, NEW tok \in Token, prog' = Append(prog, tok), Moves(tok),
         ~OpensAt(tok), tok.op # "close", NEW h \in Nat, h = Len(prog) + 1
  PROVE  /\ Keys' = Keys
         /\ \A n \in Names : \A m : ~Declares(h, n)' => InScope(n, m)' = InScope(n, m)
         /\ \A n \in Names : \A m : Declares(h, n)' =>
              InScope(n, m)' = InScope(n, m) \cup
                (IF m = (IF nesting = <<>> THEN 1 ELSE 2 * nesting[Len(nesting)] + 1) THEN {h} ELSE {})
<1> DEFINE last == nesting[Len(nesting)]
<1>1. /\ Open' = Open /\ Region(h)' = Open
  <2>1. \A k \in Open : tok # [op |-> "close", of |-> k]
    OBVIOUS
  <2>2. Enclosing(h)' = Open /\ Open' = {k \in Open : tok # [op |-> "close", of |-> k]}
    BY Later DEF Nested
  <2> QED BY <2>1, <2>2 DEF Region
<1>2. /\ Len(prog') = h /\ Len(prog) \in Nat /\ prog'[h] = tok
      /\ \A i \in 1..Len(prog) : prog'[i] = prog[i]
  BY AppendFacts DEF Nested
<1>3. Keys' = Keys
  <2>1. \A o \in Open : prog'[o] = prog[o]
    BY <1>2 DEF Open
  <2> QED BY <1>1, <2>1 DEF Keys
<1>4. ~Opener(h)'
  BY <1>2 DEF Opener, OpensAt
<1>5. \A m : Belongs(h, m)' <=> m = (IF nesting = <<>> THEN 1 ELSE 2 * last + 1)
  <2>1. CASE nesting = <<>>
    <3>1. Open = {}
      BY <2>1, Innermost
    <3> QED BY <3>1, <2>1, <1>1, <1>4 DEF Belongs
  <2>2. CASE nesting # <<>>
    <3>1. Open # {} /\ last \in Open /\ (\A k \in Open : k <= last) /\ Open \subseteq Nat
      BY <2>2, Innermost DEF Open
    <3> HIDE DEF last
    <3>2. \A k \in Open : (\A j \in Open : j <= k) <=> k = last
      BY <3>1
    <3>3. \A m : Belongs(h, m)' <=> \E k \in Open : m = 2 * k + 1 /\ \A j \in Open : j <= k
      BY <1>1, <1>4, <3>1 DEF Belongs
    <3> QED BY <3>1, <3>2, <3>3, <2>2
  <2> QED BY <2>1, <2>2
<1>6. \A n \in Names : \A m : \A d \in 1..Len(prog) : d \in InScope(n, m)' <=> d \in InScope(n, m)
  <2>1. \A d \in 1..Len(prog) : d \in 1..Len(prog')
    BY <1>2
  <2> QED BY <2>1, <1>1, PastSeen DEF InScope, Seen
<1>7. \A n \in Names : \A m : h \in InScope(n, m)' <=> Declares(h, n)' /\ Belongs(h, m)'
  BY <1>1, <1>2 DEF InScope, Seen
<1>8. \A n \in Names : \A m : InScope(n, m)' \subseteq 1..h /\ InScope(n, m) \subseteq 1..Len(prog)
  BY <1>2 DEF InScope, Seen
<1>9. 1..h = 1..Len(prog) \cup {h} /\ h \notin 1..Len(prog)
  BY <1>2
<1>10. \A n \in Names : \A m : ~Declares(h, n)' => InScope(n, m)' = InScope(n, m)
  <2> SUFFICES ASSUME NEW n \in Names, NEW m, ~Declares(h, n)' PROVE InScope(n, m)' = InScope(n, m)
    OBVIOUS
  <2>1. h \notin InScope(n, m)' /\ h \notin InScope(n, m)
    BY <1>7, <1>8, <1>9
  <2>2. \A d \in 1..Len(prog) : d \in InScope(n, m)' <=> d \in InScope(n, m)
    BY <1>6
  <2>3. InScope(n, m)' \subseteq 1..h /\ InScope(n, m) \subseteq 1..Len(prog)
    BY <1>8
  <2>4. InScope(n, m)' \subseteq 1..Len(prog)
    BY <2>1, <2>3, <1>9
  <2> QED BY <2>2, <2>3, <2>4
<1>11. \A n \in Names : \A m : Declares(h, n)' =>
              InScope(n, m)' = InScope(n, m) \cup
                (IF m = (IF nesting = <<>> THEN 1 ELSE 2 * last + 1) THEN {h} ELSE {})
  <2> HIDE DEF last
  <2> SUFFICES ASSUME NEW n \in Names, NEW m, Declares(h, n)'
               PROVE  InScope(n, m)' = InScope(n, m) \cup
                        (IF m = (IF nesting = <<>> THEN 1 ELSE 2 * last + 1) THEN {h} ELSE {})
    OBVIOUS
  <2>1. h \in InScope(n, m)' <=> m = (IF nesting = <<>> THEN 1 ELSE 2 * last + 1)
    BY <1>5, <1>7
  <2> QED BY <2>1, <1>6, <1>8, <1>9
<1> QED BY <1>3, <1>10, <1>11

\* A token that opens something adds the scopes of its construct, above the others; in the
\* first is what the token declares.
LEMMA KeysOpening ==
  ASSUME Nested, NEW tok \in Token, prog' = Append(prog, tok), Moves(tok),
         OpensAt(tok), NEW h \in Nat, h = Len(prog) + 1
  PROVE  /\ Keys' = Keys \cup {2 * h + 1} \cup (IF tok.op = "open" THEN {} ELSE {2 * h})
         /\ \A m \in Keys : m \in Nat /\ m < 2 * h
         /\ \A n \in Names : \A m \in Keys : InScope(n, m)' = InScope(n, m)
         /\ \A n \in Names : /\ InScope(n, 2 * h + 1)' = {}
                             /\ InScope(n, 2 * h)' = IF Declares(h, n)' THEN {h} ELSE {}
<1>1. Open' = Open \cup {h} /\ Region(h)' = Open \cup {h}
  <2>1. tok.op # "close"
    BY DEF OpensAt
  <2> QED BY <2>1, Later DEF Nested, Region
<1>2. /\ Len(prog') = h /\ Len(prog) \in Nat /\ prog'[h] = tok
      /\ \A i \in 1..Len(prog) : prog'[i] = prog[i]
  BY AppendFacts DEF Nested
<1>3. Open \subseteq 1..Len(prog) /\ \A d \in 1..Len(prog) : Region(d) \subseteq 1..Len(prog)
  BY DEF Open, Region, Enclosing
<1>4. Opener(h)'
  BY <1>2 DEF Opener, OpensAt
<1>5. \A m \in Keys : m \in Nat /\ m < 2 * h
  <2>1. \A k \in Open : k \in Nat /\ k < h
    BY <1>2, <1>3
  <2>2. h >= 1
    BY <1>2
  <2> QED BY <2>1, <2>2 DEF Keys
<1>6. Keys' = Keys \cup {2 * h + 1} \cup (IF tok.op = "open" THEN {} ELSE {2 * h})
  <2>1. \A o \in Open : prog'[o] = prog[o]
    BY <1>2, <1>3
  <2>2. {o \in Open' : prog'[o].op # "open"} =
          {o \in Open : prog[o].op # "open"} \cup (IF tok.op = "open" THEN {} ELSE {h})
    BY <1>1, <1>2, <2>1
  <2>3. {2 * k + 1 : k \in Open'} = {2 * k + 1 : k \in Open} \cup {2 * h + 1}
    BY <1>1
  <2>4. {2 * k : k \in {o \in Open' : prog'[o].op # "open"}} =
          {2 * k : k \in {o \in Open : prog[o].op # "open"}} \cup (IF tok.op = "open" THEN {} ELSE {2 * h})
    BY <2>2
  <2> QED BY <2>3, <2>4 DEF Keys
<1>7. \A n \in Names : \A m : \A d \in 1..Len(prog) : d \in InScope(n, m)' <=> d \in InScope(n, m)
  <2>1. \A d \in 1..Len(prog) : d \in 1..Len(prog')
    BY <1>2
  <2>2. \A d \in 1..Len(prog) : Region(d) \subseteq Open' <=> Region(d) \subseteq Open
    <3>1. h \notin 1..Len(prog)
      BY <1>2
    <3> QED BY <1>1, <1>3, <3>1
  <2> QED BY <2>1, <2>2, PastSeen DEF InScope, Seen
<1>8. \A n \in Names : \A m : h \in InScope(n, m)' <=> Declares(h, n)' /\ m = 2 * h
  BY <1>1, <1>2, <1>4 DEF InScope, Seen, Belongs
<1>9. \A n \in Names : \A m : InScope(n, m)' \subseteq 1..h /\ InScope(n, m) \subseteq 1..Len(prog)
  BY <1>2 DEF InScope, Seen
<1>10. 1..h = 1..Len(prog) \cup {h} /\ h \notin 1..Len(prog)
  BY <1>2
<1>11. \A n \in Names : \A m \in Keys : InScope(n, m)' = InScope(n, m)
  <2> TAKE n \in Names
  <2> TAKE m \in Keys
  <2>1. m # 2 * h
    BY <1>5
  <2>2. h \notin InScope(n, m)' /\ h \notin InScope(n, m)
    BY <2>1, <1>8, <1>9, <1>10
  <2> QED BY <2>2, <1>7, <1>9, <1>10
<1>12. \A n \in Names : InScope(n, 2 * h) = {} /\ InScope(n, 2 * h + 1) = {}
  <2> SUFFICES ASSUME NEW d \in 1..Len(prog), Region(d) \subseteq Open,
                      Belongs(d, 2 * h) \/ Belongs(d, 2 * h + 1)
               PROVE  FALSE
    BY DEF InScope, Seen
  <2>1. \A k \in Region(d) : k \in Nat /\ k < h
    BY <1>2, <1>3
  <2>2. d \in Nat /\ d < h /\ h >= 1
    BY <1>2
  <2> QED BY <2>1, <2>2 DEF Belongs
<1>13. \A n \in Names : /\ InScope(n, 2 * h + 1)' = {}
                        /\ InScope(n, 2 * h)' = IF Declares(h, n)' THEN {h} ELSE {}
  <2> TAKE n \in Names
  <2> DEFINE k == 2 * h + 1
             l == 2 * h
  <2>1. k # l
    OBVIOUS
  <2> HIDE DEF k, l
  <2>2. InScope(n, k) = {} /\ InScope(n, l) = {}
    BY <1>12 DEF k, l
  <2>3. h \notin InScope(n, k)' /\ (h \in InScope(n, l)' <=> Declares(h, n)')
    BY <2>1, <1>8 DEF k, l
  <2>4. InScope(n, k)' = {} /\ InScope(n, l)' \subseteq {h}
    BY <2>2, <2>3, <1>7, <1>9, <1>10
  <2> QED BY <2>3, <2>4 DEF k, l
<1> QED BY <1>5, <1>6, <1>11, <1>13

\* Even and odd numbers.
LEMMA Doubled ==
  ASSUME NEW S \in SUBSET Nat, NEW l \in Nat
  PROVE  /\ {2 * k : k \in S \ {l}} = {2 * k : k \in S} \ {2 * l}
         /\ {2 * k + 1 : k \in S \ {l}} = {2 * k + 1 : k \in S} \ {2 * l + 1}
         /\ 2 * l \notin {2 * k + 1 : k \in S} /\ 2 * l + 1 \notin {2 * k : k \in S}
<1>1. ASSUME NEW k \in S
      PROVE  (2 * k = 2 * l <=> k = l) /\ (2 * k + 1 = 2 * l + 1 <=> k = l)
  OBVIOUS
<1>2. ASSUME NEW k \in S PROVE 2 * k # 2 * l + 1 
  OBVIOUS
<1>3. ASSUME NEW k \in S PROVE 2 * k + 1 # 2 * l
  OBVIOUS
<1>4. {2 * k : k \in S \ {l}} = {2 * k : k \in S} \ {2 * l}
  BY <1>1
<1>5. {2 * k + 1 : k \in S \ {l}} = {2 * k + 1 : k \in S} \ {2 * l + 1}
  BY <1>1
<1> QED BY <1>1, <1>2, <1>3, <1>4, <1>5

\* A close takes the scopes of the innermost construct away.
LEMMA KeysClosing ==
  ASSUME Nested, NEW tok \in Token, prog' = Append(prog, tok), nesting # <<>>,
         NEW last, last = nesting[Len(nesting)], tok = [op |-> "close", of |-> last]
  PROVE  /\ last \in Open
         /\ Keys' = Keys \ {2 * last, 2 * last + 1}
         /\ \A n \in Names : \A m \in Keys : m < 2 * last => InScope(n, m)' = InScope(n, m)
<1>1. last \in Open /\ Open \subseteq Nat /\ \A k \in Open : k <= last
  BY Innermost DEF Open
<1>2. PICK h \in Nat : h = Len(prog) + 1
  BY DEF Nested
<1>3. /\ Len(prog') = h /\ Len(prog) \in Nat /\ prog'[h] = tok
      /\ \A i \in 1..Len(prog) : prog'[i] = prog[i]
  BY <1>2, AppendFacts DEF Nested
<1>4. tok.op = "close" /\ \A k : tok = [op |-> "close", of |-> k] <=> k = last
  OBVIOUS
<1>5. Open' = Open \ {last}
  BY <1>2, <1>4, Later DEF Nested, OpensAt
<1>6. Keys' = Keys \ {2 * last, 2 * last + 1}
  <2>1. \A o \in Open : prog'[o] = prog[o]
    BY <1>3 DEF Open
  <2>2. {2 * k + 1 : k \in Open'} = {2 * k + 1 : k \in Open} \ {2 * last + 1}
    BY <1>1, <1>5, Doubled
  <2>3. {2 * k : k \in {o \in Open' : prog'[o].op # "open"}} =
          {2 * k : k \in {o \in Open : prog[o].op # "open"}} \ {2 * last}
    <3> DEFINE S == {o \in Open : prog[o].op # "open"}
    <3>1. {o \in Open' : prog'[o].op # "open"} = S \ {last} /\ S \in SUBSET Nat /\ last \in Nat
      BY <1>1, <1>5, <2>1
    <3> HIDE DEF S
    <3>2. {2 * k : k \in S \ {last}} = {2 * k : k \in S} \ {2 * last}
      BY <3>1, Doubled
    <3> QED BY <3>1, <3>2 DEF S
  <2>4. 1 # 2 * last + 1 /\ 1 # 2 * last
    BY <1>1 DEF Open
  <2>5. /\ 2 * last \notin {2 * k + 1 : k \in Open}
        /\ 2 * last + 1 \notin {2 * k : k \in {o \in Open : prog[o].op # "open"}}
    <3> DEFINE S == {o \in Open : prog[o].op # "open"}
    <3>1. S \in SUBSET Nat /\ last \in Nat /\ Open \in SUBSET Nat
      BY <1>1
    <3> HIDE DEF S
    <3>2. 2 * last \notin {2 * k + 1 : k \in Open} /\ 2 * last + 1 \notin {2 * k : k \in S}
      BY <3>1, Doubled
    <3> QED BY <3>2 DEF S
  <2> QED BY <2>2, <2>3, <2>4, <2>5 DEF Keys
<1>7. ASSUME NEW n \in Names, NEW m \in Keys, m < 2 * last
      PROVE  InScope(n, m)' = InScope(n, m)
  <2>1. h \notin InScope(n, m)'
    BY <1>3, <1>4 DEF InScope, Seen, Declares, Stores
  <2>2. ASSUME NEW d \in 1..Len(prog) PROVE d \in InScope(n, m)' <=> d \in InScope(n, m)
    <3>1. d \in 1..Len(prog')
      BY <1>2, <1>3
    <3>2. d \in InScope(n, m)' <=> Declares(d, n) /\ Region(d) \subseteq Open' /\ Belongs(d, m)
      BY <3>1, PastSeen DEF InScope, Seen
    <3>3. ASSUME Region(d) \subseteq Open, Belongs(d, m) PROVE last \notin Region(d)
      <4>1. SUFFICES ASSUME last \in Region(d) PROVE FALSE
        OBVIOUS
      <4>2. last <= d /\ d \in Nat
        BY <4>1 DEF Region, Enclosing, Encloses
      <4>3. CASE Opener(d)
        BY <4>2, <4>3, <3>3, <1>1, <1>7 DEF Belongs
      <4>4. CASE ~Opener(d)
        <5>1. PICK k \in Region(d) : m = 2 * k + 1 /\ \A j \in Region(d) : j <= k
          BY <4>1, <4>4, <3>3 DEF Belongs
        <5>2. last <= k /\ k \in Nat
          BY <5>1, <4>1, <3>3, <1>1
        <5> QED BY <5>1, <5>2, <1>1, <1>7
      <4> QED BY <4>3, <4>4
    <3> QED BY <3>2, <3>3, <1>5 DEF InScope, Seen
  <2>3. InScope(n, m)' \subseteq 1..h /\ InScope(n, m) \subseteq 1..Len(prog)
    BY <1>3 DEF InScope, Seen
  <2>4. InScope(n, m)' \subseteq 1..Len(prog)
    BY <2>1, <2>3, <1>2, <1>3
  <2> QED BY <2>2, <2>3, <2>4
<1> QED BY <1>1, <1>6, <1>7

(* The operations of stm.c. *)

ScopeType == [Names -> Entry]

\* The entry for a name that is not there.
LEMMA Absence == Absent \in Entry /\ Absent.id = 0 /\ EmptyScope \in ScopeType
BY DEF Absent, Entry, EmptyScope, ScopeType

\* What PushScope returns.
LEMMA Pushed ==
  ASSUME NEW st \in Seq(ScopeType)
  PROVE  /\ PushScope(st) \in Seq(ScopeType) /\ Len(PushScope(st)) = Len(st) + 1 /\ Len(st) \in Nat
         /\ \A s \in 1..Len(st) : PushScope(st)[s] = st[s]
         /\ \A n \in Names : PushScope(st)[Len(st) + 1][n].id = 0
<1>1. /\ Append(st, EmptyScope) \in Seq(ScopeType) /\ Len(Append(st, EmptyScope)) = Len(st) + 1
      /\ Len(st) \in Nat /\ \A s \in 1..Len(st) : Append(st, EmptyScope)[s] = st[s]
      /\ Append(st, EmptyScope)[Len(st) + 1] = EmptyScope
  BY Absence, AppendFacts
<1>2. \A n \in Names : EmptyScope[n].id = 0
  BY Absence DEF EmptyScope
<1> QED BY <1>1, <1>2 DEF PushScope

\* What Insert returns: an entry that is there stays.
LEMMA Inserted ==
  ASSUME NEW st \in Seq(ScopeType), Len(st) # 0, NEW n \in Names, NEW e \in Entry
  PROVE  LET r == Insert(st, n, e)
         IN  /\ r \in Seq(ScopeType) /\ Len(r) = Len(st)
             /\ \A s \in 1..Len(st) : \A x \in Names :
                  r[s][x].id = IF s = Len(st) /\ x = n /\ st[s][x].id = 0 THEN e.id ELSE st[s][x].id
<1> DEFINE L == Len(st)
           changed == [st EXCEPT ![L] = [@ EXCEPT ![n] = e]]
<1>1. L \in Nat /\ L \in 1..L /\ DOMAIN st = 1..L /\ \A s \in 1..L : st[s] \in ScopeType
  OBVIOUS
<1>2. st[L][n].id \in Nat
  BY <1>1 DEF ScopeType, Entry
<1>3. Insert(st, n, e) = IF st[L][n].id # 0 THEN st ELSE changed
  BY DEF Insert, Present, Local
<1>4. [st[L] EXCEPT ![n] = e] \in ScopeType
  BY <1>1 DEF ScopeType
<1>5. changed = [st EXCEPT ![L] = [st[L] EXCEPT ![n] = e]]
  BY <1>1
<1>6. changed \in Seq(ScopeType) /\ Len(changed) = L
  <2> HIDE DEF L
  <2> QED BY <1>1, <1>4, <1>5 DEF L
<1>7. \A s \in 1..L : changed[s] = IF s = L THEN [st[L] EXCEPT ![n] = e] ELSE st[s]
  BY <1>1, <1>5
<1>8. \A x \in Names : [st[L] EXCEPT ![n] = e][x] = IF x = n THEN e ELSE st[L][x]
  BY <1>1 DEF ScopeType
<1> HIDE DEF changed
<1>9. ASSUME st[L][n].id = 0
      PROVE  \A s \in 1..L : \A x \in Names :
               changed[s][x].id = IF s = L /\ x = n /\ st[s][x].id = 0 THEN e.id ELSE st[s][x].id
  BY <1>7, <1>8, <1>9
<1> HIDE DEF L
<1> QED BY <1>3, <1>6, <1>9 DEF L

\* A later declaration does not replace the entry.
LEMMA HoldsMore ==
  ASSUME NEW h \in Nat \ {0}, NEW S \in SUBSET (1..(h - 1)), NEW id, Holds(id, S)
  PROVE  Holds(IF id = 0 THEN h ELSE id, S \cup {h})
<1>1. CASE S = {}
  BY <1>1 DEF Holds
<1>2. CASE S # {}
  <2>1. id \in S /\ \A e \in S : id <= e
    BY <1>2 DEF Holds
  <2>2. id \in Nat /\ id # 0 /\ id <= h
    BY <2>1
  <2>3. id \in S \cup {h} /\ \A e \in S \cup {h} : id <= e
    BY <2>1, <2>2
  <2> QED BY <2>2, <2>3 DEF Holds
<1> QED BY <1>1, <1>2

\* A name that is used.
LEMMA MirrorUse ==
  ASSUME Nested, NEW tok \in Token, prog' = Append(prog, tok), Moves(tok), tok.op \in {"use", "assign"},
         NEW at, Mirror(at), scopes' = scopes
  PROVE  Mirror(at)'
<1>1. PICK h \in Nat : h = Len(prog) + 1
  BY DEF Nested
<1>2. prog'[h] = tok
  BY <1>1, AppendFacts DEF Nested
<1>3. \A n \in Names : ~Declares(h, n)'
  BY <1>2 DEF Declares, Stores
<1>4. Keys' = Keys /\ \A n \in Names : \A m : InScope(n, m)' = InScope(n, m)
  BY <1>1, <1>3, KeysPlain DEF OpensAt
<1> QED BY <1>4 DEF Mirror

\* A variable or the name of a function that is declared.
LEMMA MirrorDeclare ==
  ASSUME Nested, NEW tok \in Token, prog' = Append(prog, tok), Moves(tok),
         tok \in Decl \cup Signature,
         NEW at, Mirror(at), scopes \in Seq(ScopeType), NEW h \in Nat, h = Len(prog) + 1,
         NEW e \in Entry, e.id = h, scopes' = Insert(scopes, tok.name, e)
  PROVE  Mirror(at)' /\ scopes' \in Seq(ScopeType)
<1> DEFINE top == IF nesting = <<>> THEN 1 ELSE 2 * nesting[Len(nesting)] + 1
           n == tok.name
           L == Len(at)
<1>1. tok.op \in {"global", "local", "signature"} /\ n \in Names
  BY DEF Decl, Signature
<1>2. /\ prog'[h] = tok /\ h \in Nat \ {0} /\ Len(prog) = h - 1
  BY AppendFacts DEF Nested
<1>3. \A x \in Names : Declares(h, x)' <=> x = n
  BY <1>1, <1>2 DEF Declares, Stores
<1>4. /\ Keys' = Keys
      /\ \A x \in Names : \A m : x # n => InScope(x, m)' = InScope(x, m)
      /\ \A m : InScope(n, m)' = InScope(n, m) \cup (IF m = top THEN {h} ELSE {})
  BY <1>1, <1>3, KeysPlain DEF OpensAt
<1>5. L \in Nat \ {0} /\ at[L] = top /\ L = Len(scopes) /\ at \in Seq(Nat)
  BY TopKey DEF Mirror
<1> HIDE DEF top
<1>6. /\ scopes' \in Seq(ScopeType) /\ Len(scopes') = L
      /\ \A s \in 1..L : \A x \in Names :
           scopes'[s][x].id = IF s = L /\ x = n /\ scopes[s][x].id = 0 THEN h ELSE scopes[s][x].id
  <2>1. tok.name \in Names /\ Len(scopes) # 0
    BY <1>1, <1>5
  <2>2. /\ scopes' \in Seq(ScopeType) /\ Len(scopes') = Len(scopes)
        /\ \A s \in 1..Len(scopes) : \A x \in Names :
             scopes'[s][x].id =
               IF s = Len(scopes) /\ x = tok.name /\ scopes[s][x].id = 0 THEN e.id ELSE scopes[s][x].id
    BY <2>1, Inserted
  <2> QED BY <2>2, <1>5
<1>7. \A s \in 1..L : s # L => at[s] # top
  <2> TAKE s \in 1..L
  <2>1. L \in 1..L /\ (s # L => s < L) /\ at[s] \in Nat /\ at[L] \in Nat
    BY <1>5
  <2>2. s # L => at[s] < at[L]
    BY <2>1 DEF Mirror
  <2> QED BY <2>1, <2>2, <1>5
<1>8. ASSUME NEW s \in 1..L, NEW x \in Names
      PROVE  Holds(scopes'[s][x].id, InScope(x, at[s])')
  <2>1. Holds(scopes[s][x].id, InScope(x, at[s]))
    BY DEF Mirror
  <2>2. CASE x # n
    BY <2>1, <2>2, <1>4, <1>6
  <2>3. CASE x = n /\ s # L
    <3>1. InScope(x, at[s])' = InScope(x, at[s])
      BY <2>3, <1>4, <1>7
    <3> QED BY <2>1, <2>3, <3>1, <1>6
  <2>4. CASE x = n /\ s = L
    <3>1. InScope(x, at[s])' = InScope(x, at[s]) \cup {h}
      BY <2>4, <1>4, <1>5
    <3>2. InScope(x, at[s]) \in SUBSET (1..(h - 1))
      BY <1>2 DEF InScope, Seen
    <3>3. scopes'[s][x].id = IF scopes[s][x].id = 0 THEN h ELSE scopes[s][x].id
      BY <2>4, <1>6
    <3> QED BY <2>1, <3>1, <3>2, <3>3, <1>2, HoldsMore
  <2> QED BY <2>2, <2>3, <2>4
<1>9. Mirror(at)'
  BY <1>4, <1>6, <1>8 DEF Mirror
<1> QED BY <1>6, <1>9

\* A scope is opened for a key above those there are.
LEMMA KeyAdded ==
  ASSUME NEW at \in Seq(Nat), NEW m \in Nat, \A s \in 1..Len(at) : at[s] < m,
         \A s, t \in 1..Len(at) : s < t => at[s] < at[t]
  PROVE  /\ Append(at, m) \in Seq(Nat) /\ Len(Append(at, m)) = Len(at) + 1
         /\ \A s \in 1..Len(at) : Append(at, m)[s] = at[s]
         /\ Append(at, m)[Len(at) + 1] = m
         /\ \A s, t \in 1..(Len(at) + 1) : s < t => Append(at, m)[s] < Append(at, m)[t]
<1> DEFINE new == Append(at, m)
           L == Len(at)
<1>1. /\ new \in Seq(Nat) /\ Len(new) = L + 1 /\ L \in Nat
      /\ \A s \in 1..L : new[s] = at[s]
      /\ new[L + 1] = m
  BY AppendFacts
<1> HIDE DEF new, L
<1>2. ASSUME NEW s \in 1..(L + 1), NEW t \in 1..(L + 1), s < t PROVE new[s] < new[t]
  <2>1. s \in 1..L /\ (t \in 1..L \/ t = L + 1)
    BY <1>1, <1>2
  <2> QED BY <2>1, <1>1, <1>2 DEF L
<1> QED BY <1>1, <1>2 DEF new, L

\* A block.
LEMMA MirrorBlock ==
  ASSUME Nested, NEW tok \in Token, prog' = Append(prog, tok), Moves(tok), tok.op = "open",
         NEW at, Mirror(at), scopes \in Seq(ScopeType), scopes' = PushScope(scopes)
  PROVE  (\E new : Mirror(new)') /\ scopes' \in Seq(ScopeType)
<1>1. PICK h \in Nat : h = Len(prog) + 1
  BY DEF Nested
<1>2. /\ Keys' = Keys \cup {2 * h + 1}
      /\ \A m \in Keys : m \in Nat /\ m < 2 * h
      /\ \A n \in Names : \A m \in Keys : InScope(n, m)' = InScope(n, m)
      /\ \A n \in Names : InScope(n, 2 * h + 1)' = {}
  BY <1>1, KeysOpening DEF OpensAt
<1>3. PICK new : new = Append(at, 2 * h + 1)
  OBVIOUS
<1>4. /\ at \in Seq(Nat) /\ Len(at) = Len(scopes) /\ Len(at) \in Nat
      /\ \A s \in 1..Len(at) : at[s] \in Keys
      /\ \A s, t \in 1..Len(at) : s < t => at[s] < at[t]
      /\ \A m \in Keys : \E s \in 1..Len(at) : m = at[s]
  BY DEF Mirror
<1>5. /\ new \in Seq(Nat) /\ Len(new) = Len(at) + 1
      /\ \A s \in 1..Len(at) : new[s] = at[s]
      /\ new[Len(at) + 1] = 2 * h + 1
      /\ \A s, t \in 1..Len(new) : s < t => new[s] < new[t]
  <2>1. 2 * h + 1 \in Nat /\ \A s \in 1..Len(at) : at[s] < 2 * h + 1
    BY <1>2, <1>4
  <2> QED BY <2>1, <1>3, <1>4, KeyAdded
<1>6. /\ scopes' \in Seq(ScopeType) /\ Len(scopes') = Len(new)
      /\ \A s \in 1..Len(at) : scopes'[s] = scopes[s]
      /\ \A n \in Names : scopes'[Len(at) + 1][n].id = 0
  BY <1>4, <1>5, Pushed
<1>7. \A s \in 1..Len(new) : s \in 1..Len(at) \/ s = Len(at) + 1
  BY <1>4, <1>5
<1>8. \A s \in 1..Len(new) : new[s] \in Keys'
  BY <1>2, <1>4, <1>5, <1>7
<1>9. \A m \in Keys' : \E s \in 1..Len(new) : m = new[s]
  <2>1. 1..Len(at) \subseteq 1..Len(new) /\ Len(at) + 1 \in 1..Len(new)
    BY <1>4, <1>5
  <2>2. \A m \in Keys : \E s \in 1..Len(new) : m = new[s]
    BY <1>4, <1>5, <2>1
  <2> QED BY <1>2, <1>5, <2>1, <2>2
<1>10. ASSUME NEW s \in 1..Len(new), NEW n \in Names
       PROVE  Holds(scopes'[s][n].id, InScope(n, new[s])')
  <2>1. CASE s \in 1..Len(at)
    <3>1. InScope(n, new[s])' = InScope(n, at[s]) /\ Holds(scopes[s][n].id, InScope(n, at[s]))
      BY <2>1, <1>2, <1>4, <1>5 DEF Mirror
    <3> QED BY <2>1, <3>1, <1>6
  <2>2. CASE s = Len(at) + 1
    <3>1. InScope(n, new[s])' = {} /\ scopes'[s][n].id = 0
      BY <2>2, <1>2, <1>5, <1>6
    <3> QED BY <3>1 DEF Holds
  <2> QED BY <2>1, <2>2, <1>7
<1>11. Mirror(new)'
  BY <1>5, <1>6, <1>8, <1>9, <1>10 DEF Mirror
<1> QED BY <1>6, <1>11

\* A function or a loop: a scope for what it declares, and one for its body.
LEMMA MirrorConstruct ==
  ASSUME Nested, NEW tok \in Token, prog' = Append(prog, tok), Moves(tok),
         tok.op \in {"function", "for"}, NEW at, Mirror(at), scopes \in Seq(ScopeType),
         NEW h \in Nat, h = Len(prog) + 1,
         NEW middle \in Seq(ScopeType), Len(middle) = Len(scopes) + 1,
         \A s \in 1..Len(scopes) : \A x \in Names : middle[s][x].id = scopes[s][x].id,
         \A x \in Names : middle[Len(middle)][x].id = IF Declares(h, x)' THEN h ELSE 0,
         scopes' = PushScope(middle)
  PROVE  (\E new : Mirror(new)') /\ scopes' \in Seq(ScopeType)
<1>2. /\ Keys' = Keys \cup {2 * h, 2 * h + 1}
      /\ \A m \in Keys : m \in Nat /\ m < 2 * h
      /\ \A n \in Names : \A m \in Keys : InScope(n, m)' = InScope(n, m)
      /\ \A n \in Names : /\ InScope(n, 2 * h + 1)' = {}
                          /\ InScope(n, 2 * h)' = IF Declares(h, n)' THEN {h} ELSE {}
  BY KeysOpening DEF OpensAt
<1>3. PICK one : one = Append(at, 2 * h)
  OBVIOUS
<1>4. PICK new : new = Append(one, 2 * h + 1)
  OBVIOUS
<1>5. /\ at \in Seq(Nat) /\ Len(at) = Len(scopes) /\ Len(at) \in Nat
      /\ \A s \in 1..Len(at) : at[s] \in Keys
      /\ \A s, t \in 1..Len(at) : s < t => at[s] < at[t]
      /\ \A m \in Keys : \E s \in 1..Len(at) : m = at[s]
  BY DEF Mirror
<1>6. /\ one \in Seq(Nat) /\ Len(one) = Len(at) + 1
      /\ \A s \in 1..Len(at) : one[s] = at[s]
      /\ one[Len(at) + 1] = 2 * h
      /\ \A s, t \in 1..Len(one) : s < t => one[s] < one[t]
  <2>1. 2 * h \in Nat /\ \A s \in 1..Len(at) : at[s] < 2 * h
    BY <1>2, <1>5
  <2> QED BY <2>1, <1>3, <1>5, KeyAdded
<1>7. /\ new \in Seq(Nat) /\ Len(new) = Len(one) + 1
      /\ \A s \in 1..Len(one) : new[s] = one[s]
      /\ new[Len(one) + 1] = 2 * h + 1
      /\ \A s, t \in 1..Len(new) : s < t => new[s] < new[t]
  <2>1. 2 * h + 1 \in Nat /\ \A s \in 1..Len(one) : one[s] < 2 * h + 1
    <3>1. \A s \in 1..Len(one) : s \in 1..Len(at) \/ s = Len(at) + 1
      BY <1>5, <1>6
    <3> QED BY <3>1, <1>2, <1>5, <1>6
  <2> QED BY <2>1, <1>4, <1>6, KeyAdded
<1> DEFINE L == Len(at)
<1>8. /\ L \in Nat /\ Len(new) = L + 2
      /\ \A s \in 1..L : new[s] = at[s]
      /\ new[L + 1] = 2 * h /\ new[L + 2] = 2 * h + 1
  <2>1. Len(one) = L + 1 /\ L \in Nat /\ one[L + 1] = 2 * h /\ \A s \in 1..L : one[s] = at[s]
    BY <1>5, <1>6
  <2> HIDE DEF L
  <2>2. L + 1 \in 1..Len(one) /\ \A s \in 1..L : s \in 1..Len(one)
    BY <2>1
  <2>3. Len(one) + 1 = L + 2 /\ \A s \in 1..Len(one) : new[s] = one[s]
    BY <2>1, <1>7
  <2>4. Len(new) = L + 2 /\ new[L + 2] = 2 * h + 1
    BY <2>3, <1>7
  <2>5. new[L + 1] = 2 * h /\ \A s \in 1..L : new[s] = at[s]
    BY <2>1, <2>2, <2>3
  <2> QED BY <2>1, <2>4, <2>5
<1>9. /\ scopes' \in Seq(ScopeType) /\ Len(scopes') = L + 2
      /\ \A s \in 1..L : scopes'[s] = middle[s]
      /\ scopes'[L + 1] = middle[L + 1]
      /\ \A n \in Names : scopes'[L + 2][n].id = 0
  <2>1. Len(middle) = L + 1 /\ L \in Nat
    BY <1>5
  <2> HIDE DEF L
  <2>2. L + 1 \in 1..Len(middle) /\ \A s \in 1..L : s \in 1..Len(middle)
    BY <2>1
  <2>3. /\ scopes' \in Seq(ScopeType) /\ Len(scopes') = Len(middle) + 1
        /\ \A s \in 1..Len(middle) : scopes'[s] = middle[s]
        /\ \A n \in Names : scopes'[Len(middle) + 1][n].id = 0
    BY Pushed
  <2>4. Len(middle) + 1 = L + 2
    BY <2>1
  <2> QED BY <2>2, <2>3, <2>4
<1> HIDE DEF L
<1>10. \A s \in 1..(L + 2) : s \in 1..L \/ s = L + 1 \/ s = L + 2
  BY <1>8
<1>11. \A s \in 1..L : at[s] \in Keys
  BY <1>5 DEF L
<1>12. \A s \in 1..Len(new) : new[s] \in Keys'
  BY <1>2, <1>8, <1>10, <1>11
<1>13. \A m \in Keys' : \E s \in 1..Len(new) : m = new[s]
  <2>1. 1..L \subseteq 1..Len(new) /\ L + 1 \in 1..Len(new) /\ L + 2 \in 1..Len(new)
    BY <1>8
  <2>2. \A m \in Keys : \E s \in 1..L : m = new[s]
    BY <1>5, <1>8 DEF L
  <2> QED BY <1>2, <1>8, <2>1, <2>2
<1>14. ASSUME NEW s \in 1..Len(new), NEW n \in Names
       PROVE  Holds(scopes'[s][n].id, InScope(n, new[s])')
  <2>1. CASE s \in 1..L
    <3>1. InScope(n, new[s])' = InScope(n, at[s]) /\ Holds(scopes[s][n].id, InScope(n, at[s]))
      BY <2>1, <1>2, <1>8, <1>11 DEF Mirror, L
    <3>2. scopes'[s][n].id = scopes[s][n].id
      BY <2>1, <1>5, <1>9 DEF L
    <3> QED BY <3>1, <3>2
  <2>2. CASE s = L + 1
    <3>1. InScope(n, new[s])' = IF Declares(h, n)' THEN {h} ELSE {}
      BY <2>2, <1>2, <1>8
    <3>2. scopes'[s][n].id = IF Declares(h, n)' THEN h ELSE 0
      BY <2>2, <1>5, <1>9 DEF L
    <3>3. h <= h
      OBVIOUS
    <3> QED BY <3>1, <3>2, <3>3 DEF Holds
  <2>3. CASE s = L + 2
    <3>1. InScope(n, new[s])' = {} /\ scopes'[s][n].id = 0
      BY <2>3, <1>2, <1>8, <1>9
    <3> QED BY <3>1 DEF Holds
  <2> QED BY <2>1, <2>2, <2>3, <1>8, <1>10
<1>15. Mirror(new)'
  BY <1>7, <1>8, <1>9, <1>12, <1>13, <1>14 DEF Mirror
<1> QED BY <1>9, <1>15

\* The innermost scopes are closed.
LEMMA MirrorClose ==
  ASSUME Nested, NEW tok \in Token, prog' = Append(prog, tok), nesting # <<>>,
         NEW last, last = nesting[Len(nesting)], tok = [op |-> "close", of |-> last],
         NEW at, Mirror(at), scopes \in Seq(ScopeType),
         NEW new \in Seq(Nat), scopes' \in Seq(ScopeType), Len(new) = Len(scopes'),
         Len(new) = IF prog[last].op = "open" THEN Len(at) - 1 ELSE Len(at) - 2,
         \A s \in 1..Len(new) : new[s] = at[s] /\ scopes'[s] = scopes[s]
  PROVE  Mirror(new)'
<1>1. /\ last \in Open /\ last \in Nat
      /\ Keys' = Keys \ {2 * last, 2 * last + 1}
      /\ \A n \in Names : \A m \in Keys : m < 2 * last => InScope(n, m)' = InScope(n, m)
  <2>1. last \in Open => last \in Nat
    BY DEF Open
  <2> QED BY <2>1, KeysClosing
<1>2. /\ Len(at) \in Nat \ {0} /\ at[Len(at)] = 2 * last + 1
      /\ prog[last].op # "open" => Len(at) > 1 /\ at[Len(at) - 1] = 2 * last
  BY TopKey
<1>3. /\ at \in Seq(Nat) /\ Len(at) = Len(scopes)
      /\ \A s \in 1..Len(at) : at[s] \in Keys /\ at[s] \in Nat
      /\ \A s, t \in 1..Len(at) : s < t => at[s] < at[t]
      /\ \A m \in Keys : \E s \in 1..Len(at) : m = at[s]
  BY DEF Mirror
<1>4. Len(new) \in Nat /\ \A s \in 1..Len(new) : s \in 1..Len(at) /\ s < Len(at)
  BY <1>2
<1>5. prog[last].op = "open" => 2 * last \notin Keys
  <2>1. SUFFICES ASSUME prog[last].op = "open", 2 * last \in Keys PROVE FALSE
    OBVIOUS
  <2>2. Open \in SUBSET Nat
    BY DEF Open
  <2>3. 2 * last \notin {2 * k + 1 : k \in Open} /\ 2 * last # 1
    BY <1>1, <2>2, Doubled
  <2>4. PICK k \in Open : prog[k].op # "open" /\ 2 * last = 2 * k
    BY <2>1, <2>3 DEF Keys
  <2>5. k = last
    BY <1>1, <2>2, <2>4
  <2> QED BY <2>1, <2>4, <2>5
<1>6. \A s \in 1..Len(new) : at[s] < 2 * last
  <2> TAKE s \in 1..Len(new)
  <2>0. Len(at) \in 1..Len(at)
    BY <1>2
  <2>1. s \in 1..Len(at) /\ s < Len(at) /\ Len(at) \in 1..Len(at) /\ at[s] \in Nat
    BY <2>0, <1>3, <1>4
  <2>2. at[s] < 2 * last + 1
    BY <2>1, <1>2, <1>3
  <2>3. CASE prog[last].op = "open"
    <3>1. at[s] # 2 * last
      BY <2>1, <2>3, <1>3, <1>5
    <3>2. PICK x \in Nat, m \in Nat : x = at[s] /\ m = 2 * last
      <4>1. at[s] \in Nat /\ 2 * last \in Nat
        BY <2>1, <1>1
      <4> QED BY <4>1
    <3>3. x < m + 1 /\ x # m
      BY <2>2, <3>1, <3>2
    <3>4. x < m
      BY <3>3
    <3> QED BY <3>2, <3>4
  <2>4. CASE prog[last].op # "open"
    <3>1. s < Len(at) - 1 /\ Len(at) - 1 \in 1..Len(at)
      BY <2>4, <1>2
    <3>2. at[s] < at[Len(at) - 1]
      BY <2>1, <3>1, <1>3
    <3> QED BY <3>2, <2>4, <1>2
  <2> QED BY <2>3, <2>4
<1>7. \A m \in Keys' : \E s \in 1..Len(new) : m = new[s]
  <2> TAKE m \in Keys'
  <2>1. m \in Keys /\ m # 2 * last /\ m # 2 * last + 1
    BY <1>1
  <2>2. PICK s \in 1..Len(at) : m = at[s]
    BY <2>1, <1>3
  <2>3. s # Len(at) /\ (prog[last].op # "open" => s # Len(at) - 1)
    BY <2>1, <2>2, <1>2
  <2>4. s \in 1..Len(new)
    BY <2>3, <1>2
  <2> QED BY <2>2, <2>4
<1>8. \A s \in 1..Len(new) : new[s] \in Keys'
  <2> TAKE s \in 1..Len(new)
  <2>1. at[s] \in Keys /\ at[s] < 2 * last /\ at[s] \in Nat
    BY <1>3, <1>4, <1>6
  <2>2. at[s] # 2 * last /\ at[s] # 2 * last + 1
    BY <2>1, <1>1
  <2> QED BY <2>1, <2>2, <1>1
<1>9. ASSUME NEW s \in 1..Len(new), NEW n \in Names
      PROVE  Holds(scopes'[s][n].id, InScope(n, new[s])')
  <2>1. s \in 1..Len(at) /\ at[s] \in Keys /\ at[s] < 2 * last /\ new[s] = at[s]
    BY <1>3, <1>4, <1>6
  <2>2. InScope(n, new[s])' = InScope(n, at[s]) /\ Holds(scopes[s][n].id, InScope(n, at[s]))
    BY <2>1, <1>1 DEF Mirror
  <2> QED BY <2>2
<1>10. \A s, t \in 1..Len(new) : s < t => new[s] < new[t]
  BY <1>3, <1>4
<1> QED BY <1>7, <1>8, <1>9, <1>10 DEF Mirror

(* The lookup finds what lexical scoping says. *)

\* A declaration that can be seen is in the scope of the innermost construct around
\* it, and around it are the open constructs up to that one.
LEMMA Ranked ==
  ASSUME Nested, \A i \in 1..Len(prog) : Placed(i), NEW n \in Names, NEW d \in Seen(n)
  PROVE  \E K \in Open \cup {0} :
           /\ Region(d) = {k \in Open : k <= K}
           /\ \A m : Belongs(d, m) <=> m = 2 * K + (IF Opener(d) THEN 0 ELSE 1)
           /\ Opener(d) => K # 0 /\ prog[K].op # "open"
<1>1. d \in 1..Len(prog) /\ Declares(d, n) /\ Region(d) \subseteq Open /\ prog \in Seq(Token)
  BY DEF Seen, Nested
<1>2. Open \subseteq 1..Len(prog) /\ Open \subseteq Nat
  BY DEF Open
<1>3. \A k \in Region(d) : k <= d
  BY DEF Region, Enclosing, Encloses
<1>4. ASSUME NEW K \in Region(d), \A k \in Region(d) : k <= K
      PROVE  Region(d) = {k \in Open : k <= K}
  <2>1. \A k \in Open : k <= K => k <= d
    <3>0. K \in Open /\ K <= d
      BY <1>1, <1>3
    <3>1. K \in Nat /\ d \in Nat /\ K <= d
      BY <3>0, <1>1, <1>2
    <3> QED BY <3>1, <1>2
  <2>2. \A k \in Open : k <= K => k \in Region(d)
    BY <2>1, <1>1, OpenEncloses DEF Region
  <2> QED BY <2>2, <1>1, <1>4
<1>5. CASE Opener(d)
  <2>1. d \in Region(d)
    <3>1. d <= d /\ d..(d - 1) = {}
      BY <1>1
    <3> QED BY <3>1, <1>1, <1>5 DEF Region, Enclosing, Encloses
  <2>2. Region(d) = {k \in Open : k <= d}
    BY <2>1, <1>3, <1>4
  <2>3. \A m : Belongs(d, m) <=> m = 2 * d
    BY <1>5 DEF Belongs
  <2>4. prog[d].op # "open"
    BY <1>1 DEF Declares, Stores
  <2>5. 2 * d = 2 * d + 0 /\ d \in Open /\ d # 0
    BY <1>1, <2>1
  <2> QED BY <1>5, <2>2, <2>3, <2>4, <2>5
<1>6. CASE ~Opener(d) /\ Region(d) = {}
  <2>1. \A k \in Open : ~(k <= 0)
    BY <1>2
  <2>2. \A m : Belongs(d, m) <=> m = 1
    BY <1>6 DEF Belongs
  <2>3. 1 = 2 * 0 + 1
    OBVIOUS
  <2> QED BY <1>6, <2>1, <2>2, <2>3
<1>7. CASE ~Opener(d) /\ Region(d) # {}
  <2>1. PICK K \in Region(d) : \A j \in Region(d) : j <= K
    BY <1>1, <1>7 DEF Placed, Region
  <2>2. Region(d) = {k \in Open : k <= K}
    BY <2>1, <1>4
  <2>3. \A k \in Region(d) : (\A j \in Region(d) : j <= k) => k = K
    <3> SUFFICES ASSUME NEW k \in Region(d), \A j \in Region(d) : j <= k PROVE k = K
      OBVIOUS
    <3>1. k \in Nat /\ K \in Nat
      BY <1>1, <1>2
    <3>2. k <= K /\ K <= k
      BY <2>1
    <3> QED BY <3>1, <3>2
  <2>4. \A m : Belongs(d, m) <=> m = 2 * K + 1
    BY <1>7, <2>1, <2>3 DEF Belongs
  <2> QED BY <1>1, <1>7, <2>1, <2>2, <2>4
<1> QED BY <1>5, <1>6, <1>7

\* The deeper a declaration is, the later its scope.
LEMMA Deeper ==
  ASSUME Nested, \A i \in 1..Len(prog) : Placed(i), NEW n \in Names,
         NEW d \in Seen(n), NEW e \in Seen(n), NEW p, Belongs(d, p), NEW q, Belongs(e, q)
  PROVE  /\ p \in Nat /\ q \in Nat /\ Depth(d) \in Nat /\ Depth(e) \in Nat
         /\ p < q => Depth(d) < Depth(e)
         /\ p = q => Depth(d) = Depth(e)
<1> DEFINE Upto(K) == {k \in Open : k <= K}
<1>1. PICK K \in Open \cup {0} :
        Region(d) = Upto(K) /\ p = 2 * K + (IF Opener(d) THEN 0 ELSE 1)
  BY Ranked
<1>2. PICK L \in Open \cup {0} :
        Region(e) = Upto(L) /\ q = 2 * L + (IF Opener(e) THEN 0 ELSE 1)
  BY Ranked
<1>3. Open \subseteq 1..Len(prog) /\ Len(prog) \in Nat
  BY DEF Open, Nested
<1>4. K \in Nat /\ L \in Nat
  BY <1>3
<1>5. IsFiniteSet(Upto(K)) /\ IsFiniteSet(Upto(L))
  <2>1. IsFiniteSet(1..Len(prog))
    BY <1>3, FS_Interval
  <2>2. Upto(K) \subseteq 1..Len(prog) /\ Upto(L) \subseteq 1..Len(prog)
    BY <1>3
  <2> QED BY <2>1, <2>2, FS_Subset
<1>6. Cardinality(Upto(K)) \in Nat /\ Cardinality(Upto(L)) \in Nat
  BY <1>5, FS_CardinalityType
<1>7. K < L => Cardinality(Upto(K)) < Cardinality(Upto(L))
  <2> SUFFICES ASSUME K < L PROVE Cardinality(Upto(K)) < Cardinality(Upto(L))
    OBVIOUS
  <2>1. L \in Upto(L) /\ L \notin Upto(K)
    BY <1>4
  <2>2. Upto(K) \subseteq Upto(L)
    <3> SUFFICES ASSUME NEW k \in Upto(K) PROVE k \in Upto(L)
      OBVIOUS
    <3>1. k \in Open /\ k <= K
      OBVIOUS
    <3>2. k \in Nat
      BY <3>1, <1>3
    <3>3. k <= L
      BY <3>1, <3>2, <1>4
    <3> QED BY <3>1, <3>3
  <2>3. Upto(K) # Upto(L)
    BY <2>1
  <2>4. Cardinality(Upto(K)) <= Cardinality(Upto(L)) /\ Cardinality(Upto(K)) # Cardinality(Upto(L))
    <3> HIDE DEF Upto
    <3> QED BY <2>2, <2>3, <1>5, FS_Subset
  <2> QED BY <2>4, <1>6
<1> DEFINE f == IF Opener(d) THEN 0 ELSE 1
           g == IF Opener(e) THEN 0 ELSE 1
           a == Cardinality(Upto(K))
           b == Cardinality(Upto(L))
<1>8. Depth(d) = 2 * a + f /\ Depth(e) = 2 * b + g
  BY <1>1, <1>2 DEF Depth
<1>9. f \in {0, 1} /\ g \in {0, 1} /\ p = 2 * K + f /\ q = 2 * L + g
  BY <1>1, <1>2
<1>10. K = L => a = b
  OBVIOUS
<1>11. a \in Nat /\ b \in Nat /\ (K < L => a < b)
  BY <1>6, <1>7
<1> HIDE DEF f, g, a, b, Upto
<1> QED BY <1>4, <1>8, <1>9, <1>10, <1>11

\* The entry found is the first declaration of the innermost scope that has one.
LEMMA LookupFinds ==
  ASSUME Nested, \A i \in 1..Len(prog) : Placed(i), scopes \in Seq(ScopeType),
         NEW at, Mirror(at), NEW n \in Names
  PROVE  /\ Seen(n) = {} => Lookup(scopes, n).id = 0
         /\ Seen(n) # {} =>
              \E m \in Nat :
                /\ Lookup(scopes, n).id \in InScope(n, m)
                /\ \A e \in InScope(n, m) : Lookup(scopes, n).id <= e
                /\ \A d \in Seen(n) : \A q : Belongs(d, q) => q <= m
<1> DEFINE L == Len(at)
           has == {k \in 1..Len(scopes) : Present(scopes[k][n])}
<1>1. /\ at \in Seq(Nat) /\ L = Len(scopes) /\ L \in Nat
      /\ \A s, t \in 1..L : s < t => at[s] < at[t]
      /\ \A m \in Keys : \E s \in 1..L : m = at[s]
      /\ \A s \in 1..L : Holds(scopes[s][n].id, InScope(n, at[s]))
  BY DEF Mirror
<1>2. \A k \in 1..L : k \in has <=> InScope(n, at[k]) # {}
  <2> TAKE k \in 1..L
  <2>1. InScope(n, at[k]) \subseteq 1..Len(prog)
    BY DEF InScope, Seen
  <2>2. InScope(n, at[k]) # {} => scopes[k][n].id # 0
    <3>1. Holds(scopes[k][n].id, InScope(n, at[k]))
      BY <1>1
    <3>2. InScope(n, at[k]) # {} => scopes[k][n].id \in 1..Len(prog)
      BY <2>1, <3>1 DEF Holds
    <3>3. \A x \in 1..Len(prog) : x # 0
      OBVIOUS
    <3> QED BY <3>2, <3>3
  <2>3. InScope(n, at[k]) = {} => scopes[k][n].id = 0
    BY <1>1 DEF Holds
  <2> QED BY <1>1, <2>2, <2>3 DEF Present
<1>3. \A d \in Seen(n) : \A q : Belongs(d, q) => \E k \in has : q = at[k]
  <2> SUFFICES ASSUME NEW d \in Seen(n), NEW q, Belongs(d, q) PROVE \E k \in has : q = at[k]
    OBVIOUS
  <2>1. PICK K \in Open \cup {0} :
          /\ q = 2 * K + (IF Opener(d) THEN 0 ELSE 1)
          /\ Opener(d) => K # 0 /\ prog[K].op # "open"
    BY Ranked
  <2>2. Open \subseteq Nat
    BY DEF Open
  <2>3. q \in Keys
    <3>1. CASE Opener(d)
      <4>1. K \in Open /\ prog[K].op # "open" /\ q = 2 * K
        BY <3>1, <2>1, <2>2
      <4> QED BY <4>1 DEF Keys
    <3>2. CASE ~Opener(d) /\ K = 0
      BY <3>2, <2>1 DEF Keys
    <3>3. CASE ~Opener(d) /\ K \in Open
      BY <3>3, <2>1 DEF Keys
    <3> QED BY <3>1, <3>2, <3>3
  <2>4. PICK k \in 1..L : q = at[k]
    BY <1>1, <2>3
  <2>5. d \in InScope(n, at[k])
    BY <2>4 DEF InScope
  <2> QED BY <1>2, <2>4, <2>5
<1>4. has \in SUBSET (1..L)
  BY <1>1
<1>5. ASSUME Seen(n) = {} PROVE Lookup(scopes, n).id = 0
  <2>1. \A k \in 1..L : InScope(n, at[k]) = {}
    BY <1>5 DEF InScope
  <2>2. has = {}
    BY <2>1, <1>2, <1>4
  <2> QED BY <2>2, Absence DEF Lookup
<1>6. ASSUME Seen(n) # {}
      PROVE  \E m \in Nat :
                /\ Lookup(scopes, n).id \in InScope(n, m)
                /\ \A e \in InScope(n, m) : Lookup(scopes, n).id <= e
                /\ \A d \in Seen(n) : \A q : Belongs(d, q) => q <= m
  <2>1. PICK d \in Seen(n) : TRUE
    BY <1>6
  <2>2. PICK q : Belongs(d, q)
    BY Ranked
  <2>3. has # {}
    BY <1>3, <2>2
  <2>4. PICK top \in 1..L : top = Max(has) /\ top \in has /\ \A k \in has : k <= top
    <3> HIDE DEF has, L
    <3>1. Max(has) \in has /\ \A k \in has : k <= Max(has)
      BY <1>1, <1>4, <2>3, Greatest
    <3> QED BY <3>1, <1>4
  <2>5. Lookup(scopes, n) = scopes[top][n]
    BY <2>3, <2>4 DEF Lookup
  <2>6. InScope(n, at[top]) # {} /\ at[top] \in Nat
    <3>1. InScope(n, at[top]) # {}
      BY <2>4, <1>2
    <3>2. at[top] \in Nat
      BY <1>1
    <3> QED BY <3>1, <3>2
  <2>7. scopes[top][n].id \in InScope(n, at[top]) /\ \A e \in InScope(n, at[top]) : scopes[top][n].id <= e
    BY <2>4, <2>6, <1>1 DEF Holds
  <2>8. ASSUME NEW e \in Seen(n), NEW r, Belongs(e, r) PROVE r <= at[top]
    <3>1. PICK k \in has : r = at[k]
      BY <1>3, <2>8
    <3>2. k \in 1..L /\ k <= top /\ at[k] \in Nat
      BY <2>4, <1>1, <1>4
    <3>3. k < top => at[k] < at[top]
      BY <3>2, <1>1
    <3> QED BY <3>1, <3>2, <3>3, <2>6
  <2> QED BY <2>5, <2>6, <2>7, <2>8
<1> QED BY <1>5, <1>6

\* It is the one that lexical scoping gives.
LEMMA Resolves ==
  ASSUME Nested, \A i \in 1..Len(prog) : Placed(i), scopes \in Seq(ScopeType),
         NEW at, Mirror(at), NEW n \in Names, NEW i \in 1..Len(prog), i = Len(prog), Enclosing(i) = Open
  PROVE  /\ Lookup(scopes, n).id = Lexical(n, i)
         /\ Lookup(scopes, n).id # 0 => Lookup(scopes, n).id \in Visible(n, i)
<1> DEFINE id == Lookup(scopes, n).id
           deep == {d \in Seen(n) : \A e \in Seen(n) : Depth(e) <= Depth(d)}
<1>1. Visible(n, i) = Seen(n)
  BY DEF Visible, Seen
<1>2. Lexical(n, i) = IF Seen(n) = {} THEN 0 ELSE Min(deep)
  BY <1>1 DEF Lexical
<1>3. CASE Seen(n) = {}
  <2>1. Lookup(scopes, n).id = 0
    BY <1>3, LookupFinds
  <2> QED BY <2>1, <1>2, <1>3
<1>4. CASE Seen(n) # {}
  <2>1. PICK m \in Nat :
                /\ id \in InScope(n, m)
                /\ \A e \in InScope(n, m) : id <= e
                /\ \A d \in Seen(n) : \A q : Belongs(d, q) => q <= m
    BY <1>4, LookupFinds
  <2> HIDE DEF id
  <2>2. \A d \in Seen(n) : \E q : Belongs(d, q)
    BY Ranked
  <2>3. id \in Seen(n) /\ Belongs(id, m) /\ id \in Nat
    BY <2>1 DEF InScope, Seen
  <2>4. ASSUME NEW d \in InScope(n, m) PROVE d \in deep
    <3>1. d \in Seen(n) /\ Belongs(d, m)
      BY DEF InScope
    <3>2. ASSUME NEW e \in Seen(n) PROVE Depth(e) <= Depth(d)
      <4>1. PICK q : Belongs(e, q)
        BY <2>2
      <4>2. q <= m
        BY <4>1, <2>1
      <4>3. /\ q \in Nat /\ Depth(d) \in Nat /\ Depth(e) \in Nat
            /\ q < m => Depth(e) < Depth(d)
            /\ q = m => Depth(e) = Depth(d)
        BY <3>1, <4>1, Deeper
      <4> QED BY <4>2, <4>3
    <3> QED BY <3>1, <3>2
  <2>5. ASSUME NEW d \in deep PROVE d \in InScope(n, m)
    <3>1. PICK q : Belongs(d, q)
      BY <2>2
    <3>2. q <= m /\ Depth(id) <= Depth(d)
      BY <3>1, <2>1, <2>3
    <3>3. /\ q \in Nat /\ Depth(d) \in Nat /\ Depth(id) \in Nat
          /\ q < m => Depth(d) < Depth(id)
      BY <2>3, <3>1, Deeper
    <3>4. q = m
      BY <3>2, <3>3
    <3> QED BY <3>1, <3>4 DEF InScope
  <2>6. deep = InScope(n, m)
    BY <2>4, <2>5
  <2> HIDE DEF deep
  <2>7. InScope(n, m) \subseteq Nat
    BY DEF InScope, Seen
  <2>8. \A x \in InScope(n, m) : (\A y \in InScope(n, m) : x <= y) => x = id
    BY <2>1, <2>3, <2>7
  <2>9. Min(InScope(n, m)) = id
    BY <2>1, <2>8 DEF Min
  <2> QED BY <1>1, <1>2, <1>4, <2>3, <2>6, <2>9 DEF id
<1> QED BY <1>3, <1>4

Ready ==
  /\ Nested /\ \A i \in 1..Len(prog) : Placed(i)
  /\ scopes \in Seq(ScopeType) /\ \E at : Mirror(at)

\* A name behind the last token is the one that lookup finds.
Resolved ==
  \A i \in 1..Len(prog) : \A n \in Names :
    i = Len(prog) /\ Enclosing(i) = Open =>
      /\ Lookup(scopes, n).id = Lexical(n, i)
      /\ Lookup(scopes, n).id # 0 => Lookup(scopes, n).id \in Visible(n, i)

\* In a state of the validator, for any name.
LEMMA ReadyResolves == Ready => Resolved
BY Resolves DEF Ready, Resolved

(* The size of the stack. *)

Wide == {k \in 1..Len(nesting) : prog[nesting[k]].op # "open"}

Depths == Len(scopes) = 1 + Len(nesting) + Cardinality(Wide)

\* The constructs with two scopes can be counted.
LEMMA WideType ==
  ASSUME Nested
  PROVE  IsFiniteSet(Wide) /\ Cardinality(Wide) \in Nat /\ Len(nesting) \in Nat
<1>1. Len(nesting) \in Nat
  BY DEF Nested
<1>2. IsFiniteSet(1..Len(nesting))
  BY <1>1, FS_Interval
<1>3. IsFiniteSet(Wide)
  BY <1>2, FS_Subset DEF Wide
<1> QED BY <1>1, <1>3, FS_CardinalityType

\* The size of the stack, behind a token that leaves it.
LEMMA DepthsSame ==
  ASSUME Nested, Depths, NEW tok \in Token, prog' = Append(prog, tok), nesting' = nesting,
         Len(scopes') = Len(scopes)
  PROVE  Depths'
<1>1. \A k \in 1..Len(nesting) : prog'[nesting[k]] = prog[nesting[k]]
  BY AppendFacts DEF Nested
<1>2. Wide' = Wide
  BY <1>1 DEF Wide
<1> QED BY <1>2 DEF Depths

\* Behind a token that opens something: a block has one scope, the others have two.
LEMMA DepthsMore ==
  ASSUME Nested, Depths, NEW tok \in Token, prog' = Append(prog, tok),
         nesting' = Append(nesting, Len(prog) + 1),
         Len(scopes') = Len(scopes) + (IF tok.op = "open" THEN 1 ELSE 2)
  PROVE  Depths'
<1> DEFINE n == Len(nesting)
<1>1. /\ n \in Nat /\ Len(nesting') = n + 1 /\ nesting'[n + 1] = Len(prog) + 1
      /\ \A k \in 1..n : nesting'[k] = nesting[k]
  BY WideType DEF Nested
<1>2. /\ prog'[Len(prog) + 1] = tok
      /\ \A k \in 1..n : prog'[nesting[k]] = prog[nesting[k]]
  BY AppendFacts DEF Nested
<1> HIDE DEF n
<1>3. \A k \in 1..(n + 1) : k \in 1..n \/ k = n + 1
  BY <1>1
<1>4. 1..n \subseteq 1..(n + 1) /\ n + 1 \in 1..(n + 1) /\ n + 1 \notin 1..n
  BY <1>1
<1>5. Wide' = {k \in 1..(n + 1) : prog'[nesting'[k]].op # "open"} /\ Wide = {k \in 1..n : prog[nesting[k]].op # "open"}
  BY <1>1 DEF Wide, n
<1>6. Wide' = Wide \cup (IF tok.op = "open" THEN {} ELSE {n + 1})
  <2>1. \A k \in 1..n : prog'[nesting'[k]].op = prog[nesting[k]].op
    BY <1>1, <1>2
  <2>2. prog'[nesting'[n + 1]].op = tok.op
    BY <1>1, <1>2
  <2>3. \A k \in 1..n : k \in Wide' <=> k \in Wide
    BY <2>1, <1>4, <1>5
  <2>4. n + 1 \in Wide' <=> tok.op # "open"
    BY <2>2, <1>4, <1>5
  <2>5. Wide' \subseteq 1..(n + 1) /\ Wide \subseteq 1..n
    BY <1>5
  <2> QED BY <2>3, <2>4, <2>5, <1>3
<1>7. n + 1 \notin Wide
  BY <1>4, <1>5
<1>8. Cardinality(Wide') = Cardinality(Wide) + (IF tok.op = "open" THEN 0 ELSE 1)
  <2>1. IsFiniteSet(Wide) /\ Cardinality(Wide) \in Nat
    BY WideType
  <2>2. Cardinality(Wide \cup {n + 1}) = Cardinality(Wide) + 1
    BY <1>7, <2>1, FS_AddElement
  <2>3. CASE tok.op = "open"
    <3>1. Wide' = Wide
      BY <2>3, <1>6
    <3> QED BY <2>1, <2>3, <3>1
  <2>4. CASE tok.op # "open"
    <3>1. Wide' = Wide \cup {n + 1}
      BY <2>4, <1>6
    <3> QED BY <2>2, <2>4, <3>1
  <2> QED BY <2>3, <2>4
<1>9. Cardinality(Wide) \in Nat
  BY WideType
<1> QED BY <1>1, <1>8, <1>9 DEF Depths, n

\* Behind a close.
LEMMA DepthsLess ==
  ASSUME Nested, Depths, NEW tok \in Token, prog' = Append(prog, tok),
         nesting # <<>>, nesting' = Front(nesting),
         Len(scopes') = Len(scopes) - (IF prog[nesting[Len(nesting)]].op = "open" THEN 1 ELSE 2)
  PROVE  Depths'
<1> DEFINE n == Len(nesting)
<1>1. /\ n \in Nat \ {0} /\ Len(nesting') = n - 1
      /\ \A k \in 1..(n - 1) : nesting'[k] = nesting[k]
  BY FrontFacts DEF Nested
<1>2. \A k \in 1..n : prog'[nesting[k]] = prog[nesting[k]]
  BY AppendFacts DEF Nested
<1> HIDE DEF n
<1>3. \A k \in 1..n : k \in 1..(n - 1) \/ k = n
  BY <1>1
<1>4. 1..(n - 1) \subseteq 1..n /\ n \in 1..n /\ n \notin 1..(n - 1)
  BY <1>1
<1>5. Wide' = {k \in 1..(n - 1) : prog'[nesting'[k]].op # "open"} /\ Wide = {k \in 1..n : prog[nesting[k]].op # "open"}
  BY <1>1 DEF Wide, n
<1>6. Wide' = Wide \ {n}
  <2>1. \A k \in 1..(n - 1) : prog'[nesting'[k]].op = prog[nesting[k]].op
    BY <1>1, <1>2, <1>4
  <2>2. \A k \in 1..(n - 1) : k \in Wide' <=> k \in Wide
    BY <2>1, <1>4, <1>5
  <2>3. Wide' \subseteq 1..(n - 1) /\ Wide \subseteq 1..n
    BY <1>5
  <2> QED BY <2>2, <2>3, <1>3, <1>4
<1>7. n \in Wide <=> prog[nesting[n]].op # "open"
  BY <1>4, <1>5
<1>8. Cardinality(Wide') = Cardinality(Wide) - (IF prog[nesting[n]].op = "open" THEN 0 ELSE 1)
  <2>1. IsFiniteSet(Wide) /\ Cardinality(Wide) \in Nat
    BY WideType
  <2>2. n \in Wide => Cardinality(Wide \ {n}) = Cardinality(Wide) - 1
    BY <2>1, FS_RemoveElement
  <2>3. n \notin Wide => Wide \ {n} = Wide
    OBVIOUS
  <2>4. CASE n \in Wide
    <3>1. Cardinality(Wide') = Cardinality(Wide) - 1
      BY <2>2, <2>4, <1>6
    <3> QED BY <2>4, <3>1, <1>7
  <2>5. CASE n \notin Wide
    <3>1. Wide' = Wide
      BY <2>3, <2>5, <1>6
    <3>2. prog[nesting[n]].op = "open"
      BY <2>5, <1>7
    <3> QED BY <2>1, <3>1, <3>2
  <2> QED BY <2>4, <2>5
<1>9. Cardinality(Wide) \in Nat
  BY WideType
<1> QED BY <1>1, <1>8, <1>9 DEF Depths, n

(* The validator keeps what it has promised. *)

Valid ==
  /\ Ready /\ Depths
  /\ bound \in Seq(Nat) /\ Len(bound) = Len(prog)
  /\ LexicalBinding
  /\ \A i \in 1..Len(prog) : IF IsUse(i) THEN bound[i] \in Visible(UsedName(i), i) ELSE bound[i] = 0

\* What is to be shown of an accepted token.
LEMMA AcceptValid ==
  ASSUME Valid, NEW tok \in Token, Moves(tok), prog' = Append(prog, tok),
         NEW id \in Nat, bound' = Append(bound, id),
         scopes' \in Seq(ScopeType), \E at : Mirror(at)', Depths',
         NEW h \in Nat, h = Len(prog) + 1,
         IF IsUse(h)' THEN UsedName(h)' \in Names /\ id # 0 /\ id = Lookup(scopes', UsedName(h)').id
                      ELSE id = 0
  PROVE  Valid'
<1>1. /\ Len(prog') = h /\ Len(prog) \in Nat /\ prog'[h] = tok
      /\ prog \in Seq(Token) /\ \A i \in 1..Len(prog) : prog'[i] = prog[i]
  BY AppendFacts DEF Valid, Ready, Nested
<1>2. Nested' /\ \A i \in 1..Len(prog') : Placed(i)'
  BY NestedStep, PlacedStep DEF Valid, Ready
<1>3. Ready'
  BY <1>2 DEF Ready
<1>4. /\ bound' \in Seq(Nat) /\ Len(bound') = Len(prog') /\ bound'[h] = id
      /\ \A i \in 1..Len(prog) : bound'[i] = bound[i]
  <2>1. bound \in Seq(Nat) /\ Len(bound) = Len(prog)
    BY DEF Valid
  <2> QED BY <2>1, <1>1, AppendFacts
<1>5. ASSUME NEW i \in 1..Len(prog), IsUse(i)'
      PROVE  bound'[i] # 0 /\ bound'[i] = Lexical(UsedName(i), i)' /\ bound'[i] \in Visible(UsedName(i), i)'
  <2>1. IsUse(i) /\ UsedName(i)' = UsedName(i) /\ bound'[i] = bound[i]
    BY <1>1, <1>4, <1>5, Past
  <2>2. bound[i] # 0 /\ bound[i] = Lexical(UsedName(i), i) /\ bound[i] \in Visible(UsedName(i), i)
    BY <2>1 DEF Valid, LexicalBinding
  <2>3. UsedName(i) \in Names
    <3>1. prog[i] \in Token
      BY <1>1
    <3>2. prog[i] \in For \/ prog[i] \in Use
      BY <2>1, <3>1, TokenOps DEF IsUse
    <3> QED BY <3>2 DEF UsedName, For, Use
  <2>4. PICK n \in Names : n = UsedName(i) /\ n = UsedName(i)'
    BY <2>1, <2>3
  <2>5. Lexical(n, i)' = Lexical(n, i) /\ Visible(n, i)' = Visible(n, i)
    BY <1>1, PastLexical
  <2> QED BY <2>1, <2>2, <2>4, <2>5
<1>6. ASSUME IsUse(h)'
      PROVE  bound'[h] # 0 /\ bound'[h] = Lexical(UsedName(h), h)' /\ bound'[h] \in Visible(UsedName(h), h)'
  <2>1. PICK n \in Names : n = UsedName(h)' /\ id # 0 /\ id = Lookup(scopes', n).id
    BY <1>6
  <2>2. Resolved'
    BY <1>3, ReadyResolves, PTL
  <2>3. h \in 1..Len(prog') /\ h = Len(prog')
    BY <1>1
  <2>4. Enclosing(h)' = Open'
    <3>1. /\ Enclosing(h)' = Open \cup (IF OpensAt(tok) THEN {h} ELSE {})
          /\ Open' = {k \in Open : tok # [op |-> "close", of |-> k]}
                         \cup (IF OpensAt(tok) THEN {h} ELSE {})
      BY <1>1, Later
    <3>2. \A k \in Open : tok # [op |-> "close", of |-> k]
      BY <1>1, <1>6 DEF IsUse
    <3> QED BY <3>1, <3>2
  <2>5. /\ Lookup(scopes', n).id = Lexical(n, h)'
        /\ Lookup(scopes', n).id # 0 => Lookup(scopes', n).id \in Visible(n, h)'
    BY <2>1, <2>2, <2>3, <2>4 DEF Resolved
  <2> QED BY <2>1, <2>5, <1>4
<1>7. \A i \in 1..Len(prog') : i \in 1..Len(prog) \/ i = h
  BY <1>1
<1>8. LexicalBinding'
  BY <1>5, <1>6, <1>7 DEF LexicalBinding
<1>9. \A i \in 1..Len(prog) : ~IsUse(i)' => bound'[i] = 0
  BY <1>1, <1>4, Past DEF Valid
<1>10. \A i \in 1..Len(prog') :
         IF IsUse(i)' THEN bound'[i] \in Visible(UsedName(i), i)' ELSE bound'[i] = 0
  BY <1>4, <1>5, <1>6, <1>7, <1>9
<1> QED BY <1>3, <1>4, <1>8, <1>10 DEF Valid

\* What Lookup returns is an entry.
LEMMA LookupType ==
  ASSUME NEW st \in Seq(ScopeType), NEW n \in Names
  PROVE  Lookup(st, n) \in Entry /\ Lookup(st, n).id \in Nat
<1> DEFINE has == {k \in 1..Len(st) : Present(st[k][n])}
<1>1. has # {} => Max(has) \in 1..Len(st)
  <2>1. has \in SUBSET (1..Len(st)) /\ Len(st) \in Nat
    OBVIOUS
  <2> HIDE DEF has
  <2> QED BY <2>1, Greatest
<1>2. \A k \in 1..Len(st) : st[k][n] \in Entry
  BY DEF ScopeType
<1>3. Lookup(st, n) = IF has = {} THEN Absent ELSE st[Max(has)][n]
  BY DEF Lookup
<1> HIDE DEF has
<1>4. Lookup(st, n) \in Entry
  BY <1>1, <1>2, <1>3, Absence
<1> QED BY <1>4 DEF Entry

\* Nothing here depends on the variables of the lowering.
LEMMA StaysValid ==
  ASSUME Valid, UNCHANGED srcVars
  PROVE  Valid'
<1>1. prog' = prog /\ nesting' = nesting /\ scopes' = scopes /\ bound' = bound
  BY DEF srcVars
<1>2. Open' = Open /\ \A i : Enclosing(i)' = Enclosing(i) /\ Opener(i)' = Opener(i) /\ Region(i)' = Region(i)
  BY <1>1 DEF Open, Opener, Enclosing, Encloses, Region
<1>3. /\ \A i : \A n : Declares(i, n)' = Declares(i, n)
      /\ \A i : IsUse(i)' = IsUse(i) /\ UsedName(i)' = UsedName(i) /\ Depth(i)' = Depth(i)
  BY <1>1, <1>2 DEF Declares, Stores, IsUse, UsedName, Depth
<1>4. Nested' /\ \A i \in 1..Len(prog) : Placed(i)'
  <2>1. Nested'
    BY <1>1, <1>2 DEF Valid, Ready, Nested
  <2>2. ASSUME NEW i \in 1..Len(prog) PROVE Placed(i)'
    <3>1. Placed(i)
      BY DEF Valid, Ready
    <3> QED BY <3>1, <1>1, <1>2 DEF Placed
  <2> QED BY <2>1, <2>2
<1>5. Keys' = Keys /\ \A n, m : InScope(n, m)' = InScope(n, m)
  BY <1>1, <1>2, <1>3 DEF Keys, InScope, Seen, Belongs
<1>6. \A at : Mirror(at)' = Mirror(at)
  BY <1>1, <1>5 DEF Mirror
<1>7. Ready' /\ Depths'
  BY <1>1, <1>4, <1>6 DEF Valid, Ready, Depths, Wide
<1>8. \A n, i : Lexical(n, i)' = Lexical(n, i) /\ Visible(n, i)' = Visible(n, i)
  BY <1>2, <1>3 DEF Lexical, Visible
<1>9. LexicalBinding'
  BY <1>1, <1>3, <1>8 DEF Valid, LexicalBinding
<1>10. \A i \in 1..Len(prog') :
         IF IsUse(i)' THEN bound'[i] \in Visible(UsedName(i), i)' ELSE bound'[i] = 0
  BY <1>1, <1>3, <1>8 DEF Valid
<1> QED BY <1>1, <1>7, <1>9, <1>10 DEF Valid

\* What Accept leaves to be shown.
LEMMA ValidFacts ==
  ASSUME Valid
  PROVE  /\ Nested /\ Depths /\ scopes \in Seq(ScopeType) /\ Len(scopes) \in Nat \ {0}
         /\ prog \in Seq(Token) /\ Len(prog) \in Nat /\ Len(nesting) \in Nat
         /\ \E at : Mirror(at)
<1>1. /\ Nested /\ Depths /\ scopes \in Seq(ScopeType) /\ \E at : Mirror(at)
  BY DEF Valid, Ready
<1>2. Len(scopes) \in Nat \ {0}
  BY <1>1, TopKey DEF Mirror
<1> QED BY <1>1, <1>2 DEF Nested

\* A declaration that is accepted, or refused as a duplicate.
LEMMA DeclareValid ==
  ASSUME Valid, NEW tok \in Decl \cup Signature, Declare(tok)
  PROVE  Valid'
<1>1. PICK h \in Nat : h = Len(prog) + 1
  BY ValidFacts
<1>2. CASE Reject
  BY <1>2, StaysValid DEF Reject
<1>3. CASE Accept(tok, Declared(scopes, tok.name, tok.type, tok.mut), 0) /\ UNCHANGED nesting
  <2>1. PICK at : Mirror(at)
    BY ValidFacts
  <2> DEFINE e == [id |-> h, type |-> tok.type, mut |-> tok.mut]
  <2>2. tok \in Token /\ tok.name \in Names /\ e \in Entry /\ e.id = h
    BY <1>1 DEF Token, Decl, Signature, Entry
  <2>3. /\ prog' = Append(prog, tok) /\ scopes' = Insert(scopes, tok.name, e)
        /\ bound' = Append(bound, 0) /\ nesting' = nesting
    BY <1>1, <1>3 DEF Accept, Declared, Here
  <2> HIDE DEF e
  <2>4. tok.op \in {"global", "local", "signature"}
    BY DEF Decl, Signature
  <2>5. Moves(tok)
    BY <2>3, <2>4 DEF Moves, OpensAt, Declare
  <2>6. Mirror(at)' /\ scopes' \in Seq(ScopeType)
    BY <1>1, <2>1, <2>2, <2>3, <2>5, ValidFacts, MirrorDeclare
  <2>7. Len(scopes') = Len(scopes)
    BY <2>2, <2>3, ValidFacts, Inserted
  <2>8. Depths'
    BY <2>2, <2>3, <2>7, ValidFacts, DepthsSame
  <2>9. ~IsUse(h)'
    <3>1. prog'[h] = tok
      BY <1>1, <2>2, <2>3, ValidFacts, AppendFacts
    <3> QED BY <2>4, <3>1 DEF IsUse
  <2> QED BY <1>1, <2>2, <2>3, <2>5, <2>6, <2>8, <2>9, AcceptValid
<1> QED BY <1>2, <1>3 DEF Declare

\* The beginning of a block.
LEMMA BlockValid ==
  ASSUME Valid, NEW tok \in Block, BeginBlock(tok)
  PROVE  Valid'
<1>1. PICK h \in Nat : h = Len(prog) + 1
  BY ValidFacts
<1>2. PICK at : Mirror(at)
  BY ValidFacts
<1>3. tok \in Token /\ tok.op = "open"
  BY DEF Token, Block
<1>4. /\ prog' = Append(prog, tok) /\ scopes' = PushScope(scopes)
      /\ bound' = Append(bound, 0) /\ nesting' = Append(nesting, Len(prog) + 1)
  BY DEF BeginBlock, Accept, Here
<1>5. Moves(tok)
  BY <1>3, <1>4 DEF Moves, OpensAt, BeginBlock
<1>6. (\E new : Mirror(new)') /\ scopes' \in Seq(ScopeType)
  BY <1>2, <1>3, <1>4, <1>5, ValidFacts, MirrorBlock
<1>7. Len(scopes') = Len(scopes) + 1
  BY <1>4, ValidFacts, Pushed
<1>8. Depths'
  BY <1>3, <1>4, <1>7, ValidFacts, DepthsMore
<1>9. ~IsUse(h)'
  <2>1. prog'[h] = tok
    BY <1>1, <1>3, <1>4, ValidFacts, AppendFacts
  <2> QED BY <1>3, <2>1 DEF IsUse
<1> QED BY <1>1, <1>3, <1>4, <1>5, <1>6, <1>8, <1>9, AcceptValid

\* A name that is read or assigned.
LEMMA UseValid ==
  ASSUME Valid, NEW tok \in Use, ReadName(tok) \/ AssignName(tok)
  PROVE  Valid'
<1>1. PICK h \in Nat : h = Len(prog) + 1
  BY ValidFacts
<1> DEFINE e == Lookup(scopes, tok.name)
<1>2. CASE Reject
  BY <1>2, StaysValid DEF Reject
<1>3. CASE Present(e) /\ Accept(tok, scopes, e.id) /\ UNCHANGED nesting
  <2>1. PICK at : Mirror(at)
    BY ValidFacts
  <2>2. tok \in Token /\ tok.name \in Names /\ tok.op \in {"use", "assign"}
    BY DEF Token, Use
  <2>3. /\ prog' = Append(prog, tok) /\ scopes' = scopes
        /\ bound' = Append(bound, e.id) /\ nesting' = nesting /\ e.id # 0
    BY <1>3 DEF Accept, Present
  <2>4. Moves(tok)
    BY <2>2, <2>3 DEF Moves, OpensAt, ReadName, AssignName
  <2>5. Mirror(at)' /\ scopes' \in Seq(ScopeType)
    BY <2>1, <2>2, <2>3, <2>4, ValidFacts, MirrorUse
  <2>6. Depths'
    BY <2>2, <2>3, ValidFacts, DepthsSame
  <2>7. IsUse(h)' /\ UsedName(h)' \in Names /\ e.id # 0 /\ e.id = Lookup(scopes', UsedName(h)').id
    <3>1. prog'[h] = tok
      BY <1>1, <2>2, <2>3, ValidFacts, AppendFacts
    <3>2. UsedName(h)' = tok.name
      BY <2>2, <3>1 DEF UsedName
    <3>3. IsUse(h)'
      BY <2>2, <3>1 DEF IsUse
    <3> QED BY <2>2, <2>3, <3>2, <3>3
  <2>8. e.id \in Nat
    BY <2>2, ValidFacts, LookupType
  <2> HIDE DEF e
  <2> QED BY <1>1, <2>2, <2>3, <2>4, <2>5, <2>6, <2>7, <2>8, AcceptValid
<1> QED BY <1>2, <1>3 DEF ReadName, AssignName

\* The scope of a parameter or of a loop variable, before that of the body.
LEMMA MiddleDeclared ==
  ASSUME Valid, NEW n \in Names, NEW ty \in Types, NEW m \in BOOLEAN,
         NEW middle, middle = Declared(PushScope(scopes), n, ty, m)
  PROVE  /\ middle \in Seq(ScopeType) /\ Len(middle) = Len(scopes) + 1
         /\ \A s \in 1..Len(scopes) : \A x \in Names : middle[s][x].id = scopes[s][x].id
         /\ \A x \in Names : middle[Len(middle)][x].id = IF x = n THEN Len(prog) + 1 ELSE 0
<1> DEFINE e == [id |-> Here, type |-> ty, mut |-> m]
           st == PushScope(scopes)
           L == Len(scopes)
<1>1. e \in Entry /\ e.id = Len(prog) + 1
  <2>1. Here \in Nat /\ Here = Len(prog) + 1
    BY ValidFacts DEF Here
  <2> QED BY <2>1 DEF Entry
<1>2. /\ st \in Seq(ScopeType) /\ Len(st) = L + 1 /\ L \in Nat
      /\ \A s \in 1..L : st[s] = scopes[s]
      /\ \A x \in Names : st[L + 1][x].id = 0
  BY ValidFacts, Pushed
<1>3. middle = Insert(st, n, e)
  BY DEF Declared
<1> HIDE DEF e, st, L
<1>4. /\ middle \in Seq(ScopeType) /\ Len(middle) = Len(st)
      /\ \A s \in 1..Len(st) : \A x \in Names :
           middle[s][x].id = IF s = Len(st) /\ x = n /\ st[s][x].id = 0 THEN e.id ELSE st[s][x].id
  <2>1. Len(st) # 0
    BY <1>2
  <2> QED BY <1>1, <1>2, <1>3, <2>1, Inserted
<1>5. /\ \A s \in 1..L : s \in 1..Len(st) /\ s # Len(st)
      /\ L + 1 \in 1..Len(st)
  BY <1>2
<1>6. \A s \in 1..L : \A x \in Names : middle[s][x].id = scopes[s][x].id
  BY <1>2, <1>4, <1>5
<1>7. \A x \in Names : middle[L + 1][x].id = IF x = n THEN Len(prog) + 1 ELSE 0
  <2> TAKE x \in Names
  <2>1. middle[L + 1][x].id = IF x = n /\ st[L + 1][x].id = 0 THEN e.id ELSE st[L + 1][x].id
    BY <1>2, <1>4, <1>5
  <2> QED BY <2>1, <1>1, <1>2
<1> QED BY <1>2, <1>4, <1>6, <1>7 DEF L

\* A function or a loop, its name and the lookup of its increment left open.
LEMMA ConstructValid ==
  ASSUME Valid, NEW tok \in Token, tok.op \in {"function", "for"}, NEW h \in Nat, h = Len(prog) + 1,
         tok.op = "function" <=> nesting = <<>>,
         NEW middle \in Seq(ScopeType), Len(middle) = Len(scopes) + 1,
         \A s \in 1..Len(scopes) : \A x \in Names : middle[s][x].id = scopes[s][x].id,
         \A x \in Names : middle[Len(middle)][x].id = IF Declares(h, x)' THEN h ELSE 0,
         NEW id \in Nat, Accept(tok, PushScope(middle), id), nesting' = Append(nesting, h),
         IF IsUse(h)' THEN UsedName(h)' \in Names /\ id # 0 /\ id = Lookup(scopes', UsedName(h)').id
                      ELSE id = 0
  PROVE  Valid'
<1>1. prog' = Append(prog, tok) /\ scopes' = PushScope(middle) /\ bound' = Append(bound, id)
  BY DEF Accept
<1>2. Moves(tok) /\ OpensAt(tok)
  BY DEF Moves, OpensAt
<1>3. PICK at : Mirror(at)
  BY ValidFacts
<1>4. (\E new : Mirror(new)') /\ scopes' \in Seq(ScopeType)
  BY <1>1, <1>2, <1>3, ValidFacts, MirrorConstruct
<1>5. Len(scopes') = Len(scopes) + 2
  <2>1. Len(scopes') = Len(middle) + 1
    BY <1>1, Pushed
  <2> QED BY <2>1, ValidFacts
<1>6. Depths'
  BY <1>1, <1>5, ValidFacts, DepthsMore
<1> QED BY <1>1, <1>2, <1>4, <1>6, AcceptValid

\* The beginning of a function.
LEMMA FunctionValid ==
  ASSUME Valid, NEW tok \in Function, BeginFunction(tok)
  PROVE  Valid'
<1>1. PICK h \in Nat : h = Len(prog) + 1
  BY ValidFacts
<1> DEFINE outer == PushScope(scopes)
           middle == IF tok.params = <<>> THEN outer
                     ELSE Declared(outer, tok.params.name, tok.params.type, FALSE)
<1>2. tok \in Token /\ tok.op = "function"
  BY DEF Token, Function
<1>3. Accept(tok, PushScope(middle), 0) /\ nesting = <<>> /\ nesting' = Append(nesting, h)
  <2>1. Accept(tok, PushScope(middle), 0) /\ nesting = <<>> /\ nesting' = <<Here>>
    BY DEF BeginFunction
  <2> HIDE DEF middle
  <2>2. <<h>> = Append(<<>>, h)
    OBVIOUS
  <2> QED BY <2>1, <2>2, <1>1 DEF Here
<1>4. prog'[h] = tok
  BY <1>1, <1>2, <1>3, ValidFacts, AppendFacts DEF Accept
<1>5. ~IsUse(h)' /\ \A x \in Names : Declares(h, x)' <=> tok.params # <<>> /\ tok.params.name = x
  BY <1>2, <1>4 DEF IsUse, Declares, Stores
<1>6. /\ middle \in Seq(ScopeType) /\ Len(middle) = Len(scopes) + 1
      /\ \A s \in 1..Len(scopes) : \A x \in Names : middle[s][x].id = scopes[s][x].id
      /\ \A x \in Names : middle[Len(middle)][x].id = IF Declares(h, x)' THEN h ELSE 0
  <2>1. CASE tok.params = <<>>
    <3>1. middle = outer
      BY <2>1
    <3> HIDE DEF middle
    <3> QED BY <3>1, <2>1, <1>5, ValidFacts, Pushed
  <2>2. CASE tok.params # <<>>
    <3>1. tok.params.name \in Names /\ tok.params.type \in Types
      BY <2>2 DEF Function
    <3>2. PICK n \in Names, ty \in Types : n = tok.params.name /\ ty = tok.params.type
      BY <3>1
    <3>3. PICK m \in BOOLEAN : m = FALSE
      OBVIOUS
    <3>4. middle = Declared(PushScope(scopes), n, ty, m)
      BY <2>2, <3>2, <3>3
    <3> HIDE DEF middle
    <3>5. /\ middle \in Seq(ScopeType) /\ Len(middle) = Len(scopes) + 1
          /\ \A s \in 1..Len(scopes) : \A x \in Names : middle[s][x].id = scopes[s][x].id
          /\ \A x \in Names : middle[Len(middle)][x].id = IF x = n THEN Len(prog) + 1 ELSE 0
      BY <3>4, MiddleDeclared
    <3> QED BY <3>2, <3>5, <2>2, <1>1, <1>5
  <2> QED BY <2>1, <2>2
<1> HIDE DEF middle
<1> QED BY <1>1, <1>2, <1>3, <1>5, <1>6, ConstructValid

\* An empty scope hides nothing.
LEMMA LookupPushed ==
  ASSUME NEW st \in Seq(ScopeType), NEW n \in Names
  PROVE  Lookup(PushScope(st), n) = Lookup(st, n)
<1> DEFINE L == Len(st)
           up == PushScope(st)
           has == {k \in 1..L : Present(st[k][n])}
<1>1. /\ up \in Seq(ScopeType) /\ Len(up) = L + 1 /\ L \in Nat
      /\ \A s \in 1..L : up[s] = st[s]
      /\ up[L + 1][n].id = 0
  BY Pushed
<1> HIDE DEF up
<1>2. {k \in 1..Len(up) : Present(up[k][n])} = has
  <2>1. \A k \in 1..Len(up) : k \in 1..L \/ k = L + 1
    BY <1>1
  <2>2. ~Present(up[L + 1][n]) /\ 1..L \subseteq 1..Len(up)
    BY <1>1 DEF Present
  <2>3. \A k \in 1..L : Present(up[k][n]) <=> Present(st[k][n])
    BY <1>1
  <2> QED BY <2>1, <2>2, <2>3
<1>3. has # {} => up[Max(has)] = st[Max(has)]
  <2>1. has \in SUBSET (1..L)
    OBVIOUS
  <2> HIDE DEF has, L
  <2>2. has # {} => Max(has) \in 1..L
    BY <1>1, <2>1, Greatest
  <2> QED BY <2>2, <1>1
<1>4. Lookup(up, n) = IF has = {} THEN Absent ELSE up[Max(has)][n]
  BY <1>2 DEF Lookup
<1>5. Lookup(st, n) = IF has = {} THEN Absent ELSE st[Max(has)][n]
  BY DEF Lookup
<1> HIDE DEF has
<1> QED BY <1>3, <1>4, <1>5 DEF up

\* The beginning of a loop, with the lookup of its increment.
LEMMA ForValid ==
  ASSUME Valid, NEW tok \in For, BeginFor(tok)
  PROVE  Valid'
<1>1. PICK h \in Nat : h = Len(prog) + 1
  BY ValidFacts
<1> DEFINE middle == Declared(PushScope(scopes), tok.name, tok.type, tok.mut)
           e == Lookup(middle, tok.inc)
<1>2. /\ tok \in Token /\ tok.op = "for" /\ tok.name \in Names /\ tok.inc \in Names
      /\ tok.type \in Types /\ tok.mut \in BOOLEAN
  BY DEF Token, For
<1>3. CASE Reject
  BY <1>3, StaysValid DEF Reject
<1>4. CASE /\ Present(e)
           /\ Accept(tok, PushScope(middle), e.id)
           /\ nesting' = Append(nesting, Here)
  <2>1. prog'[h] = tok /\ scopes' = PushScope(middle)
    BY <1>1, <1>2, <1>4, ValidFacts, AppendFacts DEF Accept
  <2>2. IsUse(h)' /\ UsedName(h)' = tok.inc /\ \A x \in Names : Declares(h, x)' <=> x = tok.name
    BY <1>2, <2>1 DEF IsUse, UsedName, Declares, Stores
  <2>3. /\ middle \in Seq(ScopeType) /\ Len(middle) = Len(scopes) + 1
        /\ \A s \in 1..Len(scopes) : \A x \in Names : middle[s][x].id = scopes[s][x].id
        /\ \A x \in Names : middle[Len(middle)][x].id = IF x = tok.name THEN Len(prog) + 1 ELSE 0
    BY <1>2, MiddleDeclared
  <2> HIDE DEF middle
  <2>4. \A x \in Names : middle[Len(middle)][x].id = IF Declares(h, x)' THEN h ELSE 0
    BY <1>1, <2>2, <2>3
  <2>5. e.id \in Nat /\ e.id # 0 /\ e.id = Lookup(scopes', tok.inc).id
    BY <1>2, <1>4, <2>1, <2>3, LookupType, LookupPushed DEF Present
  <2>6. nesting # <<>> /\ nesting' = Append(nesting, h)
    BY <1>1, <1>4 DEF BeginFor, Here
  <2>7. PICK id \in Nat : id = e.id
    BY <2>5
  <2> HIDE DEF e
  <2>8. /\ IF IsUse(h)' THEN UsedName(h)' \in Names /\ id # 0 /\ id = Lookup(scopes', UsedName(h)').id
                        ELSE id = 0
        /\ Accept(tok, PushScope(middle), id)
    BY <1>2, <1>4, <2>2, <2>5, <2>7
  <2>9. tok.op \in {"function", "for"} /\ (tok.op = "function" <=> nesting = <<>>)
    BY <1>2, <2>6
  <2> QED BY <1>1, <1>2, <2>3, <2>4, <2>6, <2>8, <2>9, ConstructValid
<1> QED BY <1>3, <1>4 DEF BeginFor

\* The end of a block, a loop or a function.
LEMMA EndValid ==
  ASSUME Valid, nesting # <<>>, NEW tok, tok = [op |-> "close", of |-> nesting[Len(nesting)]], End(tok)
  PROVE  Valid'
<1>1. PICK h \in Nat : h = Len(prog) + 1
  BY ValidFacts
<1>2. PICK at : Mirror(at)
  BY ValidFacts
<1>3. PICK last \in 1..Len(prog) : last = nesting[Len(nesting)] /\ last \in Open
  BY ValidFacts, Innermost
<1>4. /\ tok = [op |-> "close", of |-> last] /\ tok.op = "close" /\ tok.of = last
      /\ tok \in Token
  <2>1. last \in Nat
    OBVIOUS
  <2>2. tok \in Close
    BY <2>1, <1>3 DEF Close
  <2> QED BY <1>3, <2>2 DEF Token
<1>5. /\ prog' = Append(prog, tok) /\ scopes' = Popped(scopes, prog[last])
      /\ bound' = Append(bound, 0) /\ nesting' = Front(nesting)
  BY <1>4 DEF End, Accept
<1>6. Moves(tok)
  BY <1>5 DEF Moves
<1>7. prog[last].op \in {"function", "for", "open"}
  BY <1>3 DEF Open, Opener
<1> DEFINE L == Len(scopes)
<1>8. /\ L = Len(at) /\ L \in Nat \ {0} /\ at \in Seq(Nat) /\ scopes \in Seq(ScopeType)
      /\ prog[last].op # "open" => L > 1
  BY <1>2, <1>3, ValidFacts, TopKey DEF Mirror
<1>9. /\ scopes # <<>> /\ at # <<>>
      /\ Front(scopes) \in Seq(ScopeType) /\ Len(Front(scopes)) = L - 1
      /\ \A s \in 1..(L - 1) : Front(scopes)[s] = scopes[s]
      /\ Front(at) \in Seq(Nat) /\ Len(Front(at)) = L - 1
      /\ \A s \in 1..(L - 1) : Front(at)[s] = at[s]
  <2>1. scopes # <<>> /\ at # <<>>
    BY <1>8
  <2> QED BY <2>1, <1>8, FrontFacts
<1>10. Nested /\ Mirror(at)
  BY <1>2, ValidFacts
<1>11. ASSUME NEW new \in Seq(Nat), scopes' \in Seq(ScopeType), Len(new) = Len(scopes'),
              Len(new) = L - (IF prog[last].op = "open" THEN 1 ELSE 2),
              \A s \in 1..Len(new) : new[s] = at[s] /\ scopes'[s] = scopes[s]
       PROVE  Valid'
  <2>1. Len(new) = IF prog[last].op = "open" THEN Len(at) - 1 ELSE Len(at) - 2
    BY <1>8, <1>11
  <2>2. Mirror(new)'
    BY <1>3, <1>4, <1>5, <1>8, <1>10, <1>11, <2>1, MirrorClose
  <2>3. Depths'
    BY <1>3, <1>4, <1>5, <1>10, <1>11, ValidFacts, DepthsLess
  <2>4. ~IsUse(h)'
    <3>1. prog'[h] = tok
      BY <1>1, <1>4, <1>5, ValidFacts, AppendFacts
    <3> QED BY <1>4, <3>1 DEF IsUse
  <2> QED BY <1>1, <1>4, <1>5, <1>6, <1>11, <2>2, <2>3, <2>4, AcceptValid
<1>12. CASE prog[last].op = "open"
  <2>1. scopes' = Front(scopes)
    BY <1>5, <1>12 DEF Popped, PopScope
  <2> QED BY <1>9, <1>11, <1>12, <2>1
<1>13. CASE prog[last].op # "open"
  <2>1. scopes' = Front(Front(scopes))
    BY <1>5, <1>7, <1>13 DEF Popped, PopScope
  <2>2. Front(scopes) # <<>> /\ Front(at) # <<>>
    BY <1>8, <1>9, <1>13
  <2>3. /\ Front(Front(scopes)) \in Seq(ScopeType) /\ Len(Front(Front(scopes))) = L - 1 - 1
        /\ \A s \in 1..(L - 1 - 1) : Front(Front(scopes))[s] = Front(scopes)[s]
        /\ Front(Front(at)) \in Seq(Nat) /\ Len(Front(Front(at))) = L - 1 - 1
        /\ \A s \in 1..(L - 1 - 1) : Front(Front(at))[s] = Front(at)[s]
    BY <1>9, <2>2, FrontFacts
  <2>4. \A s \in 1..(L - 1 - 1) : s \in 1..(L - 1)
    BY <1>8
  <2>5. L - 1 - 1 = L - (IF prog[last].op = "open" THEN 1 ELSE 2)
    BY <1>8, <1>13
  <2> HIDE DEF L
  <2> QED BY <1>9, <1>11, <2>1, <2>3, <2>4, <2>5
<1> QED BY <1>12, <1>13

-----------------------------------------------------------------------------

(* The lowering.  It reads the source and leaves it as it is. *)

\* What is said of the source stays when the source does.
LEMMA SourceStays ==
  ASSUME UNCHANGED srcVars
  PROVE  /\ prog' = prog /\ nesting' = nesting /\ scopes' = scopes /\ bound' = bound
         /\ \A n, i : Stores(i, n)' = Stores(i, n)
         /\ \A i : IsUse(i)' = IsUse(i) /\ Body(i)' = Body(i)
         /\ Globals' = Globals /\ TopUses' = TopUses /\ Bodies' = Bodies
         /\ Order' = Order /\ Unhidden' = Unhidden
<1>1. prog' = prog /\ nesting' = nesting /\ scopes' = scopes /\ bound' = bound
  BY DEF srcVars
<1>2. /\ \A n, i : Stores(i, n)' = Stores(i, n)
      /\ \A i : IsUse(i)' = IsUse(i) /\ Body(i)' = Body(i) /\ Region(i)' = Region(i)
  BY <1>1 DEF Stores, IsUse, Body, Region, Enclosing, Encloses, Opener
<1>3. Globals' = Globals /\ TopUses' = TopUses /\ Bodies' = Bodies
  BY <1>1, <1>2 DEF Globals, TopUses, Bodies
<1>4. Order' = Order
  BY <1>1, <1>3 DEF Order, Initializers, Statements
<1>5. Unhidden' = Unhidden
  BY <1>1, <1>2 DEF Unhidden
<1> QED BY <1>1, <1>2, <1>3, <1>4, <1>5

\* The functions around a token, and their tokens.
LEMMA BodyEncloses ==
  ASSUME NEW f \in 1..Len(prog), prog[f].op = "function", NEW i \in 1..Len(prog)
  PROVE  i \in Body(f) <=> f \in Enclosing(i)
BY DEF Body, Enclosing, Encloses, Opener

\* The variables n that the lowering has come to.
Put(n) == {d \in (Globals \ left[1]) \cup (Bodies \ left[4]) : Stores(d, n)}

\* Those of the globals come before those of the functions.
Before(d, e) ==
  \/ d \in Globals /\ e \notin Globals
  \/ (d \in Globals <=> e \in Globals) /\ d <= e

\* The table has the last of them.
Tabled(n) ==
  IF Put(n) = {} THEN table[n] = 0 ELSE table[n] \in Put(n) /\ \A d \in Put(n) : Before(d, table[n])

\* The passes go over their tokens in order, one after the other.
Passes ==
  /\ \A p \in 1..4 : /\ left[p] \subseteq Order[p]
                     /\ \A i \in Order[p] \ left[p] : \A j \in left[p] : i < j
  /\ \A p, q \in 1..4 : p < q /\ left[p] # {} => left[q] = Order[q]

\* The passes: globals, initializers, statements, bodies.
LEMMA OrderFacts ==
  /\ Order[1] = Globals /\ Order[2] = Initializers /\ Order[3] = Statements /\ Order[4] = Bodies
  /\ Globals \subseteq 1..Len(prog) /\ TopUses \subseteq 1..Len(prog) /\ Bodies \subseteq 1..Len(prog)
  /\ TopUses = Initializers \cup Statements
  /\ \A i \in Globals : prog[i].op = "global"
  /\ \A i \in TopUses : prog[i].op \in {"use", "assign"}
<1>1. Order[1] = Globals /\ Order[2] = Initializers /\ Order[3] = Statements /\ Order[4] = Bodies
  BY DEF Order
<1>2. \A i \in 1..Len(prog) : Body(i) \subseteq 1..Len(prog)
  BY DEF Body
<1>3. Bodies \subseteq 1..Len(prog)
  BY <1>2 DEF Bodies
<1>4. /\ Globals \subseteq 1..Len(prog) /\ TopUses \subseteq 1..Len(prog)
      /\ \A i \in Globals : prog[i].op = "global"
      /\ \A i \in TopUses : prog[i].op \in {"use", "assign"}
  BY DEF Globals, TopUses
<1>5. TopUses = Initializers \cup Statements
  BY DEF Initializers, Statements
<1> QED BY <1>1, <1>3, <1>4, <1>5

\* What is inside of a function is nothing that the first three passes lower.
LEMMA BodiesApart ==
  ASSUME Ready, NEW i \in Bodies
  PROVE  i \notin Globals /\ i \notin TopUses /\ i \in 1..Len(prog) /\ Enclosing(i) # {}
<1>1. PICK f \in 1..Len(prog) : prog[f].op = "function" /\ prog[f].live /\ i \in Body(f)
  BY DEF Bodies
<1>2. i \in 1..Len(prog)
  BY OrderFacts
<1>3. f \in Enclosing(i)
  BY <1>1, <1>2, BodyEncloses
<1>4. i \notin Globals
  BY <1>2, <1>3 DEF Ready, Placed, Globals
<1>5. i \notin TopUses
  BY <1>1 DEF TopUses
<1> QED BY <1>2, <1>3, <1>4, <1>5

\* A declaration in a live function is lowered with it.
LEMMA DeclaredBodies ==
  ASSUME Ready, NEW n \in Names, NEW i \in Bodies, NEW d \in 1..Len(prog), Stores(d, n),
         Enclosing(d) \subseteq Enclosing(i)
  PROVE  d \in Globals \cup Bodies
<1>1. d \in Globals \/ prog[d].op \in {"local", "for", "function"}
  BY DEF Stores, Globals
<1>2. CASE prog[d].op \in {"local", "for", "function"}
  <2>1. Enclosing(d) # {}
    BY <1>2 DEF Ready, Placed
  <2>2. PICK g \in Enclosing(d) : prog[g].op = "function"
    BY <2>1 DEF Ready, Placed
  <2>3. PICK f \in 1..Len(prog) : prog[f].op = "function" /\ prog[f].live /\ i \in Body(f)
    BY DEF Bodies
  <2>4. i \in 1..Len(prog) /\ f \in Enclosing(i) /\ g \in Enclosing(i)
    BY <2>2, <2>3, OrderFacts, BodyEncloses
  <2>5. PICK u \in Enclosing(i) : \A j \in Enclosing(i) : prog[j].op = "function" <=> j = u
    <3>1. Enclosing(i) # {} /\ Placed(i)
      BY <2>4 DEF Ready
    <3> QED BY <3>1 DEF Placed
  <2>6. g = f
    BY <2>2, <2>3, <2>4, <2>5
  <2>7. d \in Body(f)
    BY <2>2, <2>3, <2>6, BodyEncloses
  <2> QED BY <2>3, <2>7 DEF Bodies
<1> QED BY <1>1, <1>2

\* The token at which the lowering looks up the name of token i.
Looks(c, i) == IF prog[i].op = "for" THEN prog[c] = [op |-> "close", of |-> i] ELSE c = i

\* When a name is looked up its declaration is in the table, and if none hides it
\* there is no other.
LEMMA Refers ==
  ASSUME Valid, Passes, NEW i \in 1..Len(prog), IsUse(i), prog[bound[i]].op # "signature",
         NEW n \in Names, n = UsedName(i), Tabled(n),
         NEW c \in 1..Len(prog), Looks(c, i),
         NEW p \in 1..4, c \in left[p], \A j \in left[p] : c <= j, \A q \in 1..(p - 1) : left[q] = {}
  PROVE  table[n] # 0 /\ (Unhidden => table[n] = bound[i])
<1> DEFINE d == bound[i]
<1>1. /\ Ready /\ d \in 1..i /\ Stores(d, n) /\ Enclosing(d) \subseteq Enclosing(i)
      /\ d \in 1..Len(prog)
  <2>1. d \in Visible(n, i) /\ Ready
    BY DEF Valid
  <2>2. d \in 1..i /\ Declares(d, n) /\ Enclosing(d) \subseteq Enclosing(i)
    BY <2>1 DEF Visible, Region
  <2>3. Stores(d, n)
    BY <2>2 DEF Declares
  <2> QED BY <2>1, <2>2, <2>3
<1> HIDE DEF d
<1>2. /\ i <= c /\ Enclosing(c) = Enclosing(i) /\ prog[c].op \in {"use", "assign", "close"}
      /\ prog[i].op # "for" => c = i /\ prog[i].op \in {"use", "assign"}
      /\ prog[i].op = "for" => prog[c].op = "close"
  <2>1. CASE prog[i].op = "for"
    <3>1. prog[c].op = "close" /\ prog[c].of = i
      BY <2>1 DEF Looks
    <3>2. i \in 1..c /\ Enclosing(c) = Enclosing(i)
      BY <1>1, <3>1 DEF Ready, Placed
    <3> QED BY <2>1, <3>1, <3>2
  <2>2. CASE prog[i].op # "for"
    BY <2>2 DEF Looks, IsUse
  <2> QED BY <2>1, <2>2
<1>3. d < c
  <2>1. d # c
    BY <1>1, <1>2 DEF Stores
  <2> QED BY <2>1, <1>1, <1>2
<1>4. CASE p = 1
  <2>1. c \in Globals
    BY <1>4, OrderFacts DEF Passes
  <2>2. prog[c].op = "global"
    BY <2>1, OrderFacts
  <2> QED BY <2>2, <1>2
<1>5. CASE p # 1
  <2>1. left[1] = {}
    BY <1>5
  <2>2. d \in Globals \/ (d \in Bodies /\ c \in Bodies /\ p = 4)
    <3>1. CASE p \in {2, 3}
      <4>1. c \in TopUses
        BY <3>1, OrderFacts DEF Passes
      <4>2. c = i
        BY <4>1, <1>2, OrderFacts
      <4>3. \A f \in Enclosing(i) : prog[f].op # "function"
        <5>1. SUFFICES ASSUME NEW f \in Enclosing(i), prog[f].op = "function" PROVE FALSE
          OBVIOUS
        <5>2. f \in 1..Len(prog)
          BY DEF Enclosing
        <5>3. i \in Body(f)
          BY <5>1, <5>2, BodyEncloses
        <5> QED BY <4>1, <4>2, <5>1, <5>2, <5>3 DEF TopUses
      <4>4. Enclosing(i) = {}
        BY <1>1, <4>3 DEF Ready, Placed
      <4>5. Enclosing(d) = {}
        BY <1>1, <4>4
      <4>6. prog[d].op = "global"
        BY <1>1, <4>5 DEF Ready, Placed, Stores
      <4> QED BY <1>1, <4>6 DEF Globals
    <3>2. CASE p = 4
      <4>1. c \in Bodies
        BY <3>2, OrderFacts DEF Passes
      <4>2. d \in Globals \cup Bodies
        BY <4>1, <1>1, <1>2, DeclaredBodies
      <4> QED BY <4>1, <4>2, <3>2
    <3> QED BY <1>5, <3>1, <3>2
  <2>3. d \in Put(n)
    <3>1. CASE d \in Globals
      BY <3>1, <1>1, <2>1 DEF Put
    <3>2. CASE d \in Bodies /\ p = 4
      <4>1. d \notin left[4]
        BY <3>2, <1>1, <1>3
      <4> QED BY <3>2, <4>1, <1>1 DEF Put
    <3> QED BY <2>2, <3>1, <3>2
  <2>4. table[n] \in Put(n) /\ Before(d, table[n])
    BY <2>3 DEF Tabled
  <2>5. PICK t \in Put(n) : t = table[n]
    BY <2>4
  <2>6. t \in 1..Len(prog) /\ Stores(t, n)
    BY OrderFacts DEF Put
  <2>7. ASSUME Unhidden, t # d PROVE FALSE
    <3>1. Region(d) # {} /\ Region(t) # {} /\ ~(Region(d) \subseteq Region(t))
      BY <1>1, <2>6, <2>7 DEF Unhidden
    <3>2. d \notin Globals /\ t \notin Globals
      BY <1>1, <2>6, <3>1 DEF Ready, Placed, Globals, Region
    <3>3. t \in Bodies \ left[4] /\ c \in Bodies /\ p = 4 /\ d <= t
      BY <2>2, <2>4, <2>5, <3>2 DEF Put, Before
    <3>4. t < c
      BY <3>3, OrderFacts DEF Passes
    <3>5. ASSUME NEW k \in Enclosing(d) PROVE k \in Enclosing(t)
      <4>1. k \in Enclosing(c) /\ k \in 1..Len(prog) /\ k <= d
        BY <1>1, <1>2 DEF Enclosing, Encloses
      <4>2. Opener(k) /\ \A j \in k..(c - 1) : prog[j] # [op |-> "close", of |-> k]
        BY <4>1 DEF Enclosing, Encloses
      <4>3. k <= t /\ \A j \in k..(t - 1) : j \in k..(c - 1)
        BY <1>1, <4>1, <2>6, <3>3, <3>4
      <4> QED BY <4>1, <4>2, <4>3 DEF Enclosing, Encloses
    <3> QED BY <3>1, <3>5 DEF Region
  <2>8. t # 0
    BY <2>6
  <2> QED BY <2>5, <2>7, <2>8 DEF d
<1> QED BY <1>4, <1>5

Referred == \A i \in LoweredVariables : lowered[i] # 0 /\ (Unhidden => lowered[i] = bound[i])

Progress ==
  /\ lowered \in [1..Len(prog) -> 0..Len(prog)]
  /\ nesting = <<>> /\ Passes /\ (\A n \in Names : Tabled(n)) /\ Referred

LowerType ==
  /\ phase \in {"validate", "rejected", "lower"}
  /\ left \in [1..4 -> SUBSET (1..Len(prog))]
  /\ table \in [Names -> 0..Len(prog)]

Inv ==
  /\ Valid /\ LowerType
  /\ phase = "validate" => \A n \in Names : table[n] = 0
  /\ phase = "lower" => Progress

\* The loop that is left has a close that is lowered behind it.
LEMMA CloseLeft ==
  ASSUME Ready, nesting = <<>>, Passes, NEW k \in Bodies, prog[k].op = "for",
         NEW p \in 1..4, k \in left[p]
  PROVE  \E c \in left[4] : c # k /\ prog[c] = [op |-> "close", of |-> k]
<1>1. k \in 1..Len(prog) /\ k \notin Globals /\ k \notin TopUses
  BY BodiesApart
<1>2. p = 4
  BY <1>1, OrderFacts DEF Passes
<1>3. PICK c \in k..Len(prog) : prog[c] = [op |-> "close", of |-> k]
  <2>1. Open = {}
    BY Innermost DEF Ready
  <2> QED BY <2>1, <1>1 DEF Open, Opener
<1>4. c \in 1..Len(prog) /\ c > k /\ prog[c].op = "close" /\ prog[c].of = k
  BY <1>1, <1>3
<1>5. Enclosing(c) = Enclosing(k)
  BY <1>4 DEF Ready, Placed
<1>6. PICK f \in 1..Len(prog) : prog[f].op = "function" /\ prog[f].live /\ k \in Body(f)
  BY DEF Bodies
<1>7. c \in Body(f)
  BY <1>1, <1>4, <1>5, <1>6, BodyEncloses
<1>8. c \in Bodies
  BY <1>6, <1>7 DEF Bodies
<1>9. c \in left[4]
  BY <1>1, <1>2, <1>4, <1>8, OrderFacts DEF Passes
<1> QED BY <1>3, <1>4, <1>9

\* A token is lowered: the passes go on, and what it declares is the last declaration.
LEMMA PassStep ==
  ASSUME Ready, LowerType, Passes, NEW i \in 1..Len(prog), NEW op, Lowering(i, op)
  PROVE  /\ Passes' /\ left' \in [1..4 -> SUBSET (1..Len(prog))]
         /\ Left \ {i} \subseteq Left'
         /\ \A n \in Names : Put(n)' = Put(n) \cup (IF Stores(i, n) THEN {i} ELSE {})
         /\ \A n \in Names : Stores(i, n) => \A d \in Put(n) : Before(d, i)
<1>1. PICK p \in 1..4 :
        /\ i \in left[p] /\ \A j \in left[p] : i <= j
        /\ \A q \in 1..(p - 1) : left[q] = {}
        /\ left' = [left EXCEPT ![p] = @ \ {i}]
  BY DEF Lowering
<1>2. /\ prog' = prog /\ Order' = Order /\ Globals' = Globals /\ Bodies' = Bodies
      /\ \A n : \A d : Stores(d, n)' = Stores(d, n)
  BY SourceStays DEF Lowering
<1>3. /\ left \in [1..4 -> SUBSET (1..Len(prog))] /\ DOMAIN left = 1..4
      /\ left'[p] = left[p] \ {i} /\ \A q \in 1..4 : q # p => left'[q] = left[q]
  BY <1>1 DEF LowerType
<1>4. left' \in [1..4 -> SUBSET (1..Len(prog))]
  BY <1>1, <1>3
<1>5. \A q \in 1..4 : left[q] \ {i} \subseteq left'[q] /\ left'[q] \subseteq left[q]
  BY <1>3
<1>6. Left \ {i} \subseteq Left'
  BY <1>5 DEF Left
<1>7. ASSUME NEW q \in 1..4
      PROVE  /\ left'[q] \subseteq Order[q]
             /\ \A k \in Order[q] \ left'[q] : \A j \in left'[q] : k < j
  <2>1. left[q] \subseteq Order[q] /\ \A k \in Order[q] \ left[q] : \A j \in left[q] : k < j
    BY DEF Passes
  <2>2. CASE q # p
    BY <2>1, <2>2, <1>3
  <2>3. CASE q = p
    <3>1. \A j \in left[p] \ {i} : i < j
      <4>1. left[p] \subseteq 1..Len(prog)
        BY <1>3
      <4> QED BY <4>1, <1>1
    <3> QED BY <2>1, <2>3, <3>1, <1>3
  <2> QED BY <2>2, <2>3
<1>8. ASSUME NEW a \in 1..4, NEW b \in 1..4, a < b, left'[a] # {}
      PROVE  left'[b] = Order[b]
  <2>1. left[a] # {}
    BY <1>5, <1>8
  <2>2. b # p
    BY <1>1, <1>8, <2>1
  <2> QED BY <2>1, <2>2, <1>3, <1>8 DEF Passes
<1>9. Passes'
  BY <1>2, <1>7, <1>8 DEF Passes
<1>10. /\ p = 1 => i \in Globals
       /\ p \in {2, 3} => i \in TopUses
       /\ p = 4 => i \in Bodies
  BY <1>1, OrderFacts DEF Passes
<1>11. ASSUME NEW n \in Names
       PROVE  Put(n)' = Put(n) \cup (IF Stores(i, n) THEN {i} ELSE {})
  <2>1. Put(n)' = {d \in (Globals \ left'[1]) \cup (Bodies \ left'[4]) : Stores(d, n)}
    BY <1>2 DEF Put
  <2>2. CASE p = 1
    <3>1. left'[1] = left[1] \ {i} /\ left'[4] = left[4] /\ i \in Globals
      BY <2>2, <1>3, <1>10
    <3> QED BY <2>1, <3>1 DEF Put
  <2>3. CASE p \in {2, 3}
    <3>1. left'[1] = left[1] /\ left'[4] = left[4] /\ ~Stores(i, n)
      BY <2>3, <1>3, <1>10, OrderFacts DEF Stores
    <3> QED BY <2>1, <3>1 DEF Put
  <2>4. CASE p = 4
    <3>1. left'[1] = left[1] /\ left'[4] = left[4] \ {i} /\ i \in Bodies
      BY <2>4, <1>3, <1>10
    <3> QED BY <2>1, <3>1 DEF Put
  <2> QED BY <2>2, <2>3, <2>4
<1>12. ASSUME NEW n \in Names, Stores(i, n), NEW d \in Put(n)
       PROVE  Before(d, i)
  <2>1. /\ \A k \in Globals \ left[1] : \A j \in left[1] : k < j
        /\ \A k \in Bodies \ left[4] : \A j \in left[4] : k < j
        /\ left[1] # {} => left[4] = Bodies
    BY OrderFacts DEF Passes
  <2>2. d \in (Globals \ left[1]) \cup (Bodies \ left[4]) /\ d \in 1..Len(prog)
    BY OrderFacts DEF Put
  <2>3. CASE p = 1
    <3>1. i \in left[1] /\ i \in Globals /\ d \in Globals \ left[1]
      BY <2>1, <2>2, <2>3, <1>1, <1>10
    <3> QED BY <2>1, <2>2, <3>1 DEF Before
  <2>4. CASE p \in {2, 3}
    BY <2>4, <1>10, <1>12, OrderFacts DEF Stores
  <2>5. CASE p = 4
    <3>1. i \in left[4] /\ i \in Bodies /\ i \notin Globals
      BY <2>5, <1>1, <1>10, BodiesApart
    <3>2. d \in Globals \/ (d \in Bodies \ left[4] /\ d \notin Globals)
      BY <2>2
    <3> QED BY <2>1, <2>2, <3>1, <3>2 DEF Before
  <2> QED BY <2>3, <2>4, <2>5
<1> QED BY <1>4, <1>6, <1>9, <1>11, <1>12

\* A step of the lowering looks up the names that belong to its token, and declares
\* what its token declares.
LEMMA LoweringStep ==
  ASSUME Inv, phase = "lower", NEW i \in 1..Len(prog), NEW op, Lowering(i, op),
         table' \in [Names -> 0..Len(prog)],
         \A n \in Names : table'[n] = IF Stores(i, n) THEN i ELSE table[n],
         lowered' \in [1..Len(prog) -> 0..Len(prog)],
         \A k \in 1..Len(prog) :
           lowered'[k] = IF IsUse(k) /\ Looks(i, k) THEN table[UsedName(k)] ELSE lowered[k]
  PROVE  Inv'
<1>1. Valid /\ Ready /\ LowerType /\ Progress /\ Passes
  BY DEF Inv, Valid, Progress
<1>2. UNCHANGED srcVars /\ phase' = phase
  BY DEF Lowering
<1>3. /\ prog' = prog /\ nesting' = nesting /\ bound' = bound
      /\ \A k : IsUse(k)' = IsUse(k)
      /\ Globals' = Globals /\ TopUses' = TopUses /\ Bodies' = Bodies /\ Unhidden' = Unhidden
  BY <1>2, SourceStays
<1>4. /\ Passes' /\ left' \in [1..4 -> SUBSET (1..Len(prog))]
      /\ Left \ {i} \subseteq Left'
      /\ \A n \in Names : Put(n)' = Put(n) \cup (IF Stores(i, n) THEN {i} ELSE {})
      /\ \A n \in Names : Stores(i, n) => \A d \in Put(n) : Before(d, i)
  BY <1>1, PassStep
<1>5. PICK p \in 1..4 :
        i \in left[p] /\ (\A j \in left[p] : i <= j) /\ \A q \in 1..(p - 1) : left[q] = {}
  BY DEF Lowering
<1>6. \A d, e : Before(d, e)' = Before(d, e)
  BY <1>3 DEF Before
<1>7. ASSUME NEW n \in Names PROVE Tabled(n)'
  <2>1. Tabled(n)
    BY <1>1 DEF Progress
  <2>2. CASE Stores(i, n)
    <3>1. Put(n)' = Put(n) \cup {i} /\ table'[n] = i
      BY <2>2, <1>4
    <3>2. Before(i, i)
      BY DEF Before
    <3>3. \A d \in Put(n)' : Before(d, i)
      BY <2>2, <3>1, <3>2, <1>4
    <3> QED BY <3>1, <3>3, <1>6 DEF Tabled
  <2>3. CASE ~Stores(i, n)
    <3>1. Put(n)' = Put(n) /\ table'[n] = table[n]
      BY <2>3, <1>4
    <3> QED BY <2>1, <3>1, <1>6 DEF Tabled
  <2> QED BY <2>2, <2>3
<1>8. ASSUME NEW k \in Lowered' PROVE k \in Lowered \/ Looks(i, k)
  <2>1. /\ k \in TopUses \cup Bodies /\ IsUse(k) /\ k \in 1..Len(prog)
        /\ \A j \in Left' : j # k /\ (prog[k].op = "for" => prog[j] # [op |-> "close", of |-> k])
    BY <1>3, OrderFacts DEF Lowered
  <2>2. SUFFICES ASSUME k \notin Lowered PROVE Looks(i, k)
    OBVIOUS
  <2>3. PICK j \in Left : j = k \/ (prog[k].op = "for" /\ prog[j] = [op |-> "close", of |-> k])
    BY <2>1, <2>2 DEF Lowered
  <2>4. j = i
    BY <2>1, <2>3, <1>4
  <2>5. ASSUME prog[k].op = "for", i = k PROVE FALSE
    <3>1. k \in Bodies
      BY <2>1, <2>5, OrderFacts
    <3>2. PICK c \in left[4] : c # k /\ prog[c] = [op |-> "close", of |-> k]
      BY <3>1, <2>5, <1>1, <1>5, CloseLeft DEF Progress
    <3>3. c \in Left'
      BY <3>2, <2>5, <1>4 DEF Left
    <3> QED BY <3>2, <3>3, <2>1, <2>5
  <2> QED BY <2>3, <2>4, <2>5 DEF Looks
<1>9. ASSUME NEW k \in LoweredVariables'
      PROVE  lowered'[k] # 0 /\ (Unhidden => lowered'[k] = bound[k])
  <2>1. /\ k \in Lowered' /\ IsUse(k) /\ k \in 1..Len(prog)
        /\ prog[bound[k]].op # "signature"
    BY <1>3, OrderFacts DEF LoweredVariables, Lowered
  <2>2. CASE Looks(i, k)
    <3>1. lowered'[k] = table[UsedName(k)]
      BY <2>1, <2>2
    <3>2. PICK n \in Names : n = UsedName(k)
      <4>1. prog[k] \in Token
        BY <2>1, <1>1 DEF Ready, Nested
      <4>2. prog[k] \in For \/ prog[k] \in Use
        BY <2>1, <4>1, TokenOps DEF IsUse
      <4> QED BY <4>2 DEF UsedName, For, Use
    <3>3. Tabled(n)
      BY <1>1 DEF Progress
    <3>4. table[n] # 0 /\ (Unhidden => table[n] = bound[k])
      BY <2>1, <2>2, <3>2, <3>3, <1>1, <1>5, Refers
    <3> QED BY <3>1, <3>2, <3>4
  <2>3. CASE ~Looks(i, k)
    <3>1. k \in LoweredVariables /\ lowered'[k] = lowered[k]
      BY <2>1, <2>3, <1>8 DEF LoweredVariables
    <3> QED BY <3>1, <1>1 DEF Progress, Referred
  <2> QED BY <2>2, <2>3
<1>10. Progress'
  BY <1>1, <1>3, <1>4, <1>7, <1>9 DEF Progress, Referred
<1>11. Valid' /\ LowerType'
  BY <1>1, <1>2, <1>3, <1>4, StaysValid DEF LowerType
<1> QED BY <1>2, <1>10, <1>11 DEF Inv

\* A variable is declared in the table.
LEMMA LowerDeclarationInv ==
  ASSUME Inv, NEW i \in 1..Len(prog), LowerDeclaration(i)
  PROVE  Inv'
<1>1. PICK op \in {"global", "local", "for"} : Lowering(i, op)
  BY DEF LowerDeclaration
<1>2. phase = "lower" /\ prog[i].op = op
  BY <1>1 DEF Lowering
<1>3. table \in [Names -> 0..Len(prog)] /\ lowered \in [1..Len(prog) -> 0..Len(prog)] /\ prog \in Seq(Token)
  BY <1>2 DEF Inv, LowerType, Progress, Valid, Ready, Nested
<1>4. /\ table' = [table EXCEPT ![prog[i].name] = i] /\ lowered' = lowered
      /\ prog[i].name \in Names
  <2>1. prog[i] \in Decl \/ prog[i] \in For
    BY <1>2, <1>3, TokenOps
  <2> QED BY <2>1 DEF LowerDeclaration, SymPut, Decl, For
<1>5. \A n \in Names : Stores(i, n) <=> n = prog[i].name
  BY <1>2 DEF Stores
<1>6. \A k : ~(IsUse(k) /\ Looks(i, k))
  BY <1>2 DEF IsUse, Looks
<1>7. /\ table' \in [Names -> 0..Len(prog)]
      /\ \A n \in Names : table'[n] = IF Stores(i, n) THEN i ELSE table[n]
  BY <1>3, <1>4, <1>5
<1> QED BY <1>1, <1>2, <1>3, <1>4, <1>6, <1>7, LoweringStep

\* And a parameter.
LEMMA LowerFunctionInv ==
  ASSUME Inv, NEW i \in 1..Len(prog), LowerFunction(i)
  PROVE  Inv'
<1>1. Lowering(i, "function") /\ phase = "lower" /\ prog[i].op = "function" /\ lowered' = lowered
  BY DEF LowerFunction, Lowering
<1>2. table \in [Names -> 0..Len(prog)] /\ lowered \in [1..Len(prog) -> 0..Len(prog)] /\ prog \in Seq(Token)
  BY <1>1 DEF Inv, LowerType, Progress, Valid, Ready, Nested
<1>3. \A n \in Names : Stores(i, n) <=> prog[i].params # <<>> /\ n = prog[i].params.name
  BY <1>1 DEF Stores
<1>4. \A k : ~(IsUse(k) /\ Looks(i, k))
  BY <1>1 DEF IsUse, Looks
<1>5. /\ table' \in [Names -> 0..Len(prog)]
      /\ \A n \in Names : table'[n] = IF Stores(i, n) THEN i ELSE table[n]
  <2>1. CASE prog[i].params = <<>>
    <3>1. table' = table
      BY <2>1 DEF LowerFunction
    <3> QED BY <2>1, <3>1, <1>2, <1>3
  <2>2. CASE prog[i].params # <<>>
    <3>1. table' = [table EXCEPT ![prog[i].params.name] = i]
      BY <2>2 DEF LowerFunction, SymPut
    <3>2. prog[i] \in Function
      BY <1>1, <1>2, TokenOps
    <3>3. prog[i].params.name \in Names
      BY <2>2, <3>2 DEF Function
    <3> QED BY <2>2, <3>1, <3>3, <1>2, <1>3
  <2> QED BY <2>1, <2>2
<1> QED BY <1>1, <1>2, <1>4, <1>5, LoweringStep

\* A name is looked up.
LEMMA LowerUseInv ==
  ASSUME Inv, NEW i \in 1..Len(prog), LowerUse(i)
  PROVE  Inv'
<1>1. PICK op \in {"use", "assign"} : Lowering(i, op)
  BY DEF LowerUse
<1>2. phase = "lower" /\ prog[i].op = op /\ table' = table
  BY <1>1 DEF Lowering, LowerUse
<1>3. table \in [Names -> 0..Len(prog)] /\ lowered \in [1..Len(prog) -> 0..Len(prog)] /\ prog \in Seq(Token)
  BY <1>2 DEF Inv, LowerType, Progress, Valid, Ready, Nested
<1>4. lowered' = [lowered EXCEPT ![i] = table[prog[i].name]] /\ prog[i].name \in Names
  <2>1. prog[i] \in Use
    BY <1>2, <1>3, TokenOps
  <2> QED BY <2>1 DEF LowerUse, Refer, Use
<1>5. \A n \in Names : ~Stores(i, n)
  BY <1>2 DEF Stores
<1>6. /\ \A k : IsUse(k) /\ Looks(i, k) <=> k = i
      /\ UsedName(i) = prog[i].name
  BY <1>2 DEF IsUse, Looks, UsedName
<1>7. /\ lowered' \in [1..Len(prog) -> 0..Len(prog)]
      /\ \A k \in 1..Len(prog) :
           lowered'[k] = IF IsUse(k) /\ Looks(i, k) THEN table[UsedName(k)] ELSE lowered[k]
  <2>1. table[prog[i].name] \in 0..Len(prog)
    BY <1>3, <1>4
  <2> QED BY <2>1, <1>3, <1>4, <1>6
<1> QED BY <1>1, <1>2, <1>3, <1>5, <1>7, LoweringStep

\* A block leaves the table alone.
LEMMA LowerOpenInv ==
  ASSUME Inv, NEW i \in 1..Len(prog), LowerOpen(i)
  PROVE  Inv'
<1>1. Lowering(i, "open") /\ phase = "lower" /\ prog[i].op = "open" /\ lowered' = lowered /\ table' = table
  BY DEF LowerOpen, Lowering
<1>2. table \in [Names -> 0..Len(prog)] /\ lowered \in [1..Len(prog) -> 0..Len(prog)]
  BY <1>1 DEF Inv, LowerType, Progress
<1>3. /\ \A n \in Names : ~Stores(i, n)
      /\ \A k : ~(IsUse(k) /\ Looks(i, k))
  BY <1>1 DEF Stores, IsUse, Looks
<1> QED BY <1>1, <1>2, <1>3, LoweringStep

\* The increment of a loop is looked up at its end.
LEMMA LowerCloseInv ==
  ASSUME Inv, NEW i \in 1..Len(prog), LowerClose(i)
  PROVE  Inv'
<1>1. Lowering(i, "close") /\ phase = "lower" /\ prog[i].op = "close" /\ table' = table
  BY DEF LowerClose, Lowering
<1>2. table \in [Names -> 0..Len(prog)] /\ lowered \in [1..Len(prog) -> 0..Len(prog)] /\ prog \in Seq(Token)
  BY <1>1 DEF Inv, LowerType, Progress, Valid, Ready, Nested
<1>3. \A n \in Names : ~Stores(i, n)
  BY <1>1 DEF Stores
<1>4. PICK k \in 1..Len(prog) : k = prog[i].of
  BY <1>1 DEF Inv, Valid, Ready, Placed
<1>5. prog[i] = [op |-> "close", of |-> k]
  BY <1>1, <1>2, <1>4, TokenOps
<1>6. \A j : IsUse(j) /\ Looks(i, j) <=> j = k /\ prog[k].op = "for"
  BY <1>1, <1>5 DEF IsUse, Looks
<1>7. /\ lowered' \in [1..Len(prog) -> 0..Len(prog)]
      /\ \A j \in 1..Len(prog) :
           lowered'[j] = IF IsUse(j) /\ Looks(i, j) THEN table[UsedName(j)] ELSE lowered[j]
  <2>1. CASE prog[k].op = "for"
    <3>1. lowered' = [lowered EXCEPT ![k] = table[prog[k].inc]] /\ UsedName(k) = prog[k].inc
      BY <2>1, <1>4 DEF LowerClose, Refer, UsedName
    <3>2. prog[k].inc \in Names
      <4>1. prog[k] \in For
        BY <2>1, <1>2, TokenOps
      <4> QED BY <4>1 DEF For
    <3>3. table[prog[k].inc] \in 0..Len(prog)
      BY <3>2, <1>2
    <3> QED BY <2>1, <3>1, <3>3, <1>2, <1>6
  <2>2. CASE prog[k].op # "for"
    <3>1. lowered' = lowered
      BY <2>2, <1>4 DEF LowerClose
    <3> QED BY <2>2, <3>1, <1>2, <1>6
  <2> QED BY <2>1, <2>2
<1> QED BY <1>1, <1>2, <1>3, <1>7, LoweringStep

\* An accepted source: everything is closed, nothing is lowered.
LEMMA StartInv ==
  ASSUME Inv, StartLowering
  PROVE  Inv'
<1>1. /\ phase = "validate" /\ nesting = <<>> /\ phase' = "lower" /\ left' = Order
      /\ lowered' = [i \in 1..Len(prog) |-> 0] /\ UNCHANGED srcVars /\ table' = table
  BY DEF StartLowering
<1>2. /\ prog' = prog /\ nesting' = nesting /\ Order' = Order
      /\ Globals' = Globals /\ TopUses' = TopUses /\ Bodies' = Bodies
  BY <1>1, SourceStays
<1>3. Valid /\ table \in [Names -> 0..Len(prog)] /\ \A n \in Names : table[n] = 0
  BY <1>1 DEF Inv, LowerType
<1>4. left' \in [1..4 -> SUBSET (1..Len(prog))]
  <2> DEFINE S == SUBSET (1..Len(prog))
  <2>1. ASSUME NEW T, NEW g \in T, NEW i \in T, NEW o \in T, NEW b \in T
        PROVE  <<g, i, o, b>> \in [1..4 -> T]
    <3>1. \A p \in 1..4 : p = 1 \/ p = 2 \/ p = 3 \/ p = 4
      OBVIOUS
    <3>2. \A p \in 1..4 : <<g, i, o, b>>[p] \in T
      BY <3>1
    <3>3. DOMAIN <<g, i, o, b>> = 1..4 /\ <<g, i, o, b>> = [p \in 1..4 |-> <<g, i, o, b>>[p]]
      OBVIOUS
    <3> QED BY <3>2, <3>3
  <2>2. Globals \in S /\ Initializers \in S /\ Statements \in S /\ Bodies \in S
    BY OrderFacts
  <2> HIDE DEF S
  <2>3. Order \in [1..4 -> S]
    BY <2>1, <2>2 DEF Order
  <2> QED BY <2>3, <1>1 DEF S
<1>5. Passes'
  BY <1>1, <1>2 DEF Passes
<1>6. ASSUME NEW n \in Names PROVE Tabled(n)'
  <2>1. Put(n)' = {}
    BY <1>1, <1>2, OrderFacts DEF Put
  <2> QED BY <2>1, <1>1, <1>3 DEF Tabled
<1>7. Lowered' = {}
  <2>1. TopUses \cup Bodies \subseteq Left'
    BY <1>1, OrderFacts DEF Left
  <2> QED BY <2>1, <1>2 DEF Lowered
<1>8. lowered' \in [1..Len(prog) -> 0..Len(prog)]
  <2>1. Len(prog) \in Nat
    BY <1>3, ValidFacts
  <2> QED BY <2>1, <1>1
<1>9. Progress'
  BY <1>1, <1>2, <1>5, <1>6, <1>7, <1>8 DEF Progress, Referred, LoweredVariables
<1>10. Valid' /\ LowerType'
  BY <1>1, <1>2, <1>3, <1>4, StaysValid DEF LowerType
<1> QED BY <1>1, <1>9, <1>10 DEF Inv

\* The steps of the validator.
LEMMA ValidateInv ==
  ASSUME Inv, Validate
  PROVE  Inv'
<1>1. Valid
  BY DEF Inv
<1>2. Valid' /\ phase = "validate" /\ UNCHANGED lowerVars /\ phase' \in {"validate", "rejected"}
      /\ (prog' = prog \/ \E tok \in Token : prog' = Append(prog, tok))
  <2>1. ASSUME NEW tok \in Decl \cup Signature, Declare(tok)
        PROVE  /\ Valid' /\ phase = "validate" /\ UNCHANGED lowerVars /\ phase' \in {"validate", "rejected"}
               /\ (prog' = prog \/ prog' = Append(prog, tok)) /\ tok \in Token
    BY <1>1, <2>1, DeclareValid DEF Declare, Accept, Reject, srcVars, Token
  <2>2. ASSUME NEW tok \in Function, BeginFunction(tok)
        PROVE  /\ Valid' /\ phase = "validate" /\ UNCHANGED lowerVars /\ phase' \in {"validate", "rejected"}
               /\ (prog' = prog \/ prog' = Append(prog, tok)) /\ tok \in Token
    BY <1>1, <2>2, FunctionValid DEF BeginFunction, Accept, Token
  <2>3. ASSUME NEW tok \in For, BeginFor(tok)
        PROVE  /\ Valid' /\ phase = "validate" /\ UNCHANGED lowerVars /\ phase' \in {"validate", "rejected"}
               /\ (prog' = prog \/ prog' = Append(prog, tok)) /\ tok \in Token
    BY <1>1, <2>3, ForValid DEF BeginFor, Accept, Reject, srcVars, Token
  <2>4. ASSUME NEW tok \in Block, BeginBlock(tok)
        PROVE  /\ Valid' /\ phase = "validate" /\ UNCHANGED lowerVars /\ phase' \in {"validate", "rejected"}
               /\ (prog' = prog \/ prog' = Append(prog, tok)) /\ tok \in Token
    BY <1>1, <2>4, BlockValid DEF BeginBlock, Accept, Token
  <2>5. ASSUME NEW tok, tok = [op |-> "close", of |-> nesting[Len(nesting)]], nesting # <<>>, End(tok)
        PROVE  /\ Valid' /\ phase = "validate" /\ UNCHANGED lowerVars /\ phase' \in {"validate", "rejected"}
               /\ (prog' = prog \/ prog' = Append(prog, tok)) /\ tok \in Token
    <3>1. nesting[Len(nesting)] \in Nat
      BY <1>1, <2>5, ValidFacts, Innermost DEF Open
    <3>2. tok \in Token
      BY <2>5, <3>1 DEF Token, Close
    <3> QED BY <1>1, <2>5, <3>2, EndValid DEF End, Accept
  <2>6. ASSUME NEW tok \in Use, ReadName(tok) \/ AssignName(tok)
        PROVE  /\ Valid' /\ phase = "validate" /\ UNCHANGED lowerVars /\ phase' \in {"validate", "rejected"}
               /\ (prog' = prog \/ prog' = Append(prog, tok)) /\ tok \in Token
    BY <1>1, <2>6, UseValid DEF ReadName, AssignName, Accept, Reject, srcVars, Token
  <2> QED BY <2>1, <2>2, <2>3, <2>4, <2>5, <2>6 DEF Validate
<1>3. left' = left /\ table' = table
  BY <1>2 DEF lowerVars
<1>4. 1..Len(prog) \subseteq 1..Len(prog') /\ 0..Len(prog) \subseteq 0..Len(prog')
  <2>1. \A tok \in Token : Len(Append(prog, tok)) = Len(prog) + 1 /\ Len(prog) \in Nat
    BY <1>1, ValidFacts, AppendFacts
  <2>2. Len(prog) \in Nat /\ (Len(prog') = Len(prog) \/ Len(prog') = Len(prog) + 1)
    BY <2>1, <1>1, <1>2, ValidFacts
  <2> QED BY <2>2
<1>5. LowerType'
  <2>1. left \in [1..4 -> SUBSET (1..Len(prog))] /\ table \in [Names -> 0..Len(prog)]
    BY DEF Inv, LowerType
  <2>2. left' \in [1..4 -> SUBSET (1..Len(prog'))]
    BY <2>1, <1>3, <1>4
  <2>3. table' \in [Names -> 0..Len(prog')]
    BY <2>1, <1>3, <1>4
  <2> QED BY <2>2, <2>3, <1>2 DEF LowerType
<1> QED BY <1>2, <1>3, <1>5 DEF Inv

\* The invariant holds at the beginning.
LEMMA InitInv == Init => Inv
<1> SUFFICES ASSUME Init PROVE Inv
  OBVIOUS
<1>1. /\ prog = <<>> /\ nesting = <<>> /\ bound = <<>> /\ scopes = <<EmptyScope>> /\ phase = "validate"
      /\ left = <<{}, {}, {}, {}>> /\ table = [n \in Names |-> 0]
  BY DEF Init
<1>2. Len(prog) = 0 /\ 1..Len(prog) = {} /\ Len(nesting) = 0 /\ 1..Len(nesting) = {}
  BY <1>1
<1>3. Open = {}
  BY <1>2 DEF Open
<1>4. Nested
  <2>1. prog \in Seq(Token) /\ nesting \in Seq(1..Len(prog))
    BY <1>1
  <2> QED BY <2>1, <1>2, <1>3 DEF Nested
<1>5. Mirror(<<1>>)
  <2>1. Keys = {1}
    BY <1>3 DEF Keys
  <2>2. \A n, m : InScope(n, m) = {}
    BY <1>2 DEF InScope, Seen
  <2>3. <<1>> \in Seq(Nat) /\ Len(<<1>>) = 1 /\ 1 \in 1..1 /\ \A s \in 1..1 : s = 1 /\ <<1>>[s] = 1
    OBVIOUS
  <2>4. Len(scopes) = 1 /\ \A n \in Names : scopes[1][n].id = 0
    <3>1. \A n \in Names : EmptyScope[n].id = 0
      BY Absence DEF EmptyScope
    <3> QED BY <3>1, <1>1
  <2>5. \A n \in Names : \A m : Holds(scopes[1][n].id, InScope(n, m))
    BY <2>2, <2>4 DEF Holds
  <2> QED BY <2>1, <2>3, <2>4, <2>5 DEF Mirror
<1>6. Ready
  <2>1. scopes \in Seq(ScopeType)
    BY <1>1, Absence
  <2> QED BY <2>1, <1>2, <1>4, <1>5 DEF Ready
<1>7. Depths
  <2>1. Wide = {}
    BY <1>2 DEF Wide
  <2>2. Cardinality(Wide) = 0 /\ Len(scopes) = 1
    BY <2>1, <1>1, FS_EmptySet
  <2> QED BY <2>2, <1>2 DEF Depths
<1>8. LexicalBinding
  BY <1>2 DEF LexicalBinding
<1>9. bound \in Seq(Nat) /\ Len(bound) = Len(prog)
  BY <1>1
<1>10. Valid
  BY <1>2, <1>6, <1>7, <1>8, <1>9 DEF Valid
<1>11. LowerType
  <2>1. left \in [1..4 -> SUBSET (1..Len(prog))]
    BY <1>1
  <2>2. table \in [Names -> 0..Len(prog)]
    BY <1>1, <1>2
  <2> QED BY <2>1, <2>2, <1>1 DEF LowerType
<1> QED BY <1>1, <1>10, <1>11 DEF Inv

\* Every step keeps it.
LEMMA NextInv == Inv /\ [Next]_vars => Inv'
<1> SUFFICES ASSUME Inv, [Next]_vars PROVE Inv'
  OBVIOUS
<1>1. CASE Validate
  BY <1>1, ValidateInv
<1>2. CASE StartLowering
  BY <1>2, StartInv
<1>3. ASSUME NEW i \in 1..Len(prog), LowerDeclaration(i) \/ LowerFunction(i) \/ LowerUse(i)
                                       \/ LowerOpen(i) \/ LowerClose(i)
      PROVE  Inv'
  BY <1>3, LowerDeclarationInv, LowerFunctionInv, LowerUseInv, LowerOpenInv, LowerCloseInv
<1>4. CASE UNCHANGED vars
  <2>1. /\ UNCHANGED srcVars /\ phase' = phase /\ left' = left /\ table' = table /\ lowered' = lowered
    BY <1>4 DEF vars, srcVars
  <2>2. /\ prog' = prog /\ nesting' = nesting /\ bound' = bound
        /\ \A n, i : Stores(i, n)' = Stores(i, n)
        /\ \A i : IsUse(i)' = IsUse(i)
        /\ Globals' = Globals /\ TopUses' = TopUses /\ Bodies' = Bodies
        /\ Unhidden' = Unhidden /\ Order' = Order
    BY <2>1, SourceStays
  <2>3. Valid' /\ LowerType'
    BY <2>1, <2>2, StaysValid DEF Inv, LowerType
  <2>4. \A n \in Names : Put(n)' = Put(n) /\ Tabled(n)' = Tabled(n)
    BY <2>1, <2>2 DEF Put, Tabled, Before
  <2>5. LoweredVariables' = LoweredVariables
    BY <2>1, <2>2 DEF LoweredVariables, Lowered, Left
  <2>6. Progress => Progress'
    BY <2>1, <2>2, <2>4, <2>5 DEF Progress, Passes, Referred
  <2> QED BY <2>1, <2>3, <2>6 DEF Inv
<1>5. CASE Stop
  BY <1>4, <1>5 DEF Stop
<1> QED BY <1>1, <1>2, <1>3, <1>4, <1>5 DEF Next, Lower

\* It holds in every behaviour.
LEMMA InvHolds == Spec => []Inv
BY InitInv, NextInv, PTL DEF Spec

\* And gives the types and the size of the stack.
LEMMA InvTypes == Inv => TypeOK
<1> SUFFICES ASSUME Inv PROVE TypeOK
  OBVIOUS
<1>1. Valid /\ LowerType /\ Ready /\ Nested /\ Depths
  BY DEF Inv, Valid, Ready
<1>2. prog \in Seq(Token) /\ nesting \in Seq(1..Len(prog)) /\ Len(prog) \in Nat /\ Len(nesting) \in Nat
  BY <1>1 DEF Nested
<1>3. scopes \in Seq([Names -> [id : 0..Len(prog), type : Types \cup {""}, mut : BOOLEAN]])
  <2>1. PICK at : Mirror(at)
    BY <1>1 DEF Ready
  <2>2. ASSUME NEW s \in 1..Len(scopes), NEW n \in Names
        PROVE  scopes[s][n] \in [id : 0..Len(prog), type : Types \cup {""}, mut : BOOLEAN]
    <3>1. scopes[s][n] \in Entry
      BY <1>1 DEF Ready, ScopeType
    <3>2. Holds(scopes[s][n].id, InScope(n, at[s])) /\ InScope(n, at[s]) \subseteq 1..Len(prog)
      BY <2>1 DEF Mirror, InScope, Seen
    <3>3. scopes[s][n].id \in 0..Len(prog)
      BY <3>2, <1>2 DEF Holds
    <3> QED BY <3>1, <3>3 DEF Entry
  <2>3. \A s \in 1..Len(scopes) : DOMAIN scopes[s] = Names /\ scopes[s] = [n \in Names |-> scopes[s][n]]
    BY <1>1 DEF Ready, ScopeType
  <2>4. \A s \in 1..Len(scopes) :
          scopes[s] \in [Names -> [id : 0..Len(prog), type : Types \cup {""}, mut : BOOLEAN]]
    BY <2>2, <2>3
  <2>5. scopes \in Seq(ScopeType)
    BY <1>1 DEF Ready
  <2> DEFINE T == [Names -> [id : 0..Len(prog), type : Types \cup {""}, mut : BOOLEAN]]
  <2>6. \A s \in 1..Len(scopes) : scopes[s] \in T
    BY <2>4
  <2> HIDE DEF T
  <2>7. scopes \in Seq(T)
    BY <2>5, <2>6
  <2> QED BY <2>7 DEF T
<1>4. bound \in [1..Len(prog) -> 0..Len(prog)]
  <2>1. bound \in Seq(Nat) /\ Len(bound) = Len(prog)
    BY <1>1 DEF Valid
  <2>2. \A i \in 1..Len(prog) : bound[i] \in 0..Len(prog)
    <3> TAKE i \in 1..Len(prog)
    <3>1. bound[i] \in 1..i \/ bound[i] = 0
      BY <1>1 DEF Valid, Visible
    <3> QED BY <3>1, <1>2
  <2> QED BY <2>1, <2>2
<1>5. phase = "lower" => lowered \in [1..Len(prog) -> 0..Len(prog)]
  BY DEF Inv, Progress
<1>6. Len(scopes) = 1 + Len(nesting) + Cardinality({k \in 1..Len(nesting) : prog[nesting[k]].op # "open"})
  BY <1>1 DEF Depths, Wide
<1> QED BY <1>1, <1>2, <1>3, <1>4, <1>5, <1>6 DEF TypeOK, LowerType

\* The variables have their types, and the stack of scopes is as deep as the source is
\* nested: validate_* pushes and pops in pairs.
THEOREM TypesHold == Spec => []TypeOK
BY InvHolds, InvTypes, PTL

\* The scope stack of the validator implements lexical scoping, for every source.
THEOREM BindingHolds == Spec => []LexicalBinding
<1>1. Inv => LexicalBinding
  BY DEF Inv, Valid
<1> QED BY <1>1, InvHolds, PTL

\* The lowering finds a declaration for every variable that the validator resolved a name to.
THEOREM KnownHolds == Spec => []NeverUnknown
<1>1. Inv => NeverUnknown
  BY DEF Inv, Progress, Referred, NeverUnknown
<1> QED BY <1>1, InvHolds, PTL

\* If no variable hides another the lowering finds the one that the validator resolved a name
\* to, though its table is flat and never forgets.
THEOREM UnhiddenHolds == Spec => []UnhiddenBinding
<1>1. Inv => UnhiddenBinding
  BY DEF Inv, Progress, Referred, UnhiddenBinding, SameBinding
<1> QED BY <1>1, InvHolds, PTL
=============================================================================
