-------------------------- MODULE ValueStoreProofs --------------------------
(***************************************************************************)
(* RuntimeValues implements ValueStore: the buffers, with strings that are *)
(* copied, handed over and freed, have value semantics.  The invariant of  *)
(* RuntimeValuesProofs is what makes each step map to the abstract one: a  *)
(* string in a container is freed by no call on another one.               *)
(***************************************************************************)
EXTENDS RuntimeValuesProofs

USE ValuesAssumption

(* What the containers hold stays where the calls do not reach. *)

\* What x means if mem is the memory.
TextIn(mem, x) == IF x.kind = "string" THEN [x EXCEPT !.v = mem[x.v]] ELSE x

LEMMA ArrayMeans ==
    ASSUME NEW a
    PROVE  /\ ArrayOf(a) = [i \in 1..count[a] |-> TextIn(cell, items[a][i])]
           /\ ArrayOf(a)' = [i \in 1..count'[a] |-> TextIn(cell', items'[a][i])]
BY DEF ArrayOf, Text, TextIn

LEMMA ItemMeans ==
    ASSUME NEW a
    PROVE  \A i \in 1..count[a] : ArrayOf(a)[i] = TextIn(cell, items[a][i])
BY ArrayMeans

LEMMA ArrayStays ==
    ASSUME ValuesInv, NEW b \in Arrays, items'[b] = items[b], count'[b] = count[b],
           \A i \in Nat, c \in Cells : ItemIs(b, i, c) => cell'[c] = cell[c]
    PROVE  ArrayOf(b)' = ArrayOf(b)
<1>1. ASSUME NEW i \in 1..count[b]
      PROVE  TextIn(cell', items[b][i]) = TextIn(cell, items[b][i])
  <2>. DEFINE x == items[b][i]
  <2>1. x \in Value /\ i \in Nat
    BY DEF ValuesInv, TypeOK
  <2>2. CASE x.kind = "string"
    <3>1. x.v \in Cells /\ x = String(x.v)
      BY <2>1, <2>2, ValueCell
    <3>2. ItemIs(b, i, x.v)
      BY <3>1 DEF ItemIs
    <3>. QED  BY <2>1, <3>1, <3>2 DEF TextIn
  <2>3. CASE x.kind # "string"
    BY <2>3 DEF TextIn
  <2>. QED  BY <2>2, <2>3
<1>2. ArrayOf(b)' = [i \in 1..count[b] |-> TextIn(cell', items[b][i])]
  BY ArrayMeans
<1>3. ArrayOf(b) = [i \in 1..count[b] |-> TextIn(cell, items[b][i])]
  BY ArrayMeans
<1>. QED  BY <1>1, <1>2, <1>3

LEMMA ObjectStays ==
    ASSUME ValuesInv, KeysDistinct, NEW o \in Objects, entries'[o] = entries[o], size'[o] = size[o],
           \A i \in Nat, c \in Cells : EntryIs(o, i, c) => cell'[c] = cell[c]
    PROVE  ObjectOf(o)' = ObjectOf(o)
<1>1. \A key : Find(o, key)' = Find(o, key)
  BY DEF Find
<1>2. ASSUME NEW key \in Keys, Find(o, key) # 0
      PROVE  Text(entries[o][Find(o, key)].x)' = Text(entries[o][Find(o, key)].x)
  <2>. DEFINE i == Find(o, key)
              x == entries[o][i].x
  <2>1. i \in 1..size[o] /\ i \in Nat
    BY <1>2, FindPlace DEF ValuesInv, TypeOK
  <2>2. x \in Value
    BY <2>1 DEF ValuesInv, TypeOK, Field
  <2>3. x' = x
    BY <1>1
  <2>4. CASE x.kind = "string"
    <3>1. x.v \in Cells /\ x = String(x.v)
      BY <2>2, <2>4, ValueCell
    <3>2. EntryIs(o, i, x.v)
      BY <2>1, <3>1 DEF EntryIs
    <3>3. cell'[x.v] = cell[x.v]
      BY <2>1, <3>1, <3>2
    <3>. QED  BY <2>3, <3>3 DEF Text
  <2>5. CASE x.kind # "string"
    BY <2>3, <2>5 DEF Text
  <2>. QED  BY <2>4, <2>5
<1>. QED  BY <1>1, <1>2 DEF ObjectOf

\* A step that frees nothing and leaves the buffers alone, but that of a.
LEMMA OthersStay ==
    ASSUME ValuesInv, KeysDistinct, NEW a,
           \A c \in Cells : cell[c] # Free => cell'[c] = cell[c],
           \A b \in Arrays : b # a => items'[b] = items[b] /\ count'[b] = count[b],
           UNCHANGED <<entries, size>>
    PROVE  /\ \A b \in Arrays : b # a => ArrayOf(b)' = ArrayOf(b)
           /\ \A o \in Objects : ObjectOf(o)' = ObjectOf(o)
<1>1. ASSUME NEW b \in Arrays, b # a
      PROVE  ArrayOf(b)' = ArrayOf(b)
  <2>1. \A i \in Nat, c \in Cells : ItemIs(b, i, c) => cell'[c] = cell[c]
    BY DEF ValuesInv, OwnedByItem
  <2>. QED  BY <1>1, <2>1, ArrayStays
<1>2. ASSUME NEW o \in Objects
      PROVE  ObjectOf(o)' = ObjectOf(o)
  <2>1. \A i \in Nat, c \in Cells : EntryIs(o, i, c) => cell'[c] = cell[c]
    BY DEF ValuesInv, OwnedByEntry
  <2>. QED  BY <2>1, ObjectStays
<1>. QED  BY <1>1, <1>2

\* The abstract state, and what a step of one array or object makes of it.
Arrayed  == [a \in Arrays |-> ArrayOf(a)]
Objected == [o \in Objects |-> ObjectOf(o)]

LEMMA ArrayReplaced ==
    ASSUME NEW a \in Arrays, \A b \in Arrays : b # a => ArrayOf(b)' = ArrayOf(b),
           \A o \in Objects : ObjectOf(o)' = ObjectOf(o)
    PROVE  Arrayed' = [Arrayed EXCEPT ![a] = ArrayOf(a)'] /\ Objected' = Objected
BY DEF Arrayed, Objected

LEMMA ObjectReplaced ==
    ASSUME NEW o \in Objects, \A u \in Objects : u # o => ObjectOf(u)' = ObjectOf(u),
           \A b \in Arrays : ArrayOf(b)' = ArrayOf(b)
    PROVE  Objected' = [Objected EXCEPT ![o] = ObjectOf(o)'] /\ Arrayed' = Arrayed
BY DEF Arrayed, Objected

\* A read changes nothing of it.
LEMMA NothingChanges ==
    ASSUME ValuesInv, KeysDistinct, UNCHANGED <<items, count, entries, size, cell>>
    PROVE  Arrayed' = Arrayed /\ Objected' = Objected
<1>1. /\ \A b \in Arrays : ArrayOf(b)' = ArrayOf(b)
      /\ \A o \in Objects : ObjectOf(o)' = ObjectOf(o)
  BY ArrayStays, ObjectStays
<1>. QED  BY <1>1 DEF Arrayed, Objected

-----------------------------------------------------------------------------
(* A step of one array. *)

LEMMA MadeTexts ==
    ASSUME TypeOK, NEW x, NEW mem, Made(x, mem)
    PROVE  \A c \in Cells : cell[c] # Free => mem[c] = cell[c]
BY DEF Made, TypeOK

\* What a call keeps of a value is what it was given.
LEMMA GivenText ==
    ASSUME TypeOK, NEW arg \in Args, Fits(arg)
    PROVE  TextIn(Copied(arg), NewValue(arg)) = Given(arg)
<1>1. CASE IsString(arg)
  <2>1. Fresh \in Cells
    BY <1>1 DEF Fits, Fresh, FreeCells
  <2>2. Copied(arg)[Fresh] = ArgText(arg, cell)
    BY <1>1, <2>1 DEF Copied, TypeOK
  <2>3. NewValue(arg) = [kind |-> "string", v |-> Fresh]
    BY <1>1 DEF NewValue
  <2>. QED  BY <1>1, <2>2, <2>3 DEF TextIn, Given
<1>2. CASE ~IsString(arg)
  <2>1. arg \in Scalars
    BY <1>2 DEF Args, IsString
  <2>. QED  BY <1>2, <2>1 DEF TextIn, NewValue, Given
<1>. QED  BY <1>1, <1>2

\* The sequence whose items come from s, as `from` says, and x.
Composed(s, m, from, x) == [i \in 1..m |-> IF from[i] = 0 THEN x ELSE s[from[i]]]

LEMMA ArrayChangeMeans ==
    ASSUME ValuesInv, KeysDistinct, NEW a \in Arrays, NEW buf, NEW n \in Nat,
           NEW old, NEW x, ArrayChange(a, buf, n, old, x)
    PROVE  /\ ArrayOf(a)' = Composed(ArrayOf(a), n, old, TextIn(cell', x))
           /\ Arrayed' = [Arrayed EXCEPT ![a] = ArrayOf(a)'] /\ Objected' = Objected
<1>1. TypeOK /\ count[a] \in Nat
  BY DEF ValuesInv, TypeOK
<1>2. \A c \in Cells : cell[c] # Free => cell'[c] = cell[c]
  BY <1>1, MadeTexts DEF ArrayChange
<1>3. /\ items'[a] = buf /\ count'[a] = n
      /\ \A b \in Arrays : b # a => items'[b] = items[b] /\ count'[b] = count[b]
      /\ UNCHANGED <<entries, size>>
  BY <1>1 DEF ArrayChange, TypeOK
<1>4. \A i \in 1..count[a] : TextIn(cell', items[a][i]) = TextIn(cell, items[a][i])
  <2>1. TAKE i \in 1..count[a]
  <2>. DEFINE y == items[a][i]
  <2>2. y \in Value /\ i \in Nat
    BY <1>1 DEF TypeOK
  <2>3. CASE y.kind = "string"
    <3>1. y.v \in Cells /\ y = String(y.v)
      BY <2>2, <2>3, ValueCell
    <3>2. ItemIs(a, i, y.v)
      BY <3>1 DEF ItemIs
    <3>3. cell'[y.v] = cell[y.v]
      BY <1>2, <2>2, <3>1, <3>2 DEF ValuesInv, OwnedByItem
    <3>. QED  BY <3>3 DEF TextIn
  <2>4. CASE y.kind # "string"
    BY <2>4 DEF TextIn
  <2>. QED  BY <2>3, <2>4
<1>5. \A i \in 1..n : TextIn(cell', buf[i]) =
         IF old[i] = 0 THEN TextIn(cell', x) ELSE ArrayOf(a)[old[i]]
  <2>1. TAKE i \in 1..n
  <2>2. CASE old[i] = 0
    BY <2>2 DEF ArrayChange
  <2>3. CASE old[i] # 0
    <3>1. old[i] \in 1..count[a] /\ buf[i] = items[a][old[i]]
      BY <2>3 DEF ArrayChange
    <3>2. ArrayOf(a)[old[i]] = TextIn(cell, items[a][old[i]])
      BY <3>1, ItemMeans
    <3>. QED  BY <1>4, <2>3, <3>1, <3>2
  <2>. QED  BY <2>2, <2>3
<1>6. ArrayOf(a)' = [i \in 1..n |-> TextIn(cell', buf[i])]
  BY <1>3, ArrayMeans
<1>7. ArrayOf(a)' = Composed(ArrayOf(a), n, old, TextIn(cell', x))
  BY <1>5, <1>6 DEF Composed
<1>8. /\ \A b \in Arrays : b # a => ArrayOf(b)' = ArrayOf(b)
      /\ \A o \in Objects : ObjectOf(o)' = ObjectOf(o)
  BY <1>2, <1>3, OthersStay
<1>. QED  BY <1>7, <1>8, ArrayReplaced

-----------------------------------------------------------------------------
(* The abstract calls, by where each item comes from. *)

LEMMA AppendIs ==
    ASSUME NEW S, NEW s \in Seq(S), NEW x
    PROVE  Append(s, x) = Composed(s, Len(s) + 1, PushedFrom(Len(s)), x)
<1>. DEFINE n == Len(s)
            T == S \cup {x}
            t == Append(s, x)
<1>1. n \in Nat /\ s \in Seq(T) /\ x \in T
  OBVIOUS
<1>2. /\ t \in Seq(T) /\ Len(t) = n + 1 /\ t[n + 1] = x
      /\ \A i \in 1..n : t[i] = s[i]
  <2>. HIDE DEF T
  <2>. QED  BY <1>1, AppendProperties
<1>. HIDE DEF t, n
<1>3. t = [i \in 1..(n + 1) |-> t[i]]
  BY <1>1, <1>2
<1>4. \A i \in 1..(n + 1) : (IF PushedFrom(n)[i] = 0 THEN x ELSE s[PushedFrom(n)[i]]) = t[i]
  <2>1. TAKE i \in 1..(n + 1)
  <2>2. CASE i <= n
    BY <1>1, <1>2, <2>2 DEF PushedFrom
  <2>3. CASE i = n + 1
    BY <1>1, <1>2, <2>3 DEF PushedFrom
  <2>. QED  BY <1>1, <2>2, <2>3
<1>5. t = Composed(s, n + 1, PushedFrom(n), x)
  <2>. DEFINE from == PushedFrom(n)
  <2>1. \A i \in 1..(n + 1) : t[i] = IF from[i] = 0 THEN x ELSE s[from[i]]
    BY <1>4
  <2>. HIDE DEF from
  <2>2. t = [i \in 1..(n + 1) |-> IF from[i] = 0 THEN x ELSE s[from[i]]]
    BY <1>3, <2>1
  <2>. QED  BY <2>2 DEF Composed, from
<1>. QED  BY <1>5 DEF t, n

LEMMA InsertAtIs ==
    ASSUME NEW S, NEW s \in Seq(S), NEW x, NEW at \in 1..(Len(s) + 1)
    PROVE  InsertAt(s, at, x) = Composed(s, Len(s) + 1, InsertedFrom(Len(s), at), x)
<1>. DEFINE n  == Len(s)
            lo == SubSeq(s, 1, at - 1)
            hi == SubSeq(s, at, n)
            t  == lo \o <<x>> \o hi
            T  == S \cup {x}
<1>1. n \in Nat /\ at \in Nat /\ s \in Seq(T) /\ <<x>> \in Seq(T)
  OBVIOUS
<1>2. /\ lo \in Seq(T) /\ Len(lo) = at - 1
      /\ \A i \in 1..(at - 1) : lo[i] = s[i]
  <2>1. 1 \in Int /\ at - 1 \in Int /\ \A i \in 1..(at - 1) : s[i] \in T
    BY <1>1
  <2>. QED  BY <1>1, <2>1, SubSeqProperties
<1>3. /\ hi \in Seq(T) /\ Len(hi) = n - at + 1
      /\ \A i \in 1..(n - at + 1) : hi[i] = s[at + i - 1]
  <2>1. n \in Int /\ at \in Int /\ \A i \in at..n : s[i] \in T
    BY <1>1
  <2>. QED  BY <1>1, <2>1, SubSeqProperties
<1>. HIDE DEF lo, hi, T, n
<1>4. /\ lo \o <<x>> \in Seq(T) /\ Len(lo \o <<x>>) = at
      /\ \A i \in 1..at : (lo \o <<x>>)[i] = IF i < at THEN s[i] ELSE x
  BY <1>1, <1>2
<1>. DEFINE mid == lo \o <<x>>
<1>. HIDE DEF mid
<1>5. /\ t \in Seq(T) /\ Len(t) = n + 1
      /\ \A i \in 1..(n + 1) : t[i] = IF i <= at THEN mid[i] ELSE hi[i - at]
  <2>1. mid \in Seq(T) /\ Len(mid) = at /\ hi \in Seq(T) /\ Len(hi) = n - at + 1
    BY <1>3, <1>4 DEF mid
  <2>2. at <= n + 1
    BY DEF n
  <2>. HIDE DEF t
  <2>3. /\ mid \o hi \in Seq(T) /\ Len(mid \o hi) = n + 1
        /\ \A i \in 1..(n + 1) : (mid \o hi)[i] = IF i <= at THEN mid[i] ELSE hi[i - at]
    <3>1. /\ mid \o hi \in Seq(T) /\ Len(mid \o hi) = Len(mid) + Len(hi)
          /\ \A i \in 1..(Len(mid) + Len(hi)) :
               (mid \o hi)[i] = IF i <= Len(mid) THEN mid[i] ELSE hi[i - Len(mid)]
      BY <2>1, ConcatProperties
    <3>2. Len(mid) + Len(hi) = n + 1
      BY <1>1, <2>1
    <3>. QED  BY <2>1, <3>1, <3>2
  <2>. QED  BY <2>3 DEF mid, t
<1>. HIDE DEF t
<1>6. \A i \in 1..(n + 1) : t[i] = IF i < at THEN s[i] ELSE IF i = at THEN x ELSE s[i - 1]
  <2>1. TAKE i \in 1..(n + 1)
  <2>2. CASE i <= at
    BY <1>1, <1>4, <1>5, <2>2 DEF mid
  <2>3. CASE i > at
    <3>1. i - at \in 1..(n - at + 1) /\ at + (i - at) - 1 = i - 1
      BY <1>1, <2>3
    <3>2. t[i] = hi[i - at]
      BY <1>1, <1>5, <2>3
    <3>. QED  BY <1>1, <1>3, <2>3, <3>1, <3>2
  <2>. QED  BY <1>1, <2>2, <2>3
<1>7. t = [i \in 1..(n + 1) |-> t[i]]
  BY <1>1, <1>5
<1>8. \A i \in 1..(n + 1) :
         (IF InsertedFrom(n, at)[i] = 0 THEN x ELSE s[InsertedFrom(n, at)[i]])
            = IF i < at THEN s[i] ELSE IF i = at THEN x ELSE s[i - 1]
  <2>1. at >= 1
    OBVIOUS
  <2>. QED  BY <1>1, <2>1 DEF InsertedFrom
<1>9. t = Composed(s, n + 1, InsertedFrom(n, at), x)
  <2>. DEFINE from == InsertedFrom(n, at)
  <2>1. \A i \in 1..(n + 1) : t[i] = IF from[i] = 0 THEN x ELSE s[from[i]]
    BY <1>6, <1>8
  <2>. HIDE DEF from
  <2>2. t = [i \in 1..(n + 1) |-> IF from[i] = 0 THEN x ELSE s[from[i]]]
    BY <1>7, <2>1
  <2>. QED  BY <2>2 DEF Composed, from
<1>10. t = InsertAt(s, at, x)
  BY DEF InsertAt, t, lo, hi, n
<1>. QED  BY <1>9, <1>10 DEF n

LEMMA RemoveAtIs ==
    ASSUME NEW S, NEW s \in Seq(S), NEW at \in 1..Len(s), NEW x
    PROVE  RemoveAt(s, at) = Composed(s, Len(s) - 1, TakenFrom(Len(s), at), x)
<1>. DEFINE n  == Len(s)
            lo == SubSeq(s, 1, at - 1)
            hi == SubSeq(s, at + 1, n)
            t  == lo \o hi
<1>1. n \in Nat /\ at \in Nat /\ at <= n /\ 1 <= at
  OBVIOUS
<1>2. /\ lo \in Seq(S) /\ Len(lo) = at - 1
      /\ \A i \in 1..(at - 1) : lo[i] = s[i]
  <2>1. 1 \in Int /\ at - 1 \in Int /\ \A i \in 1..(at - 1) : s[i] \in S
    BY <1>1
  <2>. QED  BY <1>1, <2>1, SubSeqProperties
<1>3. /\ hi \in Seq(S) /\ Len(hi) = n - at
      /\ \A i \in 1..(n - at) : hi[i] = s[at + i]
  <2>. DEFINE f == at + 1
  <2>1. n \in Int /\ f \in Int /\ \A i \in f..n : s[i] \in S
    BY <1>1
  <2>2. /\ hi \in Seq(S) /\ Len(hi) = IF f <= n THEN n - f + 1 ELSE 0
        /\ \A i \in 1..(n - f + 1) : hi[i] = s[f + i - 1]
    <3>. HIDE DEF f
    <3>1. /\ SubSeq(s, f, n) \in Seq(S) /\ Len(SubSeq(s, f, n)) = IF f <= n THEN n - f + 1 ELSE 0
          /\ \A i \in 1..(n - f + 1) : SubSeq(s, f, n)[i] = s[f + i - 1]
      BY <2>1, SubSeqProperties
    <3>. QED  BY <3>1 DEF f
  <2>3. n - f + 1 = n - at /\ \A i \in 1..(n - at) : f + i - 1 = at + i
    BY <1>1
  <2>. HIDE DEF hi, n
  <2>. QED  BY <1>1, <2>2, <2>3
<1>. HIDE DEF lo, hi, n
<1>4. /\ t \in Seq(S) /\ Len(t) = n - 1
      /\ \A i \in 1..(n - 1) : t[i] = IF i <= at - 1 THEN lo[i] ELSE hi[i - (at - 1)]
  <2>. HIDE DEF t
  <2>1. /\ lo \o hi \in Seq(S) /\ Len(lo \o hi) = Len(lo) + Len(hi)
        /\ \A i \in 1..(Len(lo) + Len(hi)) :
             (lo \o hi)[i] = IF i <= Len(lo) THEN lo[i] ELSE hi[i - Len(lo)]
    BY <1>2, <1>3, ConcatProperties
  <2>2. Len(lo) + Len(hi) = n - 1
    BY <1>1, <1>2, <1>3
  <2>3. t = lo \o hi
    BY DEF t
  <2>. QED  BY <1>2, <2>1, <2>2, <2>3
<1>. HIDE DEF t
<1>5. \A i \in 1..(n - 1) : t[i] = IF i < at THEN s[i] ELSE s[i + 1]
  <2>1. TAKE i \in 1..(n - 1)
  <2>2. CASE i < at
    BY <1>1, <1>2, <1>4, <2>2
  <2>3. CASE i >= at
    <3>1. i - (at - 1) \in 1..(n - at) /\ at + (i - (at - 1)) = i + 1
      BY <1>1, <2>3
    <3>2. t[i] = hi[i - (at - 1)]
      BY <1>1, <1>4, <2>3
    <3>. QED  BY <1>1, <1>3, <2>3, <3>1, <3>2
  <2>. QED  BY <1>1, <2>2, <2>3
<1>6. t = [i \in 1..(n - 1) |-> t[i]]
  BY <1>1, <1>4
<1>7. \A i \in 1..(n - 1) :
         (IF TakenFrom(n, at)[i] = 0 THEN x ELSE s[TakenFrom(n, at)[i]])
            = IF i < at THEN s[i] ELSE s[i + 1]
  BY <1>1 DEF TakenFrom
<1>8. t = Composed(s, n - 1, TakenFrom(n, at), x)
  <2>. DEFINE from == TakenFrom(n, at)
  <2>1. \A i \in 1..(n - 1) : t[i] = IF from[i] = 0 THEN x ELSE s[from[i]]
    BY <1>5, <1>7
  <2>. HIDE DEF from
  <2>2. t = [i \in 1..(n - 1) |-> IF from[i] = 0 THEN x ELSE s[from[i]]]
    BY <1>6, <2>1
  <2>. QED  BY <2>2 DEF Composed, from
<1>9. t = RemoveAt(s, at)
  BY DEF RemoveAt, t, lo, hi, n
<1>. QED  BY <1>8, <1>9 DEF n

LEMMA FrontIs ==
    ASSUME NEW S, NEW s \in Seq(S), s # <<>>, NEW x
    PROVE  Front(s) = Composed(s, Len(s) - 1, TakenFrom(Len(s), Len(s)), x)
<1>. DEFINE n == Len(s)
            t == SubSeq(s, 1, n - 1)
<1>1. n \in Nat /\ n >= 1
  OBVIOUS
<1>2. /\ t \in Seq(S) /\ Len(t) = n - 1
      /\ \A i \in 1..(n - 1) : t[i] = s[i]
  <2>. DEFINE m == n - 1
  <2>1. 1 \in Int /\ m \in Int /\ \A i \in 1..m : s[i] \in S
    BY <1>1
  <2>. HIDE DEF n
  <2>2. m \in Nat
    BY <1>1
  <2>. HIDE DEF m
  <2>3. /\ SubSeq(s, 1, m) \in Seq(S) /\ Len(SubSeq(s, 1, m)) = IF 1 <= m THEN m - 1 + 1 ELSE 0
        /\ \A i \in 1..(m - 1 + 1) : SubSeq(s, 1, m)[i] = s[1 + i - 1]
    BY <2>1, SubSeqProperties
  <2>4. t = SubSeq(s, 1, m)
    BY DEF m
  <2>. HIDE DEF t
  <2>5. Len(t) = m /\ t \in Seq(S) /\ \A i \in 1..m : t[i] = s[i]
    BY <2>1, <2>2, <2>3, <2>4
  <2>. QED  BY <2>5 DEF m
<1>. HIDE DEF t, n
<1>3. t = [i \in 1..(n - 1) |-> t[i]]
  BY <1>1, <1>2
<1>4. \A i \in 1..(n - 1) : (IF TakenFrom(n, n)[i] = 0 THEN x ELSE s[TakenFrom(n, n)[i]]) = s[i]
  BY <1>1 DEF TakenFrom
<1>5. t = Composed(s, n - 1, TakenFrom(n, n), x)
  <2>. DEFINE from == TakenFrom(n, n)
  <2>1. \A i \in 1..(n - 1) : t[i] = IF from[i] = 0 THEN x ELSE s[from[i]]
    BY <1>2, <1>4
  <2>. HIDE DEF from
  <2>2. t = [i \in 1..(n - 1) |-> IF from[i] = 0 THEN x ELSE s[from[i]]]
    BY <1>3, <2>1
  <2>. QED  BY <2>2 DEF Composed, from
<1>6. t = Front(s)
  BY DEF Front, t, n
<1>. QED  BY <1>5, <1>6 DEF n

-----------------------------------------------------------------------------
(* Every call on an array is one of the abstract store. *)

LEMMA ArraySeq ==
    ASSUME TypeOK, NEW a \in Arrays
    PROVE  \E S : ArrayOf(a) \in Seq(S) /\ Len(ArrayOf(a)) = count[a] /\ count[a] \in Nat
<1>. DEFINE n == count[a]
            s == ArrayOf(a)
            S == {s[i] : i \in 1..n}
<1>1. n \in Nat /\ s = [i \in 1..n |-> s[i]]
  BY ArrayMeans, ItemMeans DEF TypeOK
<1>. HIDE DEF n, s
<1>2. s \in Seq(S) /\ Len(s) = n
  BY <1>1
<1>. QED  BY <1>1, <1>2 DEF n, s

LEMMA PushImplements ==
    ASSUME IInv, NEW a \in Arrays, NEW arg \in Args, PushItem(a, arg)
    PROVE  Store!StoreStep
<1>. DEFINE n == count[a]
            s == ArrayOf(a)
            x == Given(arg)
<1>1. ValuesInv /\ KeysDistinct /\ TypeOK /\ Fits(arg) /\ cell' = Copied(arg)
  BY DEF IInv, ValuesInv, PushItem
<1>2. PICK S : s \in Seq(S) /\ Len(s) = n /\ n \in Nat /\ n + 1 \in Nat
  BY <1>1, ArraySeq
<1>3. ArrayChange(a, items'[a], n + 1, PushedFrom(n), NewValue(arg))
  BY <1>1, PushChanges
<1>4. TextIn(cell', NewValue(arg)) = x
  BY <1>1, GivenText
<1>5. /\ ArrayOf(a)' = Composed(s, n + 1, PushedFrom(n), TextIn(cell', NewValue(arg)))
      /\ Arrayed' = [Arrayed EXCEPT ![a] = ArrayOf(a)'] /\ Objected' = Objected
  BY <1>1, <1>2, <1>3, ArrayChangeMeans
<1>6. ArrayOf(a)' = Append(s, x)
  BY <1>2, <1>4, <1>5, AppendIs
<1>7. last' = Call("push", <<a, x>>, <<>>) /\ Arrayed[a] = s
  BY DEF PushItem, Arrayed
<1>. HIDE DEF n, s, x
<1>8. Store!PushItem(a, x)
  BY <1>5, <1>6, <1>7 DEF Store!PushItem, Store!Call, Call, Arrayed, Objected
<1>. QED  BY <1>7, <1>8 DEF Store!StoreStep, Call

\* The abstract module has the operators on sequences from a copy of their own.
LEMMA StoreSequences ==
    /\ \A s, i, x : Store!InsertAt(s, i, x) = InsertAt(s, i, x)
    /\ \A s, i : Store!RemoveAt(s, i) = RemoveAt(s, i)
    /\ \A s : Store!Front(s) = Front(s)
BY DEF InsertAt, RemoveAt, Front, Store!InsertAt, Store!RemoveAt, Store!Front

LEMMA InsertImplements ==
    ASSUME IInv, NEW a \in Arrays, NEW arg \in Args, NEW i \in Int, InsertItem(a, i, arg)
    PROVE  Store!StoreStep
<1>. DEFINE n  == count[a]
            s  == ArrayOf(a)
            x  == Given(arg)
            at == InsertIndex(a, i)
<1>1. ValuesInv /\ KeysDistinct /\ TypeOK /\ Fits(arg) /\ cell' = Copied(arg)
  BY DEF IInv, ValuesInv, InsertItem
<1>2. PICK S : s \in Seq(S) /\ Len(s) = n /\ n \in Nat /\ n + 1 \in Nat
  BY <1>1, ArraySeq
<1>3. /\ at \in 0..n
      /\ ArrayChange(a, items'[a], n + 1, InsertedFrom(n, at + 1), NewValue(arg))
  BY <1>1, InsertChanges
<1>4. TextIn(cell', NewValue(arg)) = x
  BY <1>1, GivenText
<1>5. /\ ArrayOf(a)' = Composed(s, n + 1, InsertedFrom(n, at + 1), TextIn(cell', NewValue(arg)))
      /\ Arrayed' = [Arrayed EXCEPT ![a] = ArrayOf(a)'] /\ Objected' = Objected
  BY <1>1, <1>2, <1>3, ArrayChangeMeans
<1>6. at = Store!Clamp(i, Len(s))
  BY <1>2 DEF InsertIndex, Store!Clamp
<1>7. last' = Call("insert", <<a, i, x>>, <<>>) /\ Arrayed[a] = s
  BY DEF InsertItem, Arrayed
<1>. HIDE DEF n, s, x, at
<1>8. at + 1 \in 1..(n + 1)
  BY <1>2, <1>3
<1>9. ArrayOf(a)' = InsertAt(s, at + 1, x)
  BY <1>2, <1>4, <1>5, <1>8, InsertAtIs
<1>10. Arrayed' =
           [Arrayed EXCEPT ![a] = Store!InsertAt(Arrayed[a], Store!Clamp(i, Len(Arrayed[a])) + 1, x)]
  BY <1>5, <1>6, <1>7, <1>9, StoreSequences
<1>11. Store!InsertItem(a, i, x)
  BY <1>5, <1>7, <1>10 DEF Store!InsertItem, Store!Call, Call, Arrayed, Objected
<1>. QED  BY <1>7, <1>11 DEF Store!StoreStep, Call

LEMMA TextMeans ==
    ASSUME NEW x
    PROVE  Text(x) = TextIn(cell, x)
BY DEF Text, TextIn

\* What a pop or a remove yields, and what it leaves.
LEMMA TakeMeans ==
    ASSUME IInv, NEW a \in Arrays, NEW i \in Int, NEW k, Take(a, i), HandedOut(k, Taken(a, i))
    PROVE  /\ Text(Taken(a, i)) = IF i \in 0..(Len(ArrayOf(a)) - 1) THEN ArrayOf(a)[i + 1]
                                  ELSE [kind |-> "i64", v |-> 0]
           /\ Arrayed' = [Arrayed EXCEPT ![a] = ArrayOf(a)'] /\ Objected' = Objected
           /\ IF i \in 0..(Len(ArrayOf(a)) - 1)
              THEN ArrayOf(a)' = Composed(ArrayOf(a), Len(ArrayOf(a)) - 1,
                                          TakenFrom(Len(ArrayOf(a)), i + 1), TextIn(cell', 0))
              ELSE ArrayOf(a)' = ArrayOf(a)
<1>. DEFINE n == count[a]
            s == ArrayOf(a)
<1>1. ValuesInv /\ KeysDistinct /\ TypeOK
  BY DEF IInv, ValuesInv
<1>2. Len(s) = n /\ n \in Nat
  BY <1>1, ArraySeq
<1>3. InRange(a, i) <=> i \in 0..(n - 1)
  BY DEF InRange
<1>4. CASE InRange(a, i)
  <2>1. i + 1 \in 1..n /\ n - 1 \in Nat /\ i \in 0..(Len(s) - 1)
    BY <1>2, <1>3, <1>4
  <2>2. Text(Taken(a, i)) = s[i + 1]
    <3>1. Taken(a, i) = items[a][i + 1]
      BY <1>4 DEF Taken
    <3>. QED  BY <2>1, <3>1, ItemMeans, TextMeans
  <2>3. held' \in Cells \cup {0}
    BY <1>1, TakenCell, HandedOutType
  <2>4. ArrayChange(a, items'[a], n - 1, TakenFrom(n, i + 1), 0)
    BY <1>1, <1>4, <2>3, TakeChanges
  <2>5. /\ ArrayOf(a)' = Composed(s, n - 1, TakenFrom(n, i + 1), TextIn(cell', 0))
        /\ Arrayed' = [Arrayed EXCEPT ![a] = ArrayOf(a)'] /\ Objected' = Objected
    BY <1>1, <2>1, <2>4, ArrayChangeMeans
  <2>. HIDE DEF n, s
  <2>6. ArrayOf(a)' = Composed(s, Len(s) - 1, TakenFrom(Len(s), i + 1), TextIn(cell', 0))
    BY <1>2, <2>5
  <2>. QED  BY <2>1, <2>2, <2>5, <2>6 DEF s
<1>5. CASE ~InRange(a, i)
  <2>1. UNCHANGED <<items, count, entries, size, cell>>
    BY <1>1, <1>5 DEF Take, TypeOK
  <2>2. Taken(a, i) = [kind |-> "i64", v |-> 0]
    BY <1>5 DEF Taken
  <2>3. Text(Taken(a, i)) = [kind |-> "i64", v |-> 0]
    BY <2>2 DEF Text
  <2>4. Arrayed' = Arrayed /\ Objected' = Objected /\ ArrayOf(a)' = ArrayOf(a)
    <3>1. Arrayed' = Arrayed /\ Objected' = Objected
      BY <1>1, <2>1, NothingChanges
    <3>. QED  BY <3>1 DEF Arrayed
  <2>5. Arrayed = [Arrayed EXCEPT ![a] = ArrayOf(a)]
    BY DEF Arrayed
  <2>6. ~(i \in 0..(Len(s) - 1))
    BY <1>2, <1>3, <1>5
  <2>. QED  BY <2>3, <2>4, <2>5, <2>6
<1>. QED  BY <1>4, <1>5

LEMMA RemoveImplements ==
    ASSUME IInv, NEW a \in Arrays, NEW i \in Int, NEW k, RemoveItem(a, i, k)
    PROVE  Store!StoreStep
<1>. DEFINE s    == ArrayOf(a)
            n    == Len(s)
            y    == IF i \in 0..(n - 1) THEN s[i + 1] ELSE [kind |-> "i64", v |-> 0]
<1>1. Take(a, i) /\ HandedOut(k, Taken(a, i))
  BY DEF RemoveItem
<1>2. /\ Text(Taken(a, i)) = y
      /\ Arrayed' = [Arrayed EXCEPT ![a] = ArrayOf(a)'] /\ Objected' = Objected
      /\ IF i \in 0..(n - 1)
         THEN ArrayOf(a)' = Composed(s, n - 1, TakenFrom(n, i + 1), TextIn(cell', 0))
         ELSE ArrayOf(a)' = s
  BY <1>1, TakeMeans
<1>3. last' = Call("remove", <<a, i, k>>, Store!As(k, Text(Taken(a, i)), "[array]"))
  BY DEF RemoveItem
<1>4. PICK S : s \in Seq(S) /\ n \in Nat
  BY ArraySeq DEF IInv, ValuesInv
<1>5. Arrayed[a] = s /\ Store!Taken(a, i) = y
  BY DEF Arrayed, Store!Taken, Store!I64
<1>6. ArrayOf(a)' = IF i \in 0..(n - 1) THEN RemoveAt(s, i + 1) ELSE s
  <2>1. CASE i \in 0..(n - 1)
    <3>1. i + 1 \in 1..n
      BY <1>4, <2>1
    <3>. QED  BY <1>2, <1>4, <2>1, <3>1, RemoveAtIs
  <2>2. CASE ~(i \in 0..(n - 1))
    BY <1>2, <2>2
  <2>. QED  BY <2>1, <2>2
<1>7. last' = Call("remove", <<a, i, k>>, Store!As(k, Store!Taken(a, i), "[array]"))
  BY <1>2, <1>3, <1>5
<1>. HIDE DEF s, y
<1>8. Arrayed' = [Arrayed EXCEPT ![a] = IF i \in 0..(Len(Arrayed[a]) - 1)
                                         THEN Store!RemoveAt(Arrayed[a], i + 1) ELSE Arrayed[a]]
  BY <1>2, <1>5, <1>6, StoreSequences
<1>9. Store!RemoveItem(a, i, k)
  BY <1>2, <1>7, <1>8 DEF Store!RemoveItem, Store!Call, Call, Arrayed, Objected
<1>. QED  BY <1>7, <1>9 DEF Store!StoreStep, Call

LEMMA PopImplements ==
    ASSUME IInv, NEW a \in Arrays, NEW k, PopItem(a, k)
    PROVE  Store!StoreStep
<1>. DEFINE s == ArrayOf(a)
            n == Len(s)
            i == n - 1
            y == IF i \in 0..(n - 1) THEN s[i + 1] ELSE [kind |-> "i64", v |-> 0]
<1>1. PICK S : s \in Seq(S) /\ n \in Nat /\ i \in Int /\ n = count[a]
  BY ArraySeq DEF IInv, ValuesInv
<1>2. /\ Take(a, i) /\ HandedOut(k, Taken(a, i))
      /\ last' = Call("pop", <<a, k>>, Store!As(k, Text(Taken(a, i)), "[array]"))
  <2>1. count[a] - 1 = i
    BY <1>1
  <2>. QED  BY <2>1 DEF PopItem
<1>. HIDE DEF i
<1>3. /\ Text(Taken(a, i)) = y
      /\ Arrayed' = [Arrayed EXCEPT ![a] = ArrayOf(a)'] /\ Objected' = Objected
      /\ IF i \in 0..(n - 1)
         THEN ArrayOf(a)' = Composed(s, n - 1, TakenFrom(n, i + 1), TextIn(cell', 0))
         ELSE ArrayOf(a)' = s
  BY <1>1, <1>2, TakeMeans
<1>4. Arrayed[a] = s /\ Store!Taken(a, Len(Arrayed[a]) - 1) = y
  BY DEF Arrayed, Store!Taken, Store!I64, i
<1>5. ArrayOf(a)' = IF s = <<>> THEN s ELSE Front(s)
  <2>1. CASE s # <<>>
    <3>1. i \in 0..(n - 1) /\ i + 1 = n
      BY <1>1, <2>1 DEF i
    <3>. QED  BY <1>1, <1>3, <2>1, <3>1, FrontIs
  <2>2. CASE s = <<>>
    <3>1. i \notin 0..(n - 1)
      BY <2>2 DEF i
    <3>. QED  BY <1>3, <2>2, <3>1
  <2>. QED  BY <2>1, <2>2
<1>6. last' = Call("pop", <<a, k>>, Store!As(k, Store!Taken(a, Len(Arrayed[a]) - 1), "[array]"))
  BY <1>2, <1>3, <1>4
<1>. HIDE DEF s, y
<1>7. Arrayed' = [Arrayed EXCEPT ![a] =
                     IF Arrayed[a] = <<>> THEN Arrayed[a] ELSE Store!Front(Arrayed[a])]
  BY <1>3, <1>4, <1>5, StoreSequences
<1>8. Store!PopItem(a, k)
  BY <1>3, <1>6, <1>7 DEF Store!PopItem, Store!Call, Call, Arrayed, Objected
<1>. QED  BY <1>6, <1>8 DEF Store!StoreStep, Call

LEMMA GetImplements ==
    ASSUME IInv, NEW a \in Arrays, NEW i \in Int, NEW k, GetItem(a, i, k)
    PROVE  Store!StoreStep
<1>. DEFINE s == ArrayOf(a)
<1>1. ValuesInv /\ KeysDistinct /\ TypeOK
  BY DEF IInv, ValuesInv
<1>2. Len(s) = count[a] /\ count[a] \in Nat
  BY <1>1, ArraySeq
<1>3. Arrayed' = Arrayed /\ Objected' = Objected
  <2>1. UNCHANGED <<items, count, entries, size, cell>>
    BY DEF GetItem
  <2>. QED  BY <1>1, <2>1, NothingChanges
<1>4. last' = Call("get", <<a, i, k>>, IF i \in 0..(Len(Arrayed[a]) - 1)
                                       THEN Store!As(k, Arrayed[a][i + 1], "[array]")
                                       ELSE Store!Nothing(k))
  <2>1. Arrayed[a] = s
    BY DEF Arrayed
  <2>2. InRange(a, i) <=> i \in 0..(Len(s) - 1)
    BY <1>2 DEF InRange
  <2>3. InRange(a, i) => Text(items[a][i + 1]) = s[i + 1]
    <3>1. InRange(a, i) => i + 1 \in 1..count[a]
      BY <1>2 DEF InRange
    <3>. QED  BY <3>1, ItemMeans, TextMeans
  <2>4. last' = Call("get", <<a, i, k>>, IF InRange(a, i)
                                         THEN Store!As(k, Text(items[a][i + 1]), "[array]")
                                         ELSE Store!Nothing(k))
    BY DEF GetItem
  <2>. HIDE DEF s
  <2>5. CASE InRange(a, i)
    BY <2>1, <2>2, <2>3, <2>4, <2>5
  <2>6. CASE ~InRange(a, i)
    BY <2>1, <2>2, <2>4, <2>6
  <2>. QED  BY <2>5, <2>6
<1>5. Store!GetItem(a, i, k)
  BY <1>3, <1>4 DEF Store!GetItem, Store!Call, Call, Arrayed, Objected
<1>. QED  BY <1>4, <1>5 DEF Store!StoreStep, Call

\* A clear frees strings that no other array or object holds.
LEMMA ClearImplements ==
    ASSUME IInv, NEW a \in Arrays, ClearItems(a)
    PROVE  Store!StoreStep
<1>1. ValuesInv /\ KeysDistinct /\ TypeOK
  BY DEF IInv, ValuesInv
<1>2. /\ cell' = [p \in Cells |-> IF p \in Strings(a) THEN Free ELSE cell[p]]
      /\ count' = [count EXCEPT ![a] = 0] /\ UNCHANGED <<entries, size>>
      /\ \A b \in Arrays : b # a => items'[b] = items[b]
      /\ last' = Call("clear", <<a>>, <<>>)
  BY <1>1 DEF ClearItems, TypeOK
<1>3. /\ count'[a] = 0
      /\ \A b \in Arrays : b # a => items'[b] = items[b] /\ count'[b] = count[b]
  BY <1>1, <1>2 DEF TypeOK
<1>4. \A c \in Cells : c \in Strings(a) <=> \E i \in Nat : ItemIs(a, i, c)
  BY <1>1, StringsHeld
<1>5. ASSUME NEW b \in Arrays, b # a
      PROVE  ArrayOf(b)' = ArrayOf(b)
  <2>1. \A i \in Nat, c \in Cells : ItemIs(b, i, c) => cell'[c] = cell[c]
    BY <1>1, <1>2, <1>4, <1>5 DEF ValuesInv, OwnedByItem
  <2>. QED  BY <1>1, <1>3, <1>5, <2>1, ArrayStays
<1>6. ASSUME NEW o \in Objects
      PROVE  ObjectOf(o)' = ObjectOf(o)
  <2>1. \A i \in Nat, c \in Cells : EntryIs(o, i, c) => cell'[c] = cell[c]
    BY <1>1, <1>2, <1>4 DEF ValuesInv, OwnedApart
  <2>. QED  BY <1>1, <1>2, <2>1, ObjectStays
<1>7. ArrayOf(a)' = <<>>
  <2>1. ArrayOf(a)' = [i \in 1..0 |-> TextIn(cell', items'[a][i])]
    BY <1>3, ArrayMeans
  <2>. QED  BY <2>1
<1>8. Arrayed' = [Arrayed EXCEPT ![a] = <<>>] /\ Objected' = Objected
  BY <1>5, <1>6, <1>7, ArrayReplaced
<1>9. Store!ClearItems(a)
  BY <1>2, <1>8 DEF Store!ClearItems, Store!Call, Call, Arrayed, Objected
<1>. QED  BY <1>2, <1>9 DEF Store!StoreStep, Call

\* Memory that is not to be had, and a command that is given no string.
LEMMA LostImplements ==
    ASSUME IInv, last' = Call("lost", <<>>, <<>>), UNCHANGED <<items, count, entries, size, cell>>
    PROVE  Store!StoreStep
<1>1. Arrayed' = Arrayed /\ Objected' = Objected
  BY NothingChanges DEF IInv
<1>2. Store!Lost
  BY <1>1 DEF Store!Lost, Store!Call, Call, Arrayed, Objected
<1>. QED  BY <1>2 DEF Store!StoreStep, Call

LEMMA SliceImplements ==
    ASSUME IInv, NEW a \in Arrays, NEW b \in Arrays, NEW i \in Int, NEW j \in Int,
           SliceItems(a, i, j, b)
    PROVE  Store!StoreStep
<1>. DEFINE s   == ArrayOf(a)
            n   == count[a]
            lo  == InsertIndex(a, i)
            hi  == InsertIndex(a, j)
            part == SubSeq(items[a], lo + 1, hi)
            cut == SubSeq(s, lo + 1, hi)
<1>1. ValuesInv /\ KeysDistinct /\ TypeOK
  BY DEF IInv, ValuesInv
<1>2. PICK S : s \in Seq(S) /\ Len(s) = n /\ n \in Nat
  BY <1>1, ArraySeq
<1>3. lo \in 0..n /\ hi \in 0..n /\ lo = Store!Clamp(i, Len(s)) /\ hi = Store!Clamp(j, Len(s))
  BY <1>2 DEF InsertIndex, Store!Clamp
<1>5. /\ Len(cut) = Len(part) /\ Len(part) \in Nat /\ cut = [m \in 1..Len(part) |-> cut[m]]
      /\ \A m \in 1..Len(part) : cut[m] = TextIn(cell, part[m])
  <2>. DEFINE f == lo + 1
              q == items[a]
  <2>1. f \in Int /\ hi \in Int /\ f >= 1 /\ hi <= n /\ q \in Seq(Value \cup {Junk}) /\ n <= Len(q)
    BY <1>1, <1>3, <1>2 DEF TypeOK
  <2>2. \A m \in f..hi : m \in 1..n /\ s[m] \in S /\ q[m] \in Value
    <3>. HIDE DEF f, hi
    <3>1. \A m \in f..hi : m \in 1..n
      BY <1>2, <2>1
    <3>2. \A m \in 1..n : s[m] \in S
      BY <1>2
    <3>3. \A m \in 1..n : q[m] \in Value
      BY <1>1 DEF TypeOK
    <3>. QED  BY <3>1, <3>2, <3>3
  <2>3. \A m \in 1..n : s[m] = TextIn(cell, q[m])
    BY ItemMeans
  <2>. HIDE DEF f, hi, q, s, n
  <2>4. /\ SubSeq(q, f, hi) \in Seq(Value) /\ Len(SubSeq(q, f, hi)) = IF f <= hi THEN hi - f + 1 ELSE 0
        /\ \A m \in 1..(hi - f + 1) : SubSeq(q, f, hi)[m] = q[f + m - 1]
    BY <2>1, <2>2, SubSeqProperties
  <2>5. /\ SubSeq(s, f, hi) \in Seq(S) /\ Len(SubSeq(s, f, hi)) = IF f <= hi THEN hi - f + 1 ELSE 0
        /\ \A m \in 1..(hi - f + 1) : SubSeq(s, f, hi)[m] = s[f + m - 1]
    BY <2>1, <2>2, SubSeqProperties
  <2>6. part = SubSeq(q, f, hi) /\ cut = SubSeq(s, f, hi)
    BY DEF f, q
  <2>. HIDE DEF part, cut
  <2>7. Len(cut) = Len(part) /\ Len(part) \in Nat /\ cut = [m \in 1..Len(part) |-> cut[m]]
    <3>1. part \in Seq(Value) /\ cut \in Seq(S) /\ Len(cut) = Len(part)
      BY <2>4, <2>5, <2>6
    <3>. QED  BY <3>1
  <2>8. \A m \in 1..Len(part) : f + m - 1 \in f..hi /\ m \in 1..(hi - f + 1)
    BY <2>1, <2>4, <2>6
  <2>9. \A m \in 1..Len(part) : cut[m] = TextIn(cell, part[m])
    BY <2>2, <2>3, <2>4, <2>5, <2>6, <2>8
  <2>. QED  BY <2>7, <2>9
<1>4. PICK src \in Pushed(part) :
         b # a /\ Filled(b, src) /\ last' = Call(IF src = part THEN "slice" ELSE "short", <<a, i, j>>, b)
  BY DEF SliceItems
<1>14. PICK home : SliceFrom(a, b, src, home)
  BY <1>1, <1>4, PushedFromArray, SliceCopies
<1>. HIDE DEF part, cut
<1>15. PICK from \in Store!Thinnings(Len(part)) :
          /\ src = [m \in DOMAIN from |-> part[from[m]]]
          /\ Len(src) \in 0..Len(part) /\ DOMAIN from = 1..Len(src)
          /\ \A m \in 1..Len(src) : from[m] \in 1..Len(part) /\ src[m] = part[from[m]]
  BY <1>4, <1>5, PushedItems
<1>16. \A m \in 1..Len(src) : cut[from[m]] = TextIn(cell, src[m])
  BY <1>5, <1>15
<1>6. /\ \A c \in Cells : cell[c] # Free => cell'[c] = cell[c]
      /\ \A d \in Arrays : d # b => items'[d] = items[d] /\ count'[d] = count[d]
      /\ count'[b] = Len(src) /\ UNCHANGED <<entries, size>>
  BY <1>1, <1>14 DEF SliceFrom, TypeOK
<1>7. \A m \in 1..Len(src) : TextIn(cell', items'[b][m]) = TextIn(cell, src[m])
  <2>1. TAKE m \in 1..Len(src)
  <2>2. CASE src[m].kind = "string"
    <3>1. items'[b][m] = String(home[m]) /\ cell'[home[m]] = cell[src[m].v] /\ src[m] \in Value
      BY <1>14, <2>2 DEF SliceFrom
    <3>2. src[m] = String(src[m].v)
      BY <2>2, <3>1, ValueCell
    <3>3. TextIn(cell', String(home[m])) = String(cell'[home[m]])
      BY DEF TextIn, String
    <3>4. TextIn(cell, String(src[m].v)) = String(cell[src[m].v])
      BY DEF TextIn, String
    <3>. QED  BY <3>1, <3>2, <3>3, <3>4
  <2>3. CASE src[m].kind # "string"
    <3>1. items'[b][m] = src[m]
      BY <1>14, <2>3 DEF SliceFrom
    <3>. QED  BY <2>3, <3>1 DEF TextIn
  <2>. QED  BY <2>2, <2>3
<1>. DEFINE left == [m \in DOMAIN from |-> cut[from[m]]]
<1>8. ArrayOf(b)' = left
  <2>1. ArrayOf(b)' = [m \in 1..Len(src) |-> TextIn(cell', items'[b][m])]
    BY <1>6, ArrayMeans
  <2>2. \A m \in 1..Len(src) : TextIn(cell', items'[b][m]) = cut[from[m]]
    BY <1>7, <1>16
  <2>3. left = [m \in 1..Len(src) |-> cut[from[m]]]
    BY <1>15
  <2>. QED  BY <2>1, <2>2, <2>3
<1>9. /\ \A d \in Arrays : d # b => ArrayOf(d)' = ArrayOf(d)
      /\ \A o \in Objects : ObjectOf(o)' = ObjectOf(o)
  BY <1>1, <1>6, OthersStay
<1>. HIDE DEF left
<1>10. Arrayed' = [Arrayed EXCEPT ![b] = left] /\ Objected' = Objected
  BY <1>8, <1>9, ArrayReplaced
<1>11. cut = SubSeq(Arrayed[a], Store!Clamp(i, Len(Arrayed[a])) + 1, Store!Clamp(j, Len(Arrayed[a])))
  BY <1>3 DEF Arrayed, cut
<1>. HIDE DEF s, n, lo, hi
<1>12. Store!Slice(a, i, j) = cut
  BY <1>11 DEF Store!Slice, Arrayed
<1>13. CASE src = part
  <2>1. left = cut
    <3>1. left = [m \in 1..Len(src) |-> cut[from[m]]]
      BY <1>15 DEF left
    <3>2. \A m \in 1..Len(src) : cut[from[m]] = cut[m]
      BY <1>5, <1>13, <1>16
    <3>. QED  BY <1>5, <1>13, <3>1, <3>2
  <2>2. last' = Call("slice", <<a, i, j>>, b)
    BY <1>4, <1>13
  <2>3. Store!SliceItems(a, i, j, b)
    BY <1>10, <1>12, <2>1, <2>2 DEF Store!SliceItems, Store!Call, Call, Arrayed, Objected
  <2>. QED  BY <2>2, <2>3 DEF Store!StoreStep, Call
<1>17. CASE src # part
  <2>1. last' = Call("short", <<a, i, j>>, b)
    BY <1>4, <1>17
  <2>2. left = [m \in DOMAIN from |-> Store!Slice(a, i, j)[from[m]]]
        /\ from \in Store!Thinnings(Len(Store!Slice(a, i, j)))
    BY <1>5, <1>12, <1>15 DEF left
  <2>3. Store!ShortSlice(a, i, j, b)
    BY <1>10, <2>1, <2>2 DEF Store!ShortSlice, Store!Call, Call, Arrayed, Objected
  <2>. QED  BY <2>1, <2>3 DEF Store!StoreStep, Call
<1>. QED  BY <1>13, <1>17

-----------------------------------------------------------------------------
(* A step of one object. *)

\* adn_object_find_entry in a buffer of n entries.
FindIn(buf, n, key) ==
    LET at == {i \in 1..n : buf[i].key = key}
    IN  IF at = {} THEN 0 ELSE CHOOSE i \in at : \A j \in at : i <= j

LEMMA FindMeans ==
    ASSUME NEW o, NEW key
    PROVE  /\ Find(o, key) = FindIn(entries[o], size[o], key)
           /\ Find(o, key)' = FindIn(entries'[o], size'[o], key)
BY DEF Find, FindIn

LEMMA FindInIs ==
    ASSUME NEW buf, NEW n \in Nat, NEW key, NEW i \in 1..n, buf[i].key = key,
           \A j \in 1..n : buf[j].key = key => j = i
    PROVE  FindIn(buf, n, key) = i
<1>. DEFINE at == {j \in 1..n : buf[j].key = key}
<1>1. at = {i}
  OBVIOUS
<1>2. FindIn(buf, n, key) = CHOOSE k \in at : \A j \in at : k <= j
  BY <1>1 DEF FindIn
<1>. HIDE DEF at
<1>. QED  BY <1>1, <1>2

\* The memory of an entry that is not the changed one stays, and that of the items; and the
\* string that is new is not the one that is freed.
LEMMA ObjectChangeCells ==
    ASSUME ValuesInv, NEW o \in Objects, NEW key, NEW x, NEW mem,
           NEW buf, NEW n \in Nat, NEW at, ObjectChange(o, at, key, x, mem, buf, n)
    PROVE  /\ \A u \in Objects, i \in Nat, c \in Cells :
                 EntryIs(u, i, c) /\ (u # o \/ i # at) => cell'[c] = cell[c]
           /\ \A a \in Arrays, i \in Nat, c \in Cells : ItemIs(a, i, c) => cell'[c] = cell[c]
           /\ TextIn(cell', x) = TextIn(mem, x)
<1>1. TypeOK /\ size[o] \in Nat /\ at \in Nat /\ Made(x, mem)
  BY DEF ValuesInv, TypeOK, ObjectChange
<1>2. \A c \in Cells : cell[c] # Free => mem[c] = cell[c]
  BY <1>1, MadeTexts
<1>3. /\ \A u \in Objects, i \in Nat, c \in Cells : EntryIs(u, i, c) => mem[c] = cell[c]
      /\ \A a \in Arrays, i \in Nat, c \in Cells : ItemIs(a, i, c) => mem[c] = cell[c]
  BY <1>2 DEF ValuesInv, OwnedByItem, OwnedByEntry
<1>4. CASE cell' = mem
  BY <1>3, <1>4
<1>5. ASSUME at \in 1..size[o], cell' = Released(mem, entries[o][at].x), cell' # mem
      PROVE  /\ \A u \in Objects, i \in Nat, c \in Cells :
                   EntryIs(u, i, c) /\ (u # o \/ i # at) => cell'[c] = cell[c]
             /\ \A a \in Arrays, i \in Nat, c \in Cells : ItemIs(a, i, c) => cell'[c] = cell[c]
             /\ TextIn(cell', x) = TextIn(mem, x)
  <2>. DEFINE y == entries[o][at].x
  <2>1. y \in Value /\ y.kind = "string" /\ cell' = [mem EXCEPT ![y.v] = Free]
    BY <1>1, <1>5 DEF TypeOK, Field, Released
  <2>2. y.v \in Cells /\ y = String(y.v)
    BY <2>1, ValueCell
  <2>3. EntryIs(o, at, y.v)
    BY <1>5, <2>2 DEF EntryIs
  <2>. DEFINE r == y.v
  <2>. HIDE DEF y
  <2>4. mem \in [Cells -> Literals \cup {Free}]
    BY <1>1, MadeType
  <2>5. \A c \in Cells : c # r => cell'[c] = mem[c]
    BY <2>1, <2>4
  <2>. HIDE DEF r
  <2>6. EntryIs(o, at, r) /\ r \in Cells /\ cell[r] # Free
    BY <1>1, <2>2, <2>3 DEF r, ValuesInv, OwnedByEntry
  <2>7. \A u \in Objects, i \in Nat : EntryIs(u, i, r) => u = o /\ i = at
    BY <1>1, <2>6 DEF ValuesInv, OwnedByEntry
  <2>8. \A a \in Arrays, i \in Nat : ~ItemIs(a, i, r)
    BY <1>1, <2>6 DEF ValuesInv, OwnedApart
  <2>9. TextIn(cell', x) = TextIn(mem, x)
    <3>1. CASE x \in Scalars
      BY <3>1 DEF TextIn
    <3>2. ASSUME NEW p \in Cells, cell[p] = Free, x = [kind |-> "string", v |-> p]
          PROVE  TextIn(cell', x) = TextIn(mem, x)
      <4>1. cell'[p] = mem[p]
        BY <2>5, <2>6, <3>2
      <4>. QED  BY <3>2, <4>1 DEF TextIn
    <3>. QED  BY <1>1, <3>1, <3>2 DEF Made
  <2>. QED  BY <1>3, <2>5, <2>7, <2>8, <2>9
<1>. QED  BY <1>4, <1>5 DEF ObjectChange

LEMMA ObjectMeans ==
    ASSUME NEW o
    PROVE  /\ ObjectOf(o) = [key \in Keys |-> IF Find(o, key) = 0 THEN [kind |-> "absent"]
                                              ELSE TextIn(cell, entries[o][Find(o, key)].x)]
           /\ ObjectOf(o)' = [key \in Keys |->
                                 IF FindIn(entries'[o], size'[o], key) = 0 THEN [kind |-> "absent"]
                                 ELSE TextIn(cell', entries'[o][FindIn(entries'[o], size'[o], key)].x)]
<1>1. ObjectOf(o) = [key \in Keys |-> IF Find(o, key) = 0 THEN [kind |-> "absent"]
                                      ELSE TextIn(cell, entries[o][Find(o, key)].x)]
  BY DEF ObjectOf, Text, TextIn
<1>2. ObjectOf(o)' = [key \in Keys |->
                         IF Find(o, key)' = 0 THEN [kind |-> "absent"]
                         ELSE TextIn(cell', entries'[o][Find(o, key)'].x)]
  BY DEF ObjectOf, Text, TextIn
<1>. QED  BY <1>1, <1>2, FindMeans

LEMMA ObjectChangeMeans ==
    ASSUME ValuesInv, KeysDistinct, NEW o \in Objects, NEW key \in Keys, NEW x, NEW mem,
           NEW buf, NEW n \in Nat, NEW at, ObjectChange(o, at, key, x, mem, buf, n),
           \A i \in 1..size[o] : entries[o][i].key = key <=> i = at
    PROVE  /\ ObjectOf(o)' = [ObjectOf(o) EXCEPT ![key] = TextIn(mem, x)]
           /\ Objected' = [Objected EXCEPT ![o] = ObjectOf(o)'] /\ Arrayed' = Arrayed
<1>. DEFINE q == entries[o]
<1>1. TypeOK /\ size[o] \in Nat /\ at \in Nat /\ at # 0
  BY DEF ValuesInv, TypeOK, ObjectChange
<1>2. /\ entries'[o] = buf /\ size'[o] = n
      /\ \A u \in Objects : u # o => entries'[u] = entries[u] /\ size'[u] = size[u]
      /\ \A a \in Arrays : items'[a] = items[a] /\ count'[a] = count[a]
  BY <1>1 DEF ObjectChange, TypeOK
<1>3. /\ \A u \in Objects, i \in Nat, c \in Cells :
            EntryIs(u, i, c) /\ (u # o \/ i # at) => cell'[c] = cell[c]
      /\ \A a \in Arrays, i \in Nat, c \in Cells : ItemIs(a, i, c) => cell'[c] = cell[c]
      /\ TextIn(cell', x) = TextIn(mem, x)
  BY ObjectChangeCells
<1>4. /\ at \in 1..n /\ size[o] <= n /\ buf[at].key = key /\ buf[at].x = x
      /\ \A i \in 1..n : i # at => i \in 1..size[o] /\ buf[i] = q[i]
  BY DEF ObjectChange
<1>5. FindIn(buf, n, key) = at
  <2>1. \A j \in 1..n : buf[j].key = key => j = at
    BY <1>4
  <2>. QED  BY <1>4, <2>1, FindInIs
<1>6. ASSUME NEW k, k # key
      PROVE  FindIn(buf, n, k) = Find(o, k) /\ Find(o, k) # at
  <2>. DEFINE A == {i \in 1..n : buf[i].key = k}
              B == {i \in 1..size[o] : q[i].key = k}
  <2>1. \A i \in 1..n : buf[i].key = k => i \in 1..size[o] /\ q[i].key = k
    BY <1>4, <1>6
  <2>2. \A i \in 1..size[o] : q[i].key = k => i \in 1..n /\ buf[i].key = k
    BY <1>1, <1>4, <1>6
  <2>3. A = B
    BY <2>1, <2>2
  <2>4. /\ FindIn(buf, n, k) = IF A = {} THEN 0 ELSE CHOOSE i \in A : \A j \in A : i <= j
        /\ Find(o, k) = IF B = {} THEN 0 ELSE CHOOSE i \in B : \A j \in B : i <= j
    BY DEF FindIn, Find
  <2>5. Find(o, k) # at
    <3>1. Find(o, k) # 0 => Find(o, k) \in 1..size[o] /\ q[Find(o, k)].key = k
      BY <1>1, FindPlace
    <3>. QED  BY <1>1, <1>6, <3>1
  <2>. HIDE DEF A, B
  <2>. QED  BY <2>3, <2>4, <2>5
<1>7. ASSUME NEW k \in Keys, k # key
      PROVE  ObjectOf(o)'[k] = ObjectOf(o)[k]
  <2>. DEFINE i == Find(o, k)
  <2>1. ObjectOf(o)'[k] = IF i = 0 THEN [kind |-> "absent"] ELSE TextIn(cell', buf[i].x)
    BY <1>2, <1>6, <1>7, ObjectMeans
  <2>2. ObjectOf(o)[k] = IF i = 0 THEN [kind |-> "absent"] ELSE TextIn(cell, q[i].x)
    BY ObjectMeans
  <2>3. i # at
    BY <1>6, <1>7
  <2>4. i # 0 => i \in 1..size[o]
    BY <1>1, FindPlace
  <2>. HIDE DEF i
  <2>5. ASSUME i # 0
        PROVE  TextIn(cell', buf[i].x) = TextIn(cell, q[i].x)
    <3>1. i \in 1..size[o] /\ i \in Nat /\ i \in 1..n /\ buf[i] = q[i]
      BY <1>1, <1>4, <2>3, <2>4, <2>5
    <3>2. q[i].x \in Value
      BY <1>1, <3>1 DEF TypeOK, Field
    <3>3. CASE q[i].x.kind = "string"
      <4>1. q[i].x.v \in Cells /\ q[i].x = String(q[i].x.v)
        BY <3>2, <3>3, ValueCell
      <4>2. EntryIs(o, i, q[i].x.v)
        BY <3>1, <4>1 DEF EntryIs
      <4>3. cell'[q[i].x.v] = cell[q[i].x.v]
        BY <1>3, <2>3, <3>1, <4>1, <4>2
      <4>. QED  BY <3>1, <4>3 DEF TextIn
    <3>4. CASE q[i].x.kind # "string"
      BY <3>1, <3>4 DEF TextIn
    <3>. QED  BY <3>3, <3>4
  <2>. QED  BY <2>1, <2>2, <2>5
<1>8. ObjectOf(o)'[key] = TextIn(mem, x)
  <2>1. ObjectOf(o)'[key] = TextIn(cell', buf[at].x)
    BY <1>1, <1>2, <1>5, ObjectMeans
  <2>. QED  BY <1>3, <1>4, <2>1
<1>9. ObjectOf(o)' = [ObjectOf(o) EXCEPT ![key] = TextIn(mem, x)]
  <2>1. /\ ObjectOf(o) = [k \in Keys |-> ObjectOf(o)[k]]
        /\ ObjectOf(o)' = [k \in Keys |-> ObjectOf(o)'[k]]
    BY ObjectMeans
  <2>. QED  BY <1>7, <1>8, <2>1
<1>10. ASSUME NEW u \in Objects, u # o
       PROVE  ObjectOf(u)' = ObjectOf(u)
  BY <1>2, <1>3, <1>10, ObjectStays
<1>11. \A a \in Arrays : ArrayOf(a)' = ArrayOf(a)
  BY <1>2, <1>3, ArrayStays
<1>. QED  BY <1>9, <1>10, <1>11, ObjectReplaced

-----------------------------------------------------------------------------
(* Every call on an object is one of the abstract store. *)

\* A set of a key, whether it was there or not.
LEMMA SetImplements ==
    ASSUME IInv, NEW o \in Objects, NEW key \in Keys, NEW arg \in Args,
           ReplaceField(o, key, arg) \/ AddField(o, key, arg)
    PROVE  Store!StoreStep
<1>. DEFINE x == Given(arg)
<1>1. ValuesInv /\ KeysDistinct /\ TypeOK /\ size[o] \in Nat /\ Fits(arg)
  BY DEF IInv, ValuesInv, TypeOK, ReplaceField, AddField
<1>2. TextIn(Copied(arg), NewValue(arg)) = x
  BY <1>1, GivenText
<1>3. /\ ObjectOf(o)' = [ObjectOf(o) EXCEPT ![key] = x]
      /\ Objected' = [Objected EXCEPT ![o] = ObjectOf(o)'] /\ Arrayed' = Arrayed
  <2>1. CASE ReplaceField(o, key, arg)
    <3>. DEFINE at == Find(o, key)
    <3>1. /\ at \in 1..size[o] /\ entries[o][at].key = key
          /\ ObjectChange(o, at, key, NewValue(arg), Copied(arg), entries'[o], size[o])
      BY <1>1, <2>1, ReplaceChanges
    <3>2. \A i \in 1..size[o] : entries[o][i].key = key <=> i = at
      BY <1>1, <3>1 DEF KeysDistinct
    <3>. DEFINE buf == entries'[o]
                m   == size[o]
                v   == NewValue(arg)
                mem == Copied(arg)
    <3>. HIDE DEF at, x, buf, m, v, mem
    <3>3. /\ ObjectOf(o)' = [ObjectOf(o) EXCEPT ![key] = TextIn(mem, v)]
          /\ Objected' = [Objected EXCEPT ![o] = ObjectOf(o)'] /\ Arrayed' = Arrayed
      <4>1. ObjectChange(o, at, key, v, mem, buf, m) /\ m \in Nat
        BY <1>1, <3>1 DEF v, mem, buf, m
      <4>. QED  BY <1>1, <3>2, <4>1, ObjectChangeMeans
    <3>. QED  BY <1>2, <3>3 DEF v, mem
  <2>2. CASE AddField(o, key, arg)
    <3>. DEFINE n == size[o] + 1
    <3>1. /\ \A i \in 1..size[o] : entries[o][i].key # key
          /\ ObjectChange(o, n, key, NewValue(arg), cell', entries'[o], n)
      BY <1>1, <2>2, AddChanges
    <3>2. n \in Nat /\ \A i \in 1..size[o] : entries[o][i].key = key <=> i = n
      BY <1>1, <3>1
    <3>3. cell' = Copied(arg)
      BY <2>2 DEF AddField
    <3>. DEFINE buf == entries'[o]
                v   == NewValue(arg)
                mem == cell'
    <3>. HIDE DEF n, x, buf, v, mem
    <3>4. /\ ObjectOf(o)' = [ObjectOf(o) EXCEPT ![key] = TextIn(mem, v)]
          /\ Objected' = [Objected EXCEPT ![o] = ObjectOf(o)'] /\ Arrayed' = Arrayed
      <4>1. ObjectChange(o, n, key, v, mem, buf, n)
        BY <3>1 DEF v, mem, buf
      <4>. QED  BY <1>1, <3>2, <4>1, ObjectChangeMeans
    <3>. QED  BY <1>2, <3>3, <3>4 DEF v, mem
  <2>. QED  BY <2>1, <2>2
<1>4. last' = Call("set", <<o, key, x>>, <<>>)
  BY DEF ReplaceField, AddField
<1>. HIDE DEF x
<1>5. Objected' = [Objected EXCEPT ![o] = [Objected[o] EXCEPT ![key] = x]]
  <2>1. Objected[o] = ObjectOf(o)
    BY DEF Objected
  <2>. QED  BY <1>3, <2>1
<1>6. Store!SetField(o, key, x)
  BY <1>3, <1>4, <1>5 DEF Store!SetField, Store!Call, Call, Arrayed, Objected
<1>. QED  BY <1>4, <1>6 DEF Store!StoreStep, Call

\* A key is found where there is a value for it.
LEMMA FieldMeans ==
    ASSUME IInv, NEW o \in Objects, NEW key \in Keys
    PROVE  /\ Find(o, key) = 0 <=> ObjectOf(o)[key] = Store!Absent
           /\ Find(o, key) # 0 => ObjectOf(o)[key] = Text(entries[o][Find(o, key)].x)
<1>. DEFINE i == Find(o, key)
            x == entries[o][i].x
<1>1. ObjectOf(o)[key] = IF i = 0 THEN Store!Absent ELSE Text(x)
  BY DEF ObjectOf, Store!Absent
<1>2. ASSUME i # 0
      PROVE  Text(x) # Store!Absent
  <2>1. x \in Value
    <3>1. i \in 1..size[o] /\ TypeOK
      BY <1>2, FindPlace DEF IInv, ValuesInv
    <3>. QED  BY <3>1 DEF TypeOK, Field
  <2>2. x.kind # "absent"
    BY <2>1 DEF Value
  <2>3. Text(x).kind = x.kind
    <3>1. CASE x.kind = "string"
      <4>1. x = String(x.v)
        BY <2>1, <3>1, ValueCell
      <4>2. Text(String(x.v)).kind = "string"
        BY DEF Text, String
      <4>. QED  BY <3>1, <4>1, <4>2
    <3>2. CASE x.kind # "string"
      BY <3>2 DEF Text
    <3>. QED  BY <3>1, <3>2
  <2>4. Store!Absent.kind = "absent"
    BY DEF Store!Absent
  <2>. HIDE DEF x
  <2>. QED  BY <2>2, <2>3, <2>4
<1>. QED  BY <1>1, <1>2

LEMMA FieldImplements ==
    ASSUME IInv, NEW o \in Objects, NEW key \in Keys, NEW k,
           GetField(o, key, k) \/ HasField(o, key)
    PROVE  Store!StoreStep
<1>1. Arrayed' = Arrayed /\ Objected' = Objected
  <2>1. UNCHANGED <<items, count, entries, size, cell>>
    BY DEF GetField, HasField
  <2>. QED  BY <2>1, NothingChanges DEF IInv
<1>. DEFINE at == Find(o, key)
            x  == Objected[o][key]
<1>2. at = 0 <=> x = Store!Absent
  BY FieldMeans DEF Objected
<1>3. CASE HasField(o, key)
  <2>1. last' = Call("has", <<o, key>>, at # 0)
    BY <1>3 DEF HasField
  <2>. HIDE DEF at, x
  <2>2. (at # 0) = (x # Store!Absent)
    BY <1>2
  <2>3. last' = Call("has", <<o, key>>, x # Store!Absent)
    BY <2>1, <2>2
  <2>4. Store!HasField(o, key)
    BY <1>1, <2>3 DEF Store!HasField, Store!Call, Call, Arrayed, Objected, x
  <2>. QED  BY <2>3, <2>4 DEF Store!StoreStep, Call
<1>4. CASE GetField(o, key, k)
  <2>1. last' = Call("field", <<o, key, k>>,
                     IF at = 0 THEN Store!Nothing(k)
                     ELSE Store!As(k, Text(IF at = 0 THEN Junk ELSE entries[o][at].x), "[object]"))
    BY <1>4 DEF GetField
  <2>2. at # 0 => x = Text(entries[o][at].x)
    BY FieldMeans DEF Objected
  <2>. HIDE DEF at, x
  <2>3. last' = Call("field", <<o, key, k>>,
                     IF x = Store!Absent THEN Store!Nothing(k) ELSE Store!As(k, x, "[object]"))
    <3>1. CASE at = 0
      BY <1>2, <2>1, <3>1
    <3>2. CASE at # 0
      BY <1>2, <2>1, <2>2, <3>2
    <3>. QED  BY <3>1, <3>2
  <2>4. Store!GetField(o, key, k)
    BY <1>1, <2>3 DEF Store!GetField, Store!Call, Call, Arrayed, Objected, x
  <2>. QED  BY <2>3, <2>4 DEF Store!StoreStep, Call
<1>. QED  BY <1>3, <1>4

-----------------------------------------------------------------------------
(* The refinement. *)

LEMMA StoreInits == Init => Store!StoreInit
<1>. SUFFICES ASSUME Init PROVE Store!StoreInit
  OBVIOUS
<1>1. ASSUME NEW a \in Arrays
      PROVE  ArrayOf(a) = <<>>
  <2>1. ArrayOf(a) = [i \in 1..0 |-> TextIn(cell, items[a][i])]
    BY ArrayMeans DEF Init
  <2>. QED  BY <2>1
<1>2. ASSUME NEW o \in Objects
      PROVE  ObjectOf(o) = [k \in Keys |-> Store!Absent]
  <2>1. \A k : Find(o, k) = 0
    BY DEF Init, Find
  <2>. QED  BY <2>1 DEF ObjectOf, Store!Absent
<1>3. last = <<>>
  BY DEF Init
<1>. QED  BY <1>1, <1>2, <1>3 DEF Store!StoreInit

LEMMA ArrayCallImplements ==
    ASSUME IInv, RunsCommands = FALSE, NEW a \in Arrays, ArrayCall(a)
    PROVE  Store!StoreStep
<1>1. Indices \subseteq Int
  BY DEF Indices
<1>2. CASE ArrayFull(a) \/ RunCommand(a)
  <2>1. cell \in [Cells -> Literals \cup {Free}]
    BY DEF IInv, ValuesInv, TypeOK
  <2>2. UNCHANGED <<items, count, entries, size, cell>> /\ last' = Call("lost", <<>>, <<>>)
    BY <1>2, <2>1, RunKeeps DEF ArrayFull, Lost, RunCommand
  <2>. QED  BY <2>2, LostImplements
<1>. QED  BY <1>1, <1>2, PushImplements, InsertImplements, PopImplements, RemoveImplements,
             GetImplements, ClearImplements, SliceImplements DEF ArrayCall

LEMMA ObjectCallImplements ==
    ASSUME IInv, NEW o \in Objects, ObjectCall(o)
    PROVE  Store!StoreStep
<1>1. ASSUME NEW key \in Keys, ObjectFull(o, key)
      PROVE  Store!StoreStep
  BY <1>1, LostImplements DEF ObjectFull, Lost
<1>. QED  BY <1>1, SetImplements, FieldImplements DEF ObjectCall

LEMMA NextImplements ==
    ASSUME RunsCommands = FALSE, IInv, [Next]_vars
    PROVE  [Store!StoreStep]_(Store!storeVars)
<1>1. CASE Next
  BY <1>1, ArrayCallImplements, ObjectCallImplements DEF Next
<1>2. CASE UNCHANGED vars
  <2>1. UNCHANGED <<items, count, entries, size, cell, last>>
    BY <1>2 DEF vars
  <2>2. Arrayed' = Arrayed /\ Objected' = Objected
    BY <2>1, NothingChanges DEF IInv
  <2>. QED  BY <2>1, <2>2 DEF Arrayed, Objected, Store!storeVars
<1>. QED  BY <1>1, <1>2

\* Arrays and objects have value semantics: what adn_array_get, pop and remove and
\* adn_object_get yield is what was pushed, inserted or set last, converted, whatever
\* strings were copied, handed over and freed in between.
THEOREM ValuesKept ==
    ASSUME RunsCommands = FALSE
    PROVE  Spec => ValueSemantics
<1>1. IInv /\ [Next]_vars => [Store!StoreStep]_(Store!storeVars)
  BY NextImplements
<1>2. Spec => []IInv
  BY Invariance
<1>. QED  BY <1>1, <1>2, StoreInits, PTL DEF Spec, ValueSemantics, Store!StoreSpec
=============================================================================
