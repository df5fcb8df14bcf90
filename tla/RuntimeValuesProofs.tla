------------------------ MODULE RuntimeValuesProofs ------------------------
(***************************************************************************)
(* Proofs about RuntimeValues: for arrays of any length, any number of     *)
(* arrays, objects, keys and strings, and buffers of any first capacity.   *)
(***************************************************************************)
EXTENDS RuntimeValues, SequenceTheorems, TLAPS

USE ValuesAssumption

(* Buffers. *)

\* adn_array_reserve makes room for one more and keeps what is in the buffer.
LEMMA ReservedKeeps ==
    ASSUME NEW S, NEW empty \in S, NEW buf \in Seq(S), NEW n \in Nat, n <= Len(buf) + 1
    PROVE  /\ Reserved(buf, n, empty) \in Seq(S)
           /\ n <= Len(Reserved(buf, n, empty))
           /\ Len(buf) <= Len(Reserved(buf, n, empty))
           /\ \A i \in 1..Len(buf) : Reserved(buf, n, empty)[i] = buf[i]
<1>. DEFINE cap == IF Len(buf) = 0 THEN Initial ELSE 2 * Len(buf)
            new == [i \in 1..cap |-> IF i <= Len(buf) THEN buf[i] ELSE empty]
<1>1. Len(buf) \in Nat /\ cap \in Nat /\ cap >= Len(buf) + 1
  OBVIOUS
<1>2. Grown(buf, empty) = new
  BY DEF Grown
<1>3. CASE Len(buf) >= n
  BY <1>3 DEF Reserved
<1>4. CASE Len(buf) < n
  <2>1. \A i \in 1..cap : (IF i <= Len(buf) THEN buf[i] ELSE empty) \in S
    BY <1>1
  <2>2. new \in Seq(S) /\ Len(new) = cap
    <3>. HIDE DEF cap
    <3>. QED  BY <1>1, <2>1
  <2>3. \A i \in 1..Len(buf) : new[i] = buf[i]
    BY <1>1
  <2>4. Reserved(buf, n, empty) = new
    BY <1>1, <1>2, <1>4 DEF Reserved
  <2>. HIDE DEF new, cap
  <2>. QED  BY <1>1, <2>2, <2>3, <2>4
<1>. QED  BY <1>1, <1>3, <1>4

\* The memmove of an insert: what is before the place stays, the rest is one further.
LEMMA MovedUpKeeps ==
    ASSUME NEW S, NEW buf \in Seq(S), NEW x \in S, NEW n \in Nat, n + 1 <= Len(buf),
           NEW at \in 1..(n + 1)
    PROVE  /\ MovedUp(buf, at, n, x) \in Seq(S)
           /\ Len(MovedUp(buf, at, n, x)) = Len(buf)
           /\ \A i \in 1..(n + 1) : MovedUp(buf, at, n, x)[i] =
                 IF i < at THEN buf[i] ELSE IF i = at THEN x ELSE buf[i - 1]
<1>. DEFINE new == [i \in 1..Len(buf) |-> IF i = at THEN x
                        ELSE IF i \in (at + 1)..(n + 1) THEN buf[i - 1] ELSE buf[i]]
<1>1. \A i \in 1..Len(buf) : (IF i = at THEN x
                        ELSE IF i \in (at + 1)..(n + 1) THEN buf[i - 1] ELSE buf[i]) \in S
  OBVIOUS
<1>2. new \in Seq(S) /\ Len(new) = Len(buf)
  BY <1>1
<1>3. \A i \in 1..(n + 1) :
         new[i] = IF i < at THEN buf[i] ELSE IF i = at THEN x ELSE buf[i - 1]
  OBVIOUS
<1>4. MovedUp(buf, at, n, x) = new
  BY DEF MovedUp
<1>. QED  BY <1>2, <1>3, <1>4

\* The memmove of a pop or remove.
LEMMA MovedDownKeeps ==
    ASSUME NEW S, NEW buf \in Seq(S), NEW n \in Nat, n <= Len(buf), NEW at \in 1..n
    PROVE  /\ MovedDown(buf, at, n) \in Seq(S)
           /\ Len(MovedDown(buf, at, n)) = Len(buf)
           /\ \A i \in 1..(n - 1) : MovedDown(buf, at, n)[i] = IF i < at THEN buf[i] ELSE buf[i + 1]
<1>. DEFINE new == [i \in 1..Len(buf) |-> IF i \in at..(n - 1) THEN buf[i + 1] ELSE buf[i]]
<1>1. \A i \in 1..Len(buf) : (IF i \in at..(n - 1) THEN buf[i + 1] ELSE buf[i]) \in S
  OBVIOUS
<1>2. new \in Seq(S) /\ Len(new) = Len(buf)
  BY <1>1
<1>3. \A i \in 1..(n - 1) : new[i] = IF i < at THEN buf[i] ELSE buf[i + 1]
  OBVIOUS
<1>4. MovedDown(buf, at, n) = new
  BY DEF MovedDown
<1>. QED  BY <1>2, <1>3, <1>4

-----------------------------------------------------------------------------
(* New values. *)

\* x is a number or reference and memory stays, or a string made at a free place.
Made(x, mem) ==
    \/ x \in Scalars /\ mem = cell
    \/ \E p \in Cells, t \in Literals :
          cell[p] = Free /\ x = [kind |-> "string", v |-> p] /\ mem = [cell EXCEPT ![p] = t]

LEMMA ArgumentMade ==
    ASSUME TypeOK, NEW arg \in Args, Fits(arg)
    PROVE  Made(NewValue(arg), Copied(arg))
<1>1. CASE arg \in Scalars
  BY <1>1 DEF NewValue, Copied, IsString, Made
<1>2. ASSUME IsString(arg), ArgText(arg, cell) \in Literals
      PROVE  Made(NewValue(arg), Copied(arg))
  <2>1. Fresh \in Cells /\ cell[Fresh] = Free
    BY <1>2 DEF Fits, Fresh, FreeCells
  <2>. QED  BY <1>2, <2>1 DEF NewValue, Copied, Made
<1>3. CASE arg \in [kind : {"literal"}, v : Literals]
  <2>1. IsString(arg) /\ ArgText(arg, cell) \in Literals
    BY <1>3 DEF IsString, ArgText
  <2>. QED  BY <1>2, <2>1
<1>4. CASE arg \in {[kind |-> "pointer", v |-> p] : p \in {q \in {held} \ {0} : cell[q] # Free}}
  <2>1. arg.kind = "pointer" /\ arg.v = held /\ held # 0 /\ cell[held] # Free
    BY <1>4
  <2>2. IsString(arg) /\ ArgText(arg, cell) \in Literals
    BY <2>1 DEF IsString, ArgText, TypeOK
  <2>. QED  BY <1>2, <2>2
<1>. QED  BY <1>1, <1>3, <1>4 DEF Args

LEMMA MadeType ==
    ASSUME TypeOK, NEW x, NEW mem, Made(x, mem)
    PROVE  x \in Value /\ mem \in [Cells -> Literals \cup {Free}]
BY DEF Made, Value, TypeOK

-----------------------------------------------------------------------------
(* The inductive invariant: Owned, for places without a bound. *)

String(c) == [kind |-> "string", v |-> c]

ItemIs(a, i, c)  == i \in 1..count[a] /\ items[a][i] = String(c)
EntryIs(o, i, c) == i \in 1..size[o] /\ entries[o][i].x = String(c)

OwnedByItem ==
    \A a \in Arrays, i \in Nat, c \in Cells : ItemIs(a, i, c) =>
        cell[c] # Free /\ \A b \in Arrays, j \in Nat : ItemIs(b, j, c) => b = a /\ j = i

OwnedByEntry ==
    \A o \in Objects, i \in Nat, c \in Cells : EntryIs(o, i, c) =>
        cell[c] # Free /\ \A u \in Objects, j \in Nat : EntryIs(u, j, c) => u = o /\ j = i

OwnedApart ==
    \A a \in Arrays, o \in Objects, i, j \in Nat, c \in Cells :
        ~(ItemIs(a, i, c) /\ EntryIs(o, j, c))

ValuesInv == TypeOK /\ OwnedByItem /\ OwnedByEntry /\ OwnedApart

\* A step of one array: each of its items is an old one or a new value.
ArrayChange(a, buf, n, old, x) ==
    /\ items' = [items EXCEPT ![a] = buf] /\ count' = [count EXCEPT ![a] = n]
    /\ UNCHANGED <<entries, size>> /\ held' \in Cells \cup {0}
    /\ n <= Len(buf)
    /\ \A i \in 1..n : IF old[i] = 0 THEN buf[i] = x
                       ELSE old[i] \in 1..count[a] /\ buf[i] = items[a][old[i]]
    /\ \A i, j \in 1..n : old[i] = old[j] => i = j
    /\ Made(x, cell') \/ (cell' = cell /\ \A i \in 1..n : old[i] # 0)

LEMMA ArrayChangeType ==
    ASSUME TypeOK, NEW a \in Arrays, NEW buf \in Seq(Value \cup {Junk}), NEW n \in Nat,
           NEW old \in [1..n -> Nat], NEW x, ArrayChange(a, buf, n, old, x)
    PROVE  TypeOK'
<1>1. cell' \in [Cells -> Literals \cup {Free}]
  BY MadeType DEF ArrayChange, TypeOK
<1>2. \A i \in 1..n : buf[i] \in Value
  <2>1. ASSUME NEW i \in 1..n, old[i] = 0
        PROVE  buf[i] \in Value
    <3>1. Made(x, cell') /\ buf[i] = x
      BY <2>1 DEF ArrayChange
    <3>. QED  BY <3>1, MadeType
  <2>2. ASSUME NEW i \in 1..n, old[i] # 0
        PROVE  buf[i] \in Value
    BY <2>2 DEF ArrayChange, TypeOK
  <2>. QED  BY <2>1, <2>2
<1>3. /\ items' \in [Arrays -> Seq(Value \cup {Junk})] /\ count' \in [Arrays -> Nat]
      /\ items'[a] = buf /\ count'[a] = n
      /\ \A b \in Arrays \ {a} : items'[b] = items[b] /\ count'[b] = count[b]
  BY DEF ArrayChange, TypeOK
<1>4. \A b \in Arrays : count'[b] <= Len(items'[b]) /\ \A i \in 1..count'[b] : items'[b][i] \in Value
  BY <1>2, <1>3 DEF ArrayChange, TypeOK
<1>5. /\ entries' \in [Objects -> Seq(Field \cup {Junk})] /\ size' \in [Objects -> Nat]
      /\ \A o \in Objects : size'[o] <= Len(entries'[o]) /\ \A i \in 1..size'[o] : entries'[o][i] \in Field
      /\ held' \in Cells \cup {0}
  <2>1. entries' = entries /\ size' = size /\ held' \in Cells \cup {0}
    BY DEF ArrayChange
  <2>. QED  BY <2>1 DEF TypeOK
<1>6. Value' = Value /\ Field' = Field /\ Cells' = Cells /\ Junk' = Junk /\ Free' = Free
  OBVIOUS
<1>. QED  BY <1>1, <1>3, <1>4, <1>5, <1>6, Zenon DEF TypeOK

LEMMA ArrayChangeOwned ==
    ASSUME ValuesInv, NEW a \in Arrays, NEW buf \in Seq(Value \cup {Junk}), NEW n \in Nat,
           NEW old \in [1..n -> Nat], NEW x, ArrayChange(a, buf, n, old, x)
    PROVE  ValuesInv'
<1>1. TypeOK'
  BY ArrayChangeType DEF ValuesInv
<1>2. PICK f : \* the place of the new string, or none
         /\ \A c \in Cells : c # f => cell'[c] = cell[c]
         /\ \A c \in Cells : cell[c] # Free => c # f
         /\ \A c \in Cells : c = f => cell'[c] # Free
         /\ \A i \in 1..n, c \in Cells : old[i] = 0 /\ buf[i] = String(c) => c = f
  <2>1. CASE cell' = cell /\ \A i \in 1..n : old[i] # 0
    <3>1. 0 \notin Cells
      BY DEF Cells
    <3>. QED  BY <2>1, <3>1
  <2>2. CASE x \in Scalars /\ cell' = cell
    <3>1. 0 \notin Cells
      BY DEF Cells
    <3>2. \A c : x # String(c)
      BY <2>2 DEF String
    <3>. QED  BY <2>2, <3>1, <3>2 DEF ArrayChange
  <2>3. ASSUME NEW p \in Cells, NEW t \in Literals, cell[p] = Free, x = String(p),
               cell' = [cell EXCEPT ![p] = t]
        PROVE  \E f : /\ \A c \in Cells : c # f => cell'[c] = cell[c]
                      /\ \A c \in Cells : cell[c] # Free => c # f
                      /\ \A c \in Cells : c = f => cell'[c] # Free
                      /\ \A i \in 1..n, c \in Cells : old[i] = 0 /\ buf[i] = String(c) => c = f
    <3>1. \A c : String(c) = String(p) => c = p
      BY DEF String
    <3>2. WITNESS p
    <3>3. cell' \in [Cells -> Literals \cup {Free}] /\ cell \in [Cells -> Literals \cup {Free}]
      BY <1>1 DEF ValuesInv, TypeOK
    <3>4. \A i \in 1..n, c \in Cells : old[i] = 0 /\ buf[i] = String(c) => c = p
      BY <2>3, <3>1 DEF ArrayChange
    <3>. QED  BY <2>3, <3>3, <3>4
  <2>. QED  BY <2>1, <2>2, <2>3 DEF ArrayChange, Made, String
<1>3. \A b \in Arrays, i \in Nat, c \in Cells : ItemIs(b, i, c)' =>
         \/ b # a /\ ItemIs(b, i, c)
         \/ b = a /\ i \in 1..n /\ old[i] # 0 /\ ItemIs(a, old[i], c)
         \/ b = a /\ i \in 1..n /\ old[i] = 0 /\ c = f
  <2>1. TAKE b \in Arrays, i \in Nat, c \in Cells
  <2>2. CASE b # a
    BY <2>2 DEF ItemIs, ArrayChange, ValuesInv, TypeOK
  <2>3. CASE b = a
    <3>1. count'[a] = n /\ items'[a] = buf
      BY DEF ArrayChange, ValuesInv, TypeOK
    <3>. QED  BY <1>2, <2>3, <3>1 DEF ItemIs, ArrayChange
  <2>. QED  BY <2>2, <2>3
<1>4. \A o \in Objects, i \in Nat, c \in Cells : EntryIs(o, i, c)' <=> EntryIs(o, i, c)
  BY DEF EntryIs, ArrayChange
<1>5. \A b \in Arrays, i \in Nat, c \in Cells : ItemIs(b, i, c) => c # f
  BY <1>2 DEF ValuesInv, OwnedByItem
<1>6. \A o \in Objects, i \in Nat, c \in Cells : EntryIs(o, i, c) => c # f
  BY <1>2 DEF ValuesInv, OwnedByEntry
<1>7. OwnedByItem'
  <2>1. SUFFICES ASSUME NEW b \in Arrays, NEW i \in Nat, NEW c \in Cells, ItemIs(b, i, c)'
                 PROVE  /\ cell'[c] # Free
                        /\ \A d \in Arrays, j \in Nat : ItemIs(d, j, c)' => d = b /\ j = i
    BY DEF OwnedByItem
  <2>2. cell'[c] # Free
    BY <1>2, <1>3, <1>5, <2>1 DEF ValuesInv, OwnedByItem
  <2>3. ASSUME NEW d \in Arrays, NEW j \in Nat, ItemIs(d, j, c)'
        PROVE  d = b /\ j = i
    <3>1. \A k, m \in 1..n : old[k] = old[m] => k = m
      BY DEF ArrayChange
    <3>. QED  BY <1>3, <1>5, <2>1, <2>3, <3>1 DEF ValuesInv, OwnedByItem
  <2>. QED  BY <2>2, <2>3
<1>8. OwnedByEntry'
  <2>1. \A o \in Objects, i \in Nat, c \in Cells : EntryIs(o, i, c)' => cell'[c] # Free
    BY <1>2, <1>4, <1>6 DEF ValuesInv, OwnedByEntry
  <2>. QED  BY <1>4, <2>1 DEF ValuesInv, OwnedByEntry
<1>9. OwnedApart'
  <2>1. SUFFICES ASSUME NEW b \in Arrays, NEW o \in Objects, NEW i \in Nat, NEW j \in Nat,
                        NEW c \in Cells, ItemIs(b, i, c)', EntryIs(o, j, c)'
                 PROVE  FALSE
    BY DEF OwnedApart
  <2>2. EntryIs(o, j, c) /\ c # f
    BY <1>4, <1>6, <2>1
  <2>3. \E k \in Nat : ItemIs(b, k, c)
    BY <1>3, <2>1, <2>2
  <2>. QED  BY <2>2, <2>3 DEF ValuesInv, OwnedApart
<1>. QED  BY <1>1, <1>7, <1>8, <1>9 DEF ValuesInv

-----------------------------------------------------------------------------
(* The calls on arrays. *)

LEMMA BufferFacts ==
    ASSUME TypeOK, NEW a \in Arrays
    PROVE  /\ items[a] \in Seq(Value \cup {Junk}) /\ count[a] \in Nat
           /\ count[a] <= Len(items[a]) /\ Len(items[a]) \in Nat
           /\ Junk \in Value \cup {Junk}
           /\ Reserved(items[a], count[a] + 1, Junk) \in Seq(Value \cup {Junk})
           /\ count[a] + 1 <= Len(Reserved(items[a], count[a] + 1, Junk))
           /\ \A i \in 1..Len(items[a]) : Reserved(items[a], count[a] + 1, Junk)[i] = items[a][i]
<1>1. items[a] \in Seq(Value \cup {Junk}) /\ count[a] \in Nat /\ count[a] <= Len(items[a])
  BY DEF TypeOK
<1>2. Junk \in Value \cup {Junk} /\ Len(items[a]) \in Nat
  BY <1>1
<1>3. /\ Reserved(items[a], count[a] + 1, Junk) \in Seq(Value \cup {Junk})
      /\ count[a] + 1 <= Len(Reserved(items[a], count[a] + 1, Junk))
      /\ \A i \in 1..Len(items[a]) : Reserved(items[a], count[a] + 1, Junk)[i] = items[a][i]
  <2>. DEFINE S   == Value \cup {Junk}
              buf == items[a]
              n   == count[a] + 1
              e   == Junk
  <2>1. e \in S /\ buf \in Seq(S) /\ n \in Nat /\ n <= Len(buf) + 1
    BY <1>1, <1>2
  <2>. HIDE DEF S, buf, n, e
  <2>2. /\ Reserved(buf, n, e) \in Seq(S)
        /\ n <= Len(Reserved(buf, n, e))
        /\ \A i \in 1..Len(buf) : Reserved(buf, n, e)[i] = buf[i]
    BY <2>1, ReservedKeeps
  <2>. QED  BY <2>2 DEF S, buf, n, e
<1>. QED  BY <1>1, <1>2, <1>3, Zenon

\* Where each of the n items that are left comes from, 0 for the new value.
PushedFrom(n)       == [i \in 1..(n + 1) |-> IF i <= n THEN i ELSE 0]
InsertedFrom(n, at) == [i \in 1..(n + 1) |-> IF i < at THEN i ELSE IF i = at THEN 0 ELSE i - 1]
TakenFrom(n, at)    == [i \in 1..(n - 1) |-> IF i < at THEN i ELSE i + 1]

LEMMA PushChanges ==
    ASSUME ValuesInv, NEW a \in Arrays, NEW arg \in Args, PushItem(a, arg)
    PROVE  /\ items'[a] \in Seq(Value \cup {Junk})
           /\ ArrayChange(a, items'[a], count[a] + 1, PushedFrom(count[a]), NewValue(arg))
<1>. DEFINE room == Reserved(items[a], count[a] + 1, Junk)
            n    == count[a]
            x    == NewValue(arg)
            buf  == [room EXCEPT ![n + 1] = x]
            old  == PushedFrom(n)
<1>1. TypeOK /\ Made(x, cell')
  <2>1. TypeOK /\ Fits(arg) /\ cell' = Copied(arg)
    BY DEF ValuesInv, PushItem
  <2>. QED  BY <2>1, ArgumentMade
<1>2. x \in Value
  BY <1>1, MadeType
<1>3. /\ room \in Seq(Value \cup {Junk}) /\ n \in Nat /\ n + 1 <= Len(room)
      /\ n <= Len(items[a]) /\ Len(items[a]) \in Nat
      /\ \A i \in 1..Len(items[a]) : room[i] = items[a][i]
  BY <1>1, BufferFacts
<1>4. /\ items' = [items EXCEPT ![a] = buf] /\ count' = [count EXCEPT ![a] = n + 1]
      /\ UNCHANGED <<entries, size, held>> /\ held \in Cells \cup {0}
  BY <1>1 DEF PushItem, TypeOK
<1>. HIDE DEF room, x
<1>5. buf \in Seq(Value \cup {Junk}) /\ Len(buf) = Len(room) /\ buf[n + 1] = x
      /\ \A i \in 1..n : buf[i] = room[i]
  BY <1>2, <1>3
<1>6. \A i, j \in 1..(n + 1) : old[i] = old[j] => i = j
  BY <1>3 DEF PushedFrom
<1>7. \A i \in 1..(n + 1) : IF old[i] = 0 THEN buf[i] = x
                           ELSE old[i] \in 1..n /\ buf[i] = items[a][old[i]]
  BY <1>3, <1>5 DEF PushedFrom
<1>8. n + 1 <= Len(buf) /\ items'[a] = buf
  BY <1>1, <1>3, <1>4, <1>5 DEF TypeOK
<1>. HIDE DEF buf, old
<1>9. ArrayChange(a, buf, n + 1, old, x)
  BY <1>1, <1>4, <1>6, <1>7, <1>8 DEF ArrayChange
<1>. QED  BY <1>5, <1>8, <1>9 DEF x, old

LEMMA PushOwned ==
    ASSUME ValuesInv, NEW a \in Arrays, NEW arg \in Args, PushItem(a, arg)
    PROVE  ValuesInv'
<1>1. count[a] + 1 \in Nat /\ PushedFrom(count[a]) \in [1..(count[a] + 1) -> Nat]
  BY DEF ValuesInv, TypeOK, PushedFrom
<1>. QED  BY <1>1, PushChanges, ArrayChangeOwned

LEMMA InsertChanges ==
    ASSUME ValuesInv, NEW a \in Arrays, NEW arg \in Args, NEW k \in Int, InsertItem(a, k, arg)
    PROVE  /\ InsertIndex(a, k) \in 0..count[a] /\ items'[a] \in Seq(Value \cup {Junk})
           /\ ArrayChange(a, items'[a], count[a] + 1,
                          InsertedFrom(count[a], InsertIndex(a, k) + 1), NewValue(arg))
<1>. DEFINE room == Reserved(items[a], count[a] + 1, Junk)
            n    == count[a]
            x    == NewValue(arg)
            at   == InsertIndex(a, k) + 1
            buf  == MovedUp(room, at, n, x)
            old  == InsertedFrom(n, at)
<1>1. TypeOK /\ Made(x, cell')
  <2>1. TypeOK /\ Fits(arg) /\ cell' = Copied(arg)
    BY DEF ValuesInv, InsertItem
  <2>. QED  BY <2>1, ArgumentMade
<1>2. x \in Value
  BY <1>1, MadeType
<1>3. /\ room \in Seq(Value \cup {Junk}) /\ n \in Nat /\ n + 1 <= Len(room)
      /\ n <= Len(items[a]) /\ Len(items[a]) \in Nat
      /\ \A i \in 1..Len(items[a]) : room[i] = items[a][i]
  BY <1>1, BufferFacts
<1>4. at \in 1..(n + 1) /\ InsertIndex(a, k) \in 0..n
  BY <1>3 DEF InsertIndex
<1>5. /\ items' = [items EXCEPT ![a] = buf] /\ count' = [count EXCEPT ![a] = n + 1]
      /\ UNCHANGED <<entries, size, held>> /\ held \in Cells \cup {0}
  BY <1>1 DEF InsertItem, TypeOK
<1>. HIDE DEF room, x, at
<1>6. /\ buf \in Seq(Value \cup {Junk}) /\ Len(buf) = Len(room)
      /\ \A i \in 1..(n + 1) : buf[i] =
             IF i < at THEN room[i] ELSE IF i = at THEN x ELSE room[i - 1]
  <2>. DEFINE S == Value \cup {Junk}
  <2>1. x \in S /\ room \in Seq(S) /\ n \in Nat /\ n + 1 <= Len(room) /\ at \in 1..(n + 1)
    BY <1>2, <1>3, <1>4
  <2>. HIDE DEF S, n, buf, old
  <2>. DEFINE up == MovedUp(room, at, n, x)
              moved == \A i \in 1..(n + 1) : up[i] =
                           IF i < at THEN room[i] ELSE IF i = at THEN x ELSE room[i - 1]
  <2>2. up \in Seq(S)
    BY <2>1, MovedUpKeeps
  <2>3. Len(up) = Len(room)
    BY <2>1, MovedUpKeeps
  <2>4. moved
    BY <2>1, MovedUpKeeps
  <2>. QED  BY <2>2, <2>3, <2>4 DEF S, buf
<1>. HIDE DEF buf
<1>7. \A i, j \in 1..(n + 1) : old[i] = old[j] => i = j
  BY <1>3, <1>4 DEF InsertedFrom
<1>8. \A i \in 1..(n + 1) : IF old[i] = 0 THEN buf[i] = x
                           ELSE old[i] \in 1..n /\ buf[i] = items[a][old[i]]
  <2>. HIDE DEF n
  <2>1. ASSUME NEW i \in 1..(n + 1), i < at
        PROVE  old[i] = i /\ i \in 1..n /\ buf[i] = items[a][i]
    BY <1>3, <1>4, <1>6, <2>1 DEF InsertedFrom
  <2>2. ASSUME NEW i \in 1..(n + 1), i = at
        PROVE  old[i] = 0 /\ buf[i] = x
    BY <1>3, <1>4, <1>6, <2>2 DEF InsertedFrom
  <2>3. ASSUME NEW i \in 1..(n + 1), i > at
        PROVE  old[i] = i - 1 /\ i - 1 \in 1..n /\ buf[i] = items[a][i - 1]
    <3>1. i - 1 \in 1..n /\ ~(i < at) /\ i # at
      BY <1>3, <1>4, <2>3
    <3>2. old[i] = i - 1
      BY <3>1 DEF InsertedFrom
    <3>. HIDE DEF old
    <3>. QED  BY <1>3, <1>6, <3>1, <3>2
  <2>. HIDE DEF old
  <2>. QED  BY <1>3, <1>4, <2>1, <2>2, <2>3
<1>9. n + 1 <= Len(buf) /\ items'[a] = buf
  BY <1>1, <1>3, <1>5, <1>6 DEF TypeOK
<1>. HIDE DEF old
<1>10. ArrayChange(a, buf, n + 1, old, x)
  BY <1>1, <1>5, <1>7, <1>8, <1>9 DEF ArrayChange
<1>. QED  BY <1>4, <1>6, <1>9, <1>10 DEF x, old, at

LEMMA InsertOwned ==
    ASSUME ValuesInv, NEW a \in Arrays, NEW arg \in Args, NEW k \in Int, InsertItem(a, k, arg)
    PROVE  ValuesInv'
<1>. DEFINE n   == count[a]
            old == InsertedFrom(n, InsertIndex(a, k) + 1)
<1>1. n + 1 \in Nat /\ InsertIndex(a, k) \in 0..n
  BY InsertChanges DEF ValuesInv, TypeOK
<1>2. old \in [1..(n + 1) -> Nat]
  BY <1>1 DEF InsertedFrom
<1>. QED  BY <1>1, <1>2, InsertChanges, ArrayChangeOwned

\* A pop or a remove in range; out of range it changes nothing.
LEMMA TakeChanges ==
    ASSUME ValuesInv, NEW a \in Arrays, NEW k \in Int, Take(a, k), InRange(a, k),
           held' \in Cells \cup {0}
    PROVE  /\ items'[a] \in Seq(Value \cup {Junk})
           /\ ArrayChange(a, items'[a], count[a] - 1, TakenFrom(count[a], k + 1), 0)
<1>. DEFINE n   == count[a]
            buf == MovedDown(items[a], k + 1, n)
            old == TakenFrom(n, k + 1)
<1>1. TypeOK
  BY DEF ValuesInv
<1>2. /\ items[a] \in Seq(Value \cup {Junk}) /\ n \in Nat
      /\ n <= Len(items[a]) /\ Len(items[a]) \in Nat
  BY <1>1, BufferFacts
<1>3. k + 1 \in 1..n /\ n - 1 \in Nat
  BY <1>2 DEF InRange
<1>4. /\ items' = [items EXCEPT ![a] = buf] /\ count' = [count EXCEPT ![a] = n - 1]
      /\ UNCHANGED <<entries, size, cell>>
  BY DEF Take
<1>5. /\ buf \in Seq(Value \cup {Junk}) /\ Len(buf) = Len(items[a])
      /\ \A i \in 1..(n - 1) : buf[i] = IF i < k + 1 THEN items[a][i] ELSE items[a][i + 1]
  <2>. DEFINE S == Value \cup {Junk}
              q == items[a]
              m == k + 1
  <2>1. q \in Seq(S) /\ n \in Nat /\ n <= Len(q) /\ m \in 1..n
    BY <1>2, <1>3
  <2>. HIDE DEF S, q, m, n, buf
  <2>2. /\ MovedDown(q, m, n) \in Seq(S) /\ Len(MovedDown(q, m, n)) = Len(q)
        /\ \A i \in 1..(n - 1) : MovedDown(q, m, n)[i] = IF i < m THEN q[i] ELSE q[i + 1]
    BY <2>1, MovedDownKeeps
  <2>. QED  BY <2>2 DEF S, q, m, buf
<1>. HIDE DEF buf
<1>6. \A i, j \in 1..(n - 1) : old[i] = old[j] => i = j
  BY <1>3 DEF TakenFrom
<1>7. \A i \in 1..(n - 1) : old[i] # 0 /\ old[i] \in 1..n /\ buf[i] = items[a][old[i]]
  BY <1>2, <1>3, <1>5 DEF TakenFrom
<1>8. n - 1 <= Len(buf) /\ items'[a] = buf
  BY <1>1, <1>2, <1>4, <1>5 DEF TypeOK
<1>. HIDE DEF old
<1>9. ArrayChange(a, buf, n - 1, old, 0)
  BY <1>4, <1>6, <1>7, <1>8 DEF ArrayChange
<1>. QED  BY <1>5, <1>8, <1>9 DEF old

\* Reading leaves everything to its owner.
LEMMA ReadOwned ==
    ASSUME ValuesInv, UNCHANGED <<items, count, entries, size, cell>>, held' \in Cells \cup {0}
    PROVE  ValuesInv'
<1>1. TypeOK'
  BY DEF ValuesInv, TypeOK
<1>2. OwnedByItem' /\ OwnedByEntry' /\ OwnedApart'
  BY DEF ValuesInv, OwnedByItem, OwnedByEntry, OwnedApart, ItemIs, EntryIs
<1>. QED  BY <1>1, <1>2 DEF ValuesInv

LEMMA TakeOwned ==
    ASSUME ValuesInv, NEW a \in Arrays, NEW k \in Int, Take(a, k), held' \in Cells \cup {0}
    PROVE  ValuesInv'
<1>1. CASE InRange(a, k)
  <2>1. count[a] - 1 \in Nat /\ k + 1 \in 1..count[a]
    BY <1>1 DEF ValuesInv, TypeOK, InRange
  <2>2. TakenFrom(count[a], k + 1) \in [1..(count[a] - 1) -> Nat]
    BY <2>1 DEF TakenFrom
  <2>. QED  BY <1>1, <2>1, <2>2, TakeChanges, ArrayChangeOwned
<1>2. CASE ~InRange(a, k)
  <2>1. UNCHANGED <<items, count, entries, size, cell>>
    BY <1>2 DEF Take, ValuesInv, TypeOK
  <2>. QED  BY <2>1, ReadOwned
<1>. QED  BY <1>1, <1>2

\* A string read as a string is a pointer into memory.
LEMMA HandedOutType ==
    ASSUME TypeOK, NEW k, NEW x, x.kind = "string" => x.v \in Cells, HandedOut(k, x)
    PROVE  held' \in Cells \cup {0}
BY DEF HandedOut, TypeOK

LEMMA ValueCell ==
    ASSUME NEW x \in Value, x.kind = "string"
    PROVE  x.v \in Cells /\ x = String(x.v)
<1>1. x \notin Scalars
  OBVIOUS
<1>. QED  BY <1>1 DEF Value, String

LEMMA GetItemOwned ==
    ASSUME ValuesInv, NEW a \in Arrays, NEW i \in Int, NEW k, GetItem(a, i, k)
    PROVE  ValuesInv'
<1>1. TypeOK
  BY DEF ValuesInv
<1>2. InRange(a, i) => items[a][i + 1] \in Value
  BY <1>1 DEF InRange, TypeOK
<1>3. held' \in Cells \cup {0}
  <2>1. CASE InRange(a, i)
    <3>1. HandedOut(k, items[a][i + 1])
      BY <2>1 DEF GetItem
    <3>. QED  BY <1>1, <1>2, <2>1, <3>1, ValueCell, HandedOutType
  <2>2. CASE ~InRange(a, i)
    <3>1. HandedOut(k, Junk) /\ Junk.kind # "string"
      BY <2>2 DEF GetItem, Junk
    <3>. QED  BY <1>1, <3>1, HandedOutType
  <2>. QED  BY <2>1, <2>2
<1>4. UNCHANGED <<items, count, entries, size, cell>>
  BY DEF GetItem
<1>. QED  BY <1>3, <1>4, ReadOwned

LEMMA TakenCell ==
    ASSUME TypeOK, NEW a \in Arrays, NEW i \in Int, Taken(a, i).kind = "string"
    PROVE  Taken(a, i).v \in Cells
<1>1. InRange(a, i) /\ Taken(a, i) = items[a][i + 1]
  BY DEF Taken
<1>2. items[a][i + 1] \in Value
  BY <1>1 DEF InRange, TypeOK
<1>. QED  BY <1>1, <1>2, ValueCell

LEMMA RemoveOwned ==
    ASSUME ValuesInv, NEW a \in Arrays, NEW i \in Int, NEW k,
           PopItem(a, k) \/ RemoveItem(a, i, k)
    PROVE  ValuesInv'
<1>1. TypeOK /\ count[a] - 1 \in Int
  BY DEF ValuesInv, TypeOK
<1>2. PICK j \in Int : Take(a, j) /\ HandedOut(k, Taken(a, j))
  BY <1>1 DEF PopItem, RemoveItem
<1>3. held' \in Cells \cup {0}
  BY <1>1, <1>2, TakenCell, HandedOutType
<1>. QED  BY <1>2, <1>3, TakeOwned

LEMMA StringsHeld ==
    ASSUME TypeOK, NEW a \in Arrays
    PROVE  \A c \in Cells : c \in Strings(a) <=> \E i \in Nat : ItemIs(a, i, c)
<1>1. ASSUME NEW c \in Cells, c \in Strings(a)
      PROVE  \E i \in Nat : ItemIs(a, i, c)
  <2>1. PICK i \in 1..count[a] : items[a][i].kind = "string" /\ items[a][i].v = c
    BY <1>1 DEF Strings
  <2>2. items[a][i] = String(c) /\ i \in Nat
    BY <2>1, ValueCell DEF TypeOK
  <2>. QED  BY <2>2 DEF ItemIs
<1>2. ASSUME NEW c \in Cells, NEW i \in Nat, ItemIs(a, i, c)
      PROVE  c \in Strings(a)
  BY <1>2 DEF ItemIs, Strings, String
<1>. QED  BY <1>1, <1>2

\* A clear frees the strings of the array, and no other container has one of them.
LEMMA ClearOwned ==
    ASSUME ValuesInv, NEW a \in Arrays, ClearItems(a)
    PROVE  ValuesInv'
<1>. DEFINE buf == [i \in DOMAIN items[a] |-> IF i <= count[a] /\ items[a][i].kind = "string"
                                              THEN Junk ELSE items[a][i]]
<1>1. TypeOK
  BY DEF ValuesInv
<1>2. buf \in Seq(Value \cup {Junk})
  <2>1. items[a] \in Seq(Value \cup {Junk}) /\ DOMAIN items[a] = 1..Len(items[a])
    BY <1>1 DEF TypeOK
  <2>. DEFINE L == Len(items[a])
              S == Value \cup {Junk}
              e(i) == IF i <= count[a] /\ items[a][i].kind = "string" THEN Junk ELSE items[a][i]
  <2>2. \A i \in 1..L : e(i) \in S
    BY <2>1
  <2>3. L \in Nat /\ buf = [i \in 1..L |-> e(i)]
    BY <2>1
  <2>. HIDE DEF L, S, e
  <2>4. [i \in 1..L |-> e(i)] \in Seq(S)
    BY <2>2, <2>3
  <2>. HIDE DEF buf
  <2>5. buf \in Seq(S)
    BY <2>3, <2>4
  <2>. QED  BY <2>5 DEF S
<1>3. items' = [items EXCEPT ![a] = buf] /\ count' = [count EXCEPT ![a] = 0]
      /\ cell' = [p \in Cells |-> IF p \in Strings(a) THEN Free ELSE cell[p]]
      /\ UNCHANGED <<entries, size, held>>
  BY DEF ClearItems
<1>. HIDE DEF buf
<1>4. /\ items' \in [Arrays -> Seq(Value \cup {Junk})] /\ count' \in [Arrays -> Nat]
      /\ items'[a] = buf /\ count'[a] = 0
      /\ \A b \in Arrays \ {a} : items'[b] = items[b] /\ count'[b] = count[b]
  BY <1>1, <1>2, <1>3 DEF TypeOK
<1>5. TypeOK'
  <2>1. \A b \in Arrays : count'[b] <= Len(items'[b]) /\ \A i \in 1..count'[b] : items'[b][i] \in Value
    <3>1. ASSUME NEW b \in Arrays, b # a
          PROVE  count'[b] <= Len(items'[b]) /\ \A i \in 1..count'[b] : items'[b][i] \in Value
      BY <1>1, <1>4, <3>1 DEF TypeOK
    <3>2. count'[a] <= Len(items'[a]) /\ \A i \in 1..count'[a] : items'[a][i] \in Value
      <4>1. Len(buf) \in Nat
        BY <1>2
      <4>. QED  BY <1>4, <4>1
    <3>. QED  BY <3>1, <3>2
  <2>2. cell' \in [Cells -> Literals \cup {Free}]
    BY <1>1, <1>3 DEF TypeOK
  <2>3. /\ entries' \in [Objects -> Seq(Field \cup {Junk})] /\ size' \in [Objects -> Nat]
        /\ \A o \in Objects : size'[o] <= Len(entries'[o]) /\ \A i \in 1..size'[o] : entries'[o][i] \in Field
        /\ held' \in Cells \cup {0}
    <3>1. entries' = entries /\ size' = size /\ held' = held
      BY <1>3
    <3>. QED  BY <1>1, <3>1 DEF TypeOK
  <2>. QED  BY <1>4, <2>1, <2>2, <2>3, Zenon DEF TypeOK
<1>6. \A c \in Cells : c \in Strings(a) <=> \E i \in Nat : ItemIs(a, i, c)
  BY <1>1, StringsHeld
<1>7. \A b \in Arrays, i \in Nat, c \in Cells :
         ItemIs(b, i, c)' => b # a /\ ItemIs(b, i, c) /\ cell'[c] = cell[c]
  <2>1. ASSUME NEW b \in Arrays, NEW i \in Nat, NEW c \in Cells, ItemIs(b, i, c)'
        PROVE  b # a /\ ItemIs(b, i, c)
    BY <1>4, <2>1 DEF ItemIs
  <2>2. ASSUME NEW b \in Arrays, NEW i \in Nat, NEW c \in Cells, b # a, ItemIs(b, i, c)
        PROVE  cell'[c] = cell[c]
    BY <1>3, <1>6, <2>2 DEF ValuesInv, OwnedByItem
  <2>. QED  BY <2>1, <2>2
<1>8. \A o \in Objects, i \in Nat, c \in Cells :
         EntryIs(o, i, c)' => EntryIs(o, i, c) /\ cell'[c] = cell[c]
  <2>1. \A o \in Objects, i \in Nat, c \in Cells : EntryIs(o, i, c)' = EntryIs(o, i, c)
    BY <1>3 DEF EntryIs
  <2>2. ASSUME NEW o \in Objects, NEW i \in Nat, NEW c \in Cells, EntryIs(o, i, c)
        PROVE  cell'[c] = cell[c]
    BY <1>3, <1>6, <2>2 DEF ValuesInv, OwnedApart
  <2>. QED  BY <2>1, <2>2
<1>9. OwnedByItem' /\ OwnedByEntry' /\ OwnedApart'
  BY <1>7, <1>8 DEF ValuesInv, OwnedByItem, OwnedByEntry, OwnedApart
<1>. QED  BY <1>5, <1>9 DEF ValuesInv

\* The part of an array that a slice copies.
LEMMA SourceOfSlice ==
    ASSUME NEW S, NEW q, NEW n \in Nat, NEW lo \in 0..n, NEW hi \in 0..n,
           \A k \in 1..n : q[k] \in S
    PROVE  /\ Len(SubSeq(q, lo + 1, hi)) \in 0..n
           /\ \A m \in 1..Len(SubSeq(q, lo + 1, hi)) :
                 \E k \in 1..n : SubSeq(q, lo + 1, hi)[m] = q[k] /\ q[k] \in S
<1>. DEFINE f == lo + 1
            t == SubSeq(q, f, hi)
<1>1. f \in Int /\ hi \in Int /\ \A k \in f..hi : q[k] \in S
  OBVIOUS
<1>2. f >= 1 /\ hi <= n
  OBVIOUS
<1>. HIDE DEF f
<1>3. /\ Len(t) = IF f <= hi THEN hi - f + 1 ELSE 0
      /\ \A m \in 1..(hi - f + 1) : t[m] = q[f + m - 1]
  BY <1>1, SubSeqProperties
<1>. HIDE DEF t
<1>4. Len(t) \in 0..n /\ \A m \in 1..Len(t) : f + m - 1 \in 1..n /\ t[m] = q[f + m - 1]
  BY <1>1, <1>2, <1>3
<1>5. Len(t) \in 0..n /\ \A m \in 1..Len(t) : \E k \in 1..n : t[m] = q[k] /\ q[k] \in S
  BY <1>4
<1>. QED  BY <1>5 DEF t, f

\* The new array b has the items src of a, with a home of its own for each string.
SliceFrom(a, b, src, home) ==
    /\ b # a /\ Len(src) \in 0..count[a] /\ count[a] \in Nat
    /\ \A m \in 1..Len(src) : src[m] \in Value /\ \E k \in 1..count[a] : src[m] = items[a][k]
    /\ \A m \in 1..Len(src) : src[m].kind = "string" =>
          /\ home[m] \in Cells /\ cell[home[m]] = Free
          /\ cell'[home[m]] = cell[src[m].v] /\ cell'[home[m]] # Free
          /\ \A k \in 1..Len(src) : src[k].kind = "string" /\ home[k] = home[m] => k = m
    /\ \A c \in Cells : cell[c] # Free => cell'[c] = cell[c]
    /\ cell' \in [Cells -> Literals \cup {Free}]
    /\ items' \in [Arrays -> Seq(Value \cup {Junk})] /\ Len(src) <= Len(items'[b])
    /\ \A m \in 1..Len(src) :
          items'[b][m] = IF src[m].kind = "string" THEN String(home[m]) ELSE src[m]
    /\ \A d \in Arrays \ {b} : items'[d] = items[d]
    /\ count' = [count EXCEPT ![b] = Len(src)]
    /\ UNCHANGED <<entries, size, held>>

\* What the pushes leave are items of the part, at most as many as it has.
LEMMA PushedItems ==
    ASSUME NEW part, Len(part) \in Nat, NEW src \in Pushed(part)
    PROVE  \E from \in Store!Thinnings(Len(part)) :
              /\ src = [m \in DOMAIN from |-> part[from[m]]]
              /\ Len(src) \in 0..Len(part) /\ DOMAIN from = 1..Len(src)
              /\ \A m \in 1..Len(src) : from[m] \in 1..Len(part) /\ src[m] = part[from[m]]
<1>1. PICK from \in Store!Thinnings(Len(part)) : src = [m \in DOMAIN from |-> part[from[m]]]
  BY DEF Pushed
<1>2. PICK k \in 0..Len(part) : from \in [1..k -> 1..Len(part)]
  BY DEF Store!Thinnings
<1>3. Len(src) = k
  BY <1>1, <1>2
<1>4. \A m \in 1..k : from[m] \in 1..Len(part) /\ src[m] = part[from[m]]
  BY <1>1, <1>2
<1>. QED  BY <1>1, <1>2, <1>3, <1>4

FromArray(a, src) ==
    /\ Len(src) \in Nat /\ Len(src) <= count[a]
    /\ \A m \in 1..Len(src) : src[m] \in Value /\ \E k \in 1..count[a] : src[m] = items[a][k]

LEMMA PushedFromArray ==
    ASSUME ValuesInv, NEW a \in Arrays, NEW i \in Int, NEW j \in Int,
           NEW src \in Pushed(SubSeq(items[a], InsertIndex(a, i) + 1, InsertIndex(a, j)))
    PROVE  FromArray(a, src)
<1>. DEFINE q    == items[a]
            c    == count[a]
            lo   == InsertIndex(a, i)
            hi   == InsertIndex(a, j)
            part == SubSeq(q, lo + 1, hi)
<1>1. c \in Nat /\ \A k \in 1..c : q[k] \in Value
  BY DEF ValuesInv, TypeOK
<1>2. lo \in 0..c /\ hi \in 0..c
  BY <1>1 DEF InsertIndex
<1>. HIDE DEF q, c, lo, hi
<1>3. /\ Len(part) \in 0..c
      /\ \A m \in 1..Len(part) : \E k \in 1..c : part[m] = q[k] /\ q[k] \in Value
  BY <1>1, <1>2, SourceOfSlice
<1>4. src \in Pushed(part)
  BY DEF q, lo, hi
<1>. HIDE DEF part
<1>5. Len(part) \in Nat
  BY <1>1, <1>3
<1>6. /\ Len(src) \in 0..Len(part)
      /\ \A m \in 1..Len(src) : \E l \in 1..Len(part) : src[m] = part[l]
  <2>1. PICK from \in Store!Thinnings(Len(part)) :
           /\ src = [m \in DOMAIN from |-> part[from[m]]]
           /\ Len(src) \in 0..Len(part) /\ DOMAIN from = 1..Len(src)
           /\ \A m \in 1..Len(src) : from[m] \in 1..Len(part) /\ src[m] = part[from[m]]
    BY <1>4, <1>5, PushedItems
  <2>. QED  BY <2>1
<1>7. /\ Len(src) \in Nat /\ Len(src) <= c
      /\ \A m \in 1..Len(src) : src[m] \in Value /\ \E k \in 1..c : src[m] = q[k]
  BY <1>1, <1>3, <1>6
<1>. QED  BY <1>7 DEF FromArray, c, q

LEMMA SliceCopies ==
    ASSUME ValuesInv, NEW a \in Arrays, NEW b \in Arrays, b # a, NEW src, FromArray(a, src),
           Filled(b, src)
    PROVE  \E home : SliceFrom(a, b, src, home)
<1>. DEFINE home == CHOOSE h \in Homes(src) : TRUE
            n    == Len(src)
            made == {m \in 1..n : src[m].kind = "string"}
            new  == CopiedItems(src, home)
            e(m) == IF m <= n THEN new[m] ELSE Junk
<1>1. TypeOK
  BY DEF ValuesInv
<1>2. PICK cap \in Capacities(n) : items' = [items EXCEPT ![b] = [m \in 1..cap |-> e(m)]]
  BY DEF Filled
<1>3. /\ Homes(src) # {} /\ count' = [count EXCEPT ![b] = n] /\ cell' = CopiedTexts(src, home)
      /\ UNCHANGED <<entries, size, held>>
  BY DEF Filled
<1>4. /\ n \in Nat /\ n <= count[a] /\ \A m \in 1..n : src[m] \in Value
      /\ \A m \in 1..n : \E k \in 1..count[a] : src[m] = items[a][k]
  BY DEF FromArray
<1>5. home \in [made -> FreeCells] /\ \A k, m \in made : home[k] = home[m] => k = m
  <2>1. home \in Homes(src)
    BY <1>3
  <2>. QED  BY <2>1 DEF Homes
<1>. HIDE DEF home
<1>6. cap \in Nat /\ n <= cap
  BY <1>4 DEF Capacities
<1>7. \A m \in 1..n : e(m) = IF m \in made THEN String(home[m]) ELSE src[m]
  <2>1. ASSUME NEW m \in made
        PROVE  [src[m] EXCEPT !.v = home[m]] = String(home[m])
    <3>1. src[m] = String(src[m].v)
      BY <1>4, ValueCell
    <3>. QED  BY <3>1 DEF String
  <2>2. \A m \in 1..n : e(m) = IF m \in made THEN [src[m] EXCEPT !.v = home[m]] ELSE src[m]
    BY <1>4 DEF CopiedItems
  <2>. QED  BY <2>1, <2>2
<1>. HIDE DEF e, made, n
<1>8. \A m \in made : m \in 1..n /\ home[m] \in Cells /\ cell[home[m]] = Free
  BY <1>5 DEF made, FreeCells
<1>9. \A m \in 1..n : e(m) \in Value /\ \A c : e(m) = String(c) => m \in made /\ c = home[m]
  <2>1. \A c, d : String(c) = String(d) => c = d
    BY DEF String
  <2>2. \A c \in Cells : String(c) \in Value
    BY DEF String, Value
  <2>3. \A m \in (1..n) \ made : \A c : src[m] # String(c)
    BY DEF made, String
  <2>. QED  BY <1>4, <1>7, <1>8, <2>1, <2>2, <2>3
<1>10. /\ \A p \in Cells : (\A m \in made : home[m] # p) => cell'[p] = cell[p]
       /\ \A m \in made : cell'[home[m]] = cell[src[m].v] /\ cell'[home[m]] \in Literals
  <2>1. \A p \in Cells : cell'[p] =
           IF \E m \in made : home[m] = p
           THEN cell[src[CHOOSE m \in made : home[m] = p].v] ELSE cell[p]
    <3>1. DOMAIN home = made
      BY <1>5
    <3>. QED  BY <1>3, <3>1 DEF CopiedTexts
  <2>2. ASSUME NEW m \in made
        PROVE  cell'[home[m]] = cell[src[m].v] /\ cell'[home[m]] \in Literals
    <3>1. (CHOOSE k \in made : home[k] = home[m]) = m
      BY <1>5
    <3>2. cell'[home[m]] = cell[src[m].v]
      BY <1>8, <2>1, <3>1
    <3>3. m \in 1..n /\ src[m] = String(src[m].v) /\ src[m].v \in Cells
      BY <1>4, ValueCell DEF made
    <3>4. PICK k \in 1..count[a] : items[a][k] = src[m]
      BY <1>4, <3>3
    <3>5. k \in Nat /\ ItemIs(a, k, src[m].v)
      BY <1>1, <3>3, <3>4 DEF ItemIs, TypeOK
    <3>6. cell[src[m].v] # Free
      BY <3>3, <3>5 DEF ValuesInv, OwnedByItem
    <3>. QED  BY <1>1, <3>2, <3>3, <3>6 DEF TypeOK
  <2>. QED  BY <2>1, <2>2
<1>11. /\ items' \in [Arrays -> Seq(Value \cup {Junk})] /\ count' \in [Arrays -> Nat]
       /\ items'[b] = [m \in 1..cap |-> e(m)] /\ count'[b] = n /\ Len(items'[b]) = cap
       /\ \A d \in Arrays \ {b} : items'[d] = items[d] /\ count'[d] = count[d]
  <2>. DEFINE S == Value \cup {Junk}
  <2>1. \A m \in 1..cap : e(m) \in S
    <3>1. \A m \in 1..cap : m \notin 1..n => e(m) = Junk
      BY <1>4, <1>6 DEF e
    <3>. QED  BY <1>9, <3>1
  <2>. HIDE DEF S
  <2>2. [m \in 1..cap |-> e(m)] \in Seq(S) /\ Len([m \in 1..cap |-> e(m)]) = cap
    BY <1>6, <2>1
  <2>3. items \in [Arrays -> Seq(S)] /\ count \in [Arrays -> Nat]
    BY <1>1 DEF TypeOK, S
  <2>4. items' \in [Arrays -> Seq(S)]
    BY <1>2, <2>2, <2>3
  <2>. QED  BY <1>2, <1>3, <1>4, <2>2, <2>3, <2>4 DEF S
<1>12. cell' \in [Cells -> Literals \cup {Free}]
  <2>1. cell' = [p \in Cells |-> cell'[p]]
    BY <1>3 DEF CopiedTexts
  <2>2. \A p \in Cells : cell'[p] \in Literals \cup {Free}
    BY <1>1, <1>10 DEF TypeOK
  <2>. QED  BY <2>1, <2>2
<1>13. \A c \in Cells : cell[c] # Free => cell'[c] = cell[c]
  BY <1>8, <1>10
<1>14. \A m \in 1..n : (src[m].kind = "string" <=> m \in made)
  BY DEF made
<1>15. /\ b # a /\ n \in 0..count[a] /\ count[a] \in Nat
       /\ n <= Len(items'[b]) /\ n = Len(src)
  <2>1. b # a
    OBVIOUS
  <2>2. count[a] \in Nat
    BY <1>1 DEF TypeOK
  <2>3. n = Len(src)
    BY DEF n
  <2>. QED  BY <1>4, <1>6, <1>11, <2>1, <2>2, <2>3
<1>16. \A m \in 1..n : items'[b][m] = IF src[m].kind = "string" THEN String(home[m]) ELSE src[m]
  BY <1>4, <1>6, <1>7, <1>11, <1>14
<1>17. \A m \in 1..n : src[m].kind = "string" =>
          /\ home[m] \in Cells /\ cell[home[m]] = Free
          /\ cell'[home[m]] = cell[src[m].v] /\ cell'[home[m]] # Free
          /\ \A k \in 1..n : src[k].kind = "string" /\ home[k] = home[m] => k = m
  BY <1>5, <1>8, <1>10, <1>14
<1>18. SliceFrom(a, b, src, home)
  <2>1. n = Len(src)
    BY <1>15
  <2>2. \A m \in 1..Len(src) : src[m] \in Value /\ \E k \in 1..count[a] : src[m] = items[a][k]
    BY <1>4, <2>1
  <2>3. \A m \in 1..Len(src) : src[m].kind = "string" =>
           /\ home[m] \in Cells /\ cell[home[m]] = Free
           /\ cell'[home[m]] = cell[src[m].v] /\ cell'[home[m]] # Free
           /\ \A k \in 1..Len(src) : src[k].kind = "string" /\ home[k] = home[m] => k = m
    BY <1>17, <2>1
  <2>4. \A m \in 1..Len(src) :
           items'[b][m] = IF src[m].kind = "string" THEN String(home[m]) ELSE src[m]
    BY <1>16, <2>1
  <2>. QED  BY <1>3, <1>11, <1>12, <1>13, <1>15, <2>1, <2>2, <2>3, <2>4 DEF SliceFrom
<1>. QED  BY <1>18

\* A slice gives each string a home of its own.
LEMMA SliceOwned ==
    ASSUME ValuesInv, NEW a \in Arrays, NEW b \in Arrays, NEW i \in Int, NEW j \in Int,
           SliceItems(a, i, j, b)
    PROVE  ValuesInv' /\ \E n \in 0..count[a] : count' = [count EXCEPT ![b] = n]
<1>0. PICK src \in Pushed(SubSeq(items[a], InsertIndex(a, i) + 1, InsertIndex(a, j))) :
         b # a /\ Filled(b, src)
  BY DEF SliceItems
<1>. DEFINE n == Len(src)
<1>1. PICK home : SliceFrom(a, b, src, home)
  BY <1>0, PushedFromArray, SliceCopies
<1>2. TypeOK /\ n \in 0..count[a] /\ n \in Nat /\ n <= Len(items'[b])
  BY <1>1 DEF ValuesInv, SliceFrom
<1>3. /\ count' \in [Arrays -> Nat] /\ count'[b] = n
      /\ \A d \in Arrays : d # b => items'[d] = items[d] /\ count'[d] = count[d]
  BY <1>1, <1>2 DEF SliceFrom, TypeOK
<1>4. \A m \in 1..n : \/ src[m].kind = "string" /\ items'[b][m] = String(home[m])
                      \/ src[m].kind # "string" /\ items'[b][m] = src[m]
  BY <1>1 DEF SliceFrom
<1>5. TypeOK'
  <2>1. ASSUME NEW m \in 1..n
        PROVE  items'[b][m] \in Value
    <3>1. src[m] \in Value /\ (src[m].kind = "string" => home[m] \in Cells)
      BY <1>1 DEF SliceFrom
    <3>2. \A c \in Cells : String(c) \in Value
      BY DEF String, Value
    <3>. QED  BY <1>4, <3>1, <3>2
  <2>2. \A d \in Arrays : count'[d] <= Len(items'[d]) /\ \A k \in 1..count'[d] : items'[d][k] \in Value
    BY <1>2, <1>3, <2>1 DEF TypeOK
  <2>3. /\ entries' \in [Objects -> Seq(Field \cup {Junk})] /\ size' \in [Objects -> Nat]
        /\ \A o \in Objects : size'[o] <= Len(entries'[o]) /\ \A k \in 1..size'[o] : entries'[o][k] \in Field
        /\ held' \in Cells \cup {0}
    <3>1. entries' = entries /\ size' = size /\ held' = held
      BY <1>1 DEF SliceFrom
    <3>. QED  BY <1>2, <3>1 DEF TypeOK
  <2>4. items' \in [Arrays -> Seq(Value \cup {Junk})] /\ cell' \in [Cells -> Literals \cup {Free}]
    BY <1>1 DEF SliceFrom
  <2>. QED  BY <1>3, <2>2, <2>3, <2>4, Zenon DEF TypeOK
<1>6. \A k \in Nat, c \in Cells : ItemIs(b, k, c)' =>
         k \in 1..n /\ src[k].kind = "string" /\ c = home[k]
  <2>1. ASSUME NEW k \in Nat, NEW c \in Cells, ItemIs(b, k, c)'
        PROVE  k \in 1..n /\ src[k].kind = "string" /\ c = home[k]
    <3>1. k \in 1..n /\ items'[b][k] = String(c)
      BY <1>3, <2>1 DEF ItemIs
    <3>2. \A d : String(c).kind = "string" /\ (String(c) = String(d) => c = d)
      BY DEF String
    <3>. HIDE DEF n
    <3>. QED  BY <1>4, <3>1, <3>2
  <2>. QED  BY <2>1
<1>7. \A d \in Arrays, k \in Nat, c \in Cells : ItemIs(d, k, c)' /\ d # b => ItemIs(d, k, c)
  BY <1>3 DEF ItemIs
<1>8. \A o \in Objects, k \in Nat, c \in Cells : EntryIs(o, k, c)' <=> EntryIs(o, k, c)
  BY <1>1 DEF EntryIs, SliceFrom
<1>9. \A m \in 1..n : src[m].kind = "string" =>
         /\ cell[home[m]] = Free /\ cell'[home[m]] # Free
         /\ \A k \in 1..n : src[k].kind = "string" /\ home[k] = home[m] => k = m
  BY <1>1 DEF SliceFrom
<1>10. \A c \in Cells : cell[c] # Free => cell'[c] = cell[c]
  BY <1>1 DEF SliceFrom
<1>11. OwnedByItem'
  <2>. HIDE DEF n
  <2>1. ASSUME NEW d \in Arrays, NEW k \in Nat, NEW c \in Cells, ItemIs(d, k, c)'
        PROVE  /\ cell'[c] # Free
               /\ \A g \in Arrays, m \in Nat : ItemIs(g, m, c)' => g = d /\ m = k
    <3>1. CASE d = b
      <4>1. k \in 1..n /\ src[k].kind = "string" /\ c = home[k]
        BY <1>6, <2>1, <3>1
      <4>2. \A g \in Arrays, m \in Nat : ItemIs(g, m, c)' => g = b
        BY <1>7, <1>9, <4>1 DEF ValuesInv, OwnedByItem
      <4>. QED  BY <1>6, <1>9, <3>1, <4>1, <4>2
    <3>2. CASE d # b
      <4>1. ItemIs(d, k, c) /\ cell[c] # Free
        BY <1>7, <2>1, <3>2 DEF ValuesInv, OwnedByItem
      <4>2. \A m \in Nat : ~ItemIs(b, m, c)'
        BY <1>6, <1>9, <4>1
      <4>. QED  BY <1>7, <1>10, <4>1, <4>2 DEF ValuesInv, OwnedByItem
    <3>. QED  BY <3>1, <3>2
  <2>. QED  BY <2>1 DEF OwnedByItem
<1>12. OwnedByEntry'
  BY <1>8, <1>10 DEF ValuesInv, OwnedByEntry
<1>13. OwnedApart'
  BY <1>6, <1>7, <1>8, <1>9 DEF ValuesInv, OwnedApart, OwnedByEntry
<1>. QED  BY <1>1, <1>2, <1>5, <1>11, <1>12, <1>13 DEF ValuesInv, SliceFrom

-----------------------------------------------------------------------------
(* The calls on objects. *)

\* adn_object_store_value adds a key that is not there, so that the first entry with
\* a key is the only one.
KeysDistinct ==
    \A o \in Objects : \A i, j \in 1..size[o] : entries[o][i].key = entries[o][j].key => i = j

LEMMA FindPlace ==
    ASSUME TypeOK, KeysDistinct, NEW o \in Objects, NEW key
    PROVE  /\ Find(o, key) # 0 => Find(o, key) \in 1..size[o] /\ entries[o][Find(o, key)].key = key
           /\ Find(o, key) = 0 => \A i \in 1..size[o] : entries[o][i].key # key
<1>. DEFINE at == {i \in 1..size[o] : entries[o][i].key = key}
<1>1. size[o] \in Nat
  BY DEF TypeOK
<1>2. CASE at = {}
  BY <1>2 DEF Find
<1>3. CASE at # {}
  <2>1. PICK i \in at : TRUE
    BY <1>3
  <2>2. \A j \in at : i <= j
    BY <1>1, <2>1 DEF KeysDistinct
  <2>3. Find(o, key) = CHOOSE k \in at : \A j \in at : k <= j
    BY <1>3 DEF Find
  <2>4. Find(o, key) \in at
    BY <2>1, <2>2, <2>3
  <2>. QED  BY <1>1, <2>4
<1>. QED  BY <1>2, <1>3

\* A step of one object: the entry at one place is new, and the string c0 that was
\* there before, if there was one, is freed.
ObjectChange(o, at, key, x, mem, buf, n) ==
    /\ entries' = [entries EXCEPT ![o] = buf] /\ size' = [size EXCEPT ![o] = n]
    /\ UNCHANGED <<items, count, held>>
    /\ n <= Len(buf) /\ at \in 1..n /\ size[o] <= n
    /\ buf[at] = [key |-> key, x |-> x]
    /\ \A i \in 1..n : i # at => i \in 1..size[o] /\ buf[i] = entries[o][i]
    /\ Made(x, mem)
    /\ \/ at > size[o] /\ cell' = mem
       \/ at \in 1..size[o] /\ cell' = Released(mem, entries[o][at].x)

LEMMA ObjectChangeType ==
    ASSUME TypeOK, NEW o \in Objects, NEW key \in Keys, NEW x, NEW mem,
           NEW buf \in Seq(Field \cup {Junk}), NEW n \in Nat, NEW at,
           ObjectChange(o, at, key, x, mem, buf, n)
    PROVE  TypeOK'
<1>1. x \in Value /\ mem \in [Cells -> Literals \cup {Free}]
  BY MadeType DEF ObjectChange
<1>2. cell' \in [Cells -> Literals \cup {Free}]
  BY <1>1 DEF ObjectChange, Released
<1>3. /\ entries' \in [Objects -> Seq(Field \cup {Junk})] /\ size' \in [Objects -> Nat]
      /\ entries'[o] = buf /\ size'[o] = n
      /\ \A u \in Objects \ {o} : entries'[u] = entries[u] /\ size'[u] = size[u]
  BY DEF ObjectChange, TypeOK
<1>4. \A i \in 1..n : buf[i] \in Field
  <2>1. ASSUME NEW i \in 1..n, i # at
        PROVE  buf[i] \in Field
    BY <2>1 DEF ObjectChange, TypeOK
  <2>2. buf[at] \in Field
    BY <1>1 DEF ObjectChange, Field
  <2>. QED  BY <2>1, <2>2
<1>5. \A u \in Objects : size'[u] <= Len(entries'[u]) /\ \A i \in 1..size'[u] : entries'[u][i] \in Field
  <2>1. ASSUME NEW u \in Objects, u # o
        PROVE  size'[u] <= Len(entries'[u]) /\ \A i \in 1..size'[u] : entries'[u][i] \in Field
    BY <1>3, <2>1 DEF TypeOK
  <2>2. size'[o] <= Len(entries'[o]) /\ \A i \in 1..size'[o] : entries'[o][i] \in Field
    BY <1>3, <1>4 DEF ObjectChange
  <2>. QED  BY <2>1, <2>2
<1>6. /\ items' \in [Arrays -> Seq(Value \cup {Junk})] /\ count' \in [Arrays -> Nat]
      /\ \A a \in Arrays : count'[a] <= Len(items'[a]) /\ \A i \in 1..count'[a] : items'[a][i] \in Value
      /\ held' \in Cells \cup {0}
  <2>1. items' = items /\ count' = count /\ held' = held
    BY DEF ObjectChange
  <2>. QED  BY <2>1 DEF TypeOK
<1>. QED  BY <1>2, <1>3, <1>5, <1>6, Zenon DEF TypeOK

LEMMA ObjectChangeOwned ==
    ASSUME ValuesInv, NEW o \in Objects, NEW key \in Keys, NEW x, NEW mem,
           NEW buf \in Seq(Field \cup {Junk}), NEW n \in Nat, NEW at,
           ObjectChange(o, at, key, x, mem, buf, n)
    PROVE  ValuesInv'
<1>1. TypeOK' /\ TypeOK
  BY ObjectChangeType DEF ValuesInv
<1>2. size[o] \in Nat /\ at \in 1..n /\ at \in Nat /\ buf[at].x = x
  BY <1>1 DEF ObjectChange, TypeOK
<1>3. PICK f : \* the place of the new string, or none
         /\ \A c \in Cells : c # f => mem[c] = cell[c]
         /\ \A c \in Cells : cell[c] # Free => c # f
         /\ \A c \in Cells : c = f => mem[c] # Free
         /\ \A c \in Cells : x = String(c) => c = f
  <2>1. CASE x \in Scalars /\ mem = cell
    <3>1. 0 \notin Cells
      BY DEF Cells
    <3>2. \A c : x # String(c)
      BY <2>1 DEF String
    <3>. QED  BY <2>1, <3>1, <3>2
  <2>2. ASSUME NEW p \in Cells, NEW t \in Literals, cell[p] = Free, x = String(p),
               mem = [cell EXCEPT ![p] = t]
        PROVE  \E f : /\ \A c \in Cells : c # f => mem[c] = cell[c]
                      /\ \A c \in Cells : cell[c] # Free => c # f
                      /\ \A c \in Cells : c = f => mem[c] # Free
                      /\ \A c \in Cells : x = String(c) => c = f
    <3>1. \A c : String(c) = String(p) => c = p
      BY DEF String
    <3>2. WITNESS p
    <3>3. cell \in [Cells -> Literals \cup {Free}]
      BY <1>1 DEF TypeOK
    <3>. QED  BY <2>2, <3>1, <3>3
  <2>. QED  BY <2>1, <2>2 DEF ObjectChange, Made, String
<1>4. PICK r : \* the place of the string that is freed, or none
         /\ \A c \in Cells : c # r => cell'[c] = mem[c]
         /\ \A c \in Cells : c = r => EntryIs(o, at, c)
         /\ \A c \in Cells : EntryIs(o, at, c) => c = r
  <2>1. CASE at > size[o] /\ cell' = mem
    <3>1. 0 \notin Cells /\ \A c : ~EntryIs(o, at, c)
      BY <1>2, <2>1 DEF Cells, EntryIs
    <3>. QED  BY <2>1, <3>1
  <2>2. CASE at \in 1..size[o] /\ cell' = Released(mem, entries[o][at].x)
    <3>. DEFINE y == entries[o][at].x
    <3>1. y \in Value
      BY <1>1, <2>2 DEF TypeOK, Field
    <3>2. \A c : EntryIs(o, at, c) <=> y = String(c)
      BY <2>2 DEF EntryIs
    <3>3. CASE y.kind = "string"
      <4>1. y.v \in Cells /\ y = String(y.v)
        BY <3>1, <3>3, ValueCell
      <4>2. cell' = [mem EXCEPT ![y.v] = Free]
        BY <2>2, <3>3 DEF Released
      <4>3. mem \in [Cells -> Literals \cup {Free}]
        BY <1>1, MadeType DEF ObjectChange
      <4>4. \A c : y = String(c) => c = y.v
        BY DEF String
      <4>. HIDE DEF y
      <4>. QED  BY <3>2, <4>1, <4>2, <4>3, <4>4
    <3>4. CASE y.kind # "string"
      <4>1. cell' = mem /\ 0 \notin Cells /\ \A c : y # String(c)
        BY <2>2, <3>4 DEF Released, Cells, String
      <4>. HIDE DEF y
      <4>. QED  BY <3>2, <4>1
    <3>. QED  BY <3>3, <3>4
  <2>. QED  BY <2>1, <2>2 DEF ObjectChange
<1>5. \A u \in Objects, i \in Nat, c \in Cells : EntryIs(u, i, c)' =>
         (EntryIs(u, i, c) /\ (u # o \/ i # at)) \/ (u = o /\ i = at /\ c = f)
  <2>1. /\ entries'[o] = buf /\ size'[o] = n
        /\ \A u \in Objects \ {o} : entries'[u] = entries[u] /\ size'[u] = size[u]
    BY <1>1 DEF ObjectChange, TypeOK
  <2>2. ASSUME NEW u \in Objects, NEW i \in Nat, NEW c \in Cells, EntryIs(u, i, c)', u # o
        PROVE  EntryIs(u, i, c)
    BY <2>1, <2>2 DEF EntryIs
  <2>3. ASSUME NEW i \in Nat, NEW c \in Cells, EntryIs(o, i, c)', i # at
        PROVE  EntryIs(o, i, c)
    BY <2>1, <2>3 DEF EntryIs, ObjectChange
  <2>4. ASSUME NEW c \in Cells, EntryIs(o, at, c)'
        PROVE  c = f
    BY <1>2, <1>3, <2>1, <2>4 DEF EntryIs
  <2>. QED  BY <2>2, <2>3, <2>4
<1>6. \A a \in Arrays, i \in Nat, c \in Cells : ItemIs(a, i, c)' <=> ItemIs(a, i, c)
  BY DEF ItemIs, ObjectChange
<1>7. \A c \in Cells : c = r => cell[c] # Free
  BY <1>2, <1>4 DEF ValuesInv, OwnedByEntry
<1>8. \A c \in Cells : c = f => cell'[c] # Free
  BY <1>3, <1>4, <1>7
<1>9. \A u \in Objects, i \in Nat, c \in Cells : EntryIs(u, i, c) =>
         c # f /\ cell[c] # Free /\ (c = r => u = o /\ i = at)
  BY <1>2, <1>3, <1>4 DEF ValuesInv, OwnedByEntry
<1>10. \A a \in Arrays, i \in Nat, c \in Cells : ItemIs(a, i, c) => c # f /\ cell[c] # Free /\ c # r
  <2>1. ASSUME NEW a \in Arrays, NEW i \in Nat, NEW c \in Cells, ItemIs(a, i, c)
        PROVE  c # f /\ cell[c] # Free
    BY <1>3, <2>1 DEF ValuesInv, OwnedByItem
  <2>2. ASSUME NEW a \in Arrays, NEW i \in Nat, NEW c \in Cells, ItemIs(a, i, c), c = r
        PROVE  FALSE
    <3>1. EntryIs(o, at, c)
      BY <1>4, <2>2
    <3>. QED  BY <1>2, <2>2, <3>1 DEF ValuesInv, OwnedApart
  <2>. QED  BY <2>1, <2>2
<1>11. \A c \in Cells : cell[c] # Free /\ c # r => cell'[c] # Free
  BY <1>3, <1>4
<1>12. OwnedByItem'
  <2>1. ASSUME NEW a \in Arrays, NEW i \in Nat, NEW c \in Cells, ItemIs(a, i, c)'
        PROVE  cell'[c] # Free
    <3>1. ItemIs(a, i, c)
      BY <1>6, <2>1
    <3>. QED  BY <1>10, <1>11, <3>1
  <2>2. ASSUME NEW a \in Arrays, NEW i \in Nat, NEW c \in Cells, ItemIs(a, i, c)',
               NEW b \in Arrays, NEW j \in Nat, ItemIs(b, j, c)'
        PROVE  b = a /\ j = i
    <3>1. ItemIs(a, i, c) /\ ItemIs(b, j, c)
      BY <1>6, <2>2
    <3>. QED  BY <3>1 DEF ValuesInv, OwnedByItem
  <2>. QED  BY <2>1, <2>2 DEF OwnedByItem
<1>13. OwnedByEntry'
  <2>1. ASSUME NEW u \in Objects, NEW i \in Nat, NEW c \in Cells, EntryIs(u, i, c)'
        PROVE  cell'[c] # Free
    BY <1>5, <1>8, <1>9, <1>11, <2>1
  <2>2. ASSUME NEW u \in Objects, NEW i \in Nat, NEW c \in Cells, EntryIs(u, i, c)',
               NEW w \in Objects, NEW j \in Nat, EntryIs(w, j, c)'
        PROVE  w = u /\ j = i
    BY <1>5, <1>9, <2>2 DEF ValuesInv, OwnedByEntry
  <2>. QED  BY <2>1, <2>2 DEF OwnedByEntry
<1>14. OwnedApart'
  BY <1>5, <1>6, <1>10 DEF ValuesInv, OwnedApart
<1>. QED  BY <1>1, <1>12, <1>13, <1>14 DEF ValuesInv

LEMMA ObjectChangeKeys ==
    ASSUME TypeOK, KeysDistinct, NEW o \in Objects, NEW key \in Keys, NEW x, NEW mem,
           NEW buf \in Seq(Field \cup {Junk}), NEW n \in Nat, NEW at,
           ObjectChange(o, at, key, x, mem, buf, n),
           \A i \in 1..size[o] : i # at => entries[o][i].key # key
    PROVE  KeysDistinct'
<1>1. /\ entries'[o] = buf /\ size'[o] = n
      /\ \A u \in Objects : u # o => entries'[u] = entries[u] /\ size'[u] = size[u]
  BY DEF ObjectChange, TypeOK
<1>2. buf[at].key = key
  BY DEF ObjectChange
<1>3. \A i \in 1..n : i # at => i \in 1..size[o] /\ buf[i].key = entries[o][i].key
  BY DEF ObjectChange
<1>4. \A i, j \in 1..n : buf[i].key = buf[j].key => i = j
  BY <1>2, <1>3 DEF KeysDistinct
<1>. QED  BY <1>1, <1>4 DEF KeysDistinct

LEMMA ReplaceChanges ==
    ASSUME ValuesInv, KeysDistinct, NEW o \in Objects, NEW key \in Keys, NEW arg \in Args,
           ReplaceField(o, key, arg)
    PROVE  /\ Find(o, key) \in 1..size[o] /\ entries[o][Find(o, key)].key = key
           /\ entries'[o] \in Seq(Field \cup {Junk})
           /\ ObjectChange(o, Find(o, key), key, NewValue(arg), Copied(arg), entries'[o], size[o])
<1>. DEFINE at  == Find(o, key)
            x   == NewValue(arg)
            mem == Copied(arg)
            q   == entries[o]
            buf == [q EXCEPT ![at].x = x]
            n   == size[o]
<1>1. TypeOK /\ Made(x, mem)
  <2>1. TypeOK /\ Fits(arg)
    BY DEF ValuesInv, ReplaceField
  <2>. QED  BY <2>1, ArgumentMade
<1>2. x \in Value
  BY <1>1, MadeType
<1>3. at \in 1..n /\ q[at].key = key
  <2>1. at # 0
    BY DEF ReplaceField
  <2>. QED  BY <1>1, <2>1, FindPlace
<1>4. /\ entries' = [entries EXCEPT ![o] = buf] /\ size' = size
      /\ UNCHANGED <<items, count, held>> /\ cell' = Released(mem, q[at].x)
  BY DEF ReplaceField
<1>5. q \in Seq(Field \cup {Junk}) /\ n \in Nat /\ n <= Len(q) /\ \A i \in 1..n : q[i] \in Field
  BY <1>1 DEF TypeOK
<1>. HIDE DEF at, x, mem, q
<1>6. /\ [q[at] EXCEPT !.x = x] = [key |-> key, x |-> x]
      /\ [key |-> key, x |-> x] \in Field
  BY <1>2, <1>3, <1>5 DEF Field
<1>7. buf = [q EXCEPT ![at] = [key |-> key, x |-> x]]
  BY <1>3, <1>5, <1>6
<1>8. /\ buf \in Seq(Field \cup {Junk}) /\ Len(buf) = Len(q) /\ buf[at] = [key |-> key, x |-> x]
      /\ \A i \in 1..n : i # at => buf[i] = q[i]
  <2>. DEFINE S == Field \cup {Junk}
              e == [key |-> key, x |-> x]
  <2>1. q \in Seq(S) /\ e \in S /\ at \in 1..Len(q) /\ Len(q) \in Nat
    BY <1>3, <1>5, <1>6
  <2>. HIDE DEF S, e, n
  <2>2. /\ [q EXCEPT ![at] = e] \in Seq(S) /\ Len([q EXCEPT ![at] = e]) = Len(q)
        /\ [q EXCEPT ![at] = e][at] = e
        /\ \A i \in 1..n : i # at => [q EXCEPT ![at] = e][i] = q[i]
    BY <1>5, <2>1 DEF n
  <2>. QED  BY <1>7, <2>2 DEF S, e
<1>. HIDE DEF buf
<1>9. ObjectChange(o, at, key, x, mem, buf, n)
  <2>1. size' = [size EXCEPT ![o] = n]
    BY <1>1, <1>4 DEF TypeOK
  <2>2. \A i \in 1..n : i # at => i \in 1..size[o] /\ buf[i] = entries[o][i]
    BY <1>8 DEF q
  <2>3. cell' = Released(mem, entries[o][at].x) /\ at \in 1..size[o]
    BY <1>3, <1>4 DEF q
  <2>4. size[o] <= n
    BY <1>5
  <2>. QED  BY <1>1, <1>3, <1>4, <1>5, <1>8, <2>1, <2>2, <2>3, <2>4 DEF ObjectChange
<1>10. entries'[o] = buf
  BY <1>1, <1>4 DEF TypeOK
<1>. QED  BY <1>3, <1>8, <1>9, <1>10 DEF at, x, mem, q

LEMMA ReplaceOwned ==
    ASSUME ValuesInv, KeysDistinct, NEW o \in Objects, NEW key \in Keys, NEW arg \in Args,
           ReplaceField(o, key, arg)
    PROVE  ValuesInv' /\ KeysDistinct'
<1>1. TypeOK /\ size[o] \in Nat
  BY DEF ValuesInv, TypeOK
<1>2. \A i \in 1..size[o] : i # Find(o, key) => entries[o][i].key # key
  BY ReplaceChanges DEF KeysDistinct
<1>. QED  BY <1>1, <1>2, ReplaceChanges, ObjectChangeOwned, ObjectChangeKeys

LEMMA AddChanges ==
    ASSUME ValuesInv, KeysDistinct, NEW o \in Objects, NEW key \in Keys, NEW arg \in Args,
           AddField(o, key, arg)
    PROVE  /\ \A i \in 1..size[o] : entries[o][i].key # key
           /\ entries'[o] \in Seq(Field \cup {Junk})
           /\ ObjectChange(o, size[o] + 1, key, NewValue(arg), cell', entries'[o], size[o] + 1)
<1>. DEFINE n    == size[o]
            x    == NewValue(arg)
            q    == entries[o]
            e    == [key |-> key, x |-> x]
            S    == Field \cup {Junk}
            room == Reserved(q, n + 1, Junk)
            buf  == [room EXCEPT ![n + 1] = e]
<1>1. TypeOK /\ Made(x, cell')
  <2>1. TypeOK /\ Fits(arg) /\ cell' = Copied(arg)
    BY DEF ValuesInv, AddField
  <2>. QED  BY <2>1, ArgumentMade
<1>2. x \in Value
  BY <1>1, MadeType
<1>3. \A i \in 1..n : q[i].key # key
  <2>1. Find(o, key) = 0
    BY DEF AddField
  <2>. QED  BY <1>1, <2>1, FindPlace
<1>4. /\ entries' = [entries EXCEPT ![o] = buf] /\ size' = [size EXCEPT ![o] = n + 1]
      /\ UNCHANGED <<items, count, held>>
  BY DEF AddField
<1>5. q \in Seq(S) /\ n \in Nat /\ n <= Len(q) /\ e \in S /\ Junk \in S /\ Len(q) \in Nat
  BY <1>1, <1>2 DEF TypeOK, Field
<1>6. e.key = key
  OBVIOUS
<1>. HIDE DEF x, q, S, e
<1>7. /\ room \in Seq(S) /\ n + 1 <= Len(room)
      /\ \A i \in 1..Len(q) : room[i] = q[i]
  <2>. HIDE DEF n
  <2>. DEFINE j == Junk
              m == n + 1
  <2>1. j \in S /\ q \in Seq(S) /\ m \in Nat /\ m <= Len(q) + 1
    BY <1>5
  <2>. HIDE DEF j, m, room, buf
  <2>2. /\ Reserved(q, m, j) \in Seq(S) /\ m <= Len(Reserved(q, m, j))
        /\ \A i \in 1..Len(q) : Reserved(q, m, j)[i] = q[i]
    BY <2>1, ReservedKeeps
  <2>. QED  BY <2>2 DEF j, m, room
<1>. HIDE DEF room
<1>8. /\ buf \in Seq(S) /\ Len(buf) = Len(room) /\ buf[n + 1] = e
      /\ \A i \in 1..n : buf[i] = q[i]
  BY <1>5, <1>7
<1>. HIDE DEF buf
<1>9. ObjectChange(o, n + 1, key, x, cell', buf, n + 1)
  <2>1. \A i \in 1..(n + 1) : i # n + 1 => i \in 1..size[o] /\ buf[i] = entries[o][i]
    BY <1>5, <1>8 DEF q
  <2>2. n + 1 <= Len(buf) /\ n + 1 \in 1..(n + 1) /\ n + 1 > size[o] /\ size[o] <= n + 1
    BY <1>5, <1>7, <1>8
  <2>3. buf[n + 1] = [key |-> key, x |-> x]
    BY <1>8 DEF e
  <2>. QED  BY <1>1, <1>4, <2>1, <2>2, <2>3 DEF ObjectChange
<1>10. entries'[o] = buf
  BY <1>1, <1>4 DEF TypeOK
<1>. QED  BY <1>3, <1>8, <1>9, <1>10 DEF x, q, S

LEMMA AddOwned ==
    ASSUME ValuesInv, KeysDistinct, NEW o \in Objects, NEW key \in Keys, NEW arg \in Args,
           AddField(o, key, arg)
    PROVE  ValuesInv' /\ KeysDistinct'
<1>1. TypeOK /\ size[o] + 1 \in Nat
  BY DEF ValuesInv, TypeOK
<1>. QED  BY <1>1, AddChanges, ObjectChangeOwned, ObjectChangeKeys

LEMMA GetFieldOwned ==
    ASSUME ValuesInv, KeysDistinct, NEW o \in Objects, NEW key, NEW k, GetField(o, key, k)
    PROVE  ValuesInv'
<1>. DEFINE at == Find(o, key)
            x  == IF at = 0 THEN Junk ELSE entries[o][at].x
<1>1. TypeOK /\ HandedOut(k, x) /\ UNCHANGED <<items, count, entries, size, cell>>
  BY DEF ValuesInv, GetField
<1>2. x.kind = "string" => x.v \in Cells
  <2>1. CASE at = 0
    BY <2>1 DEF Junk
  <2>2. CASE at # 0
    <3>1. at \in 1..size[o]
      BY <1>1, <2>2, FindPlace
    <3>2. entries[o][at].x \in Value
      BY <1>1, <3>1 DEF TypeOK, Field
    <3>. QED  BY <2>2, <3>2, ValueCell
  <2>. QED  BY <2>1, <2>2
<1>. HIDE DEF x
<1>3. held' \in Cells \cup {0}
  BY <1>1, <1>2, HandedOutType
<1>. QED  BY <1>1, <1>3, ReadOwned

-----------------------------------------------------------------------------
(* Every call. *)

\* A push or an insert is not called on an array at the bound.
WithinBound == \A a \in Arrays : count[a] <= MaxItems

IInv == ValuesInv /\ KeysDistinct /\ WithinBound

LEMMA InitOwned == Init => IInv
<1>. SUFFICES ASSUME Init PROVE IInv
  OBVIOUS
<1>1. TypeOK
  BY DEF Init, TypeOK
<1>2. OwnedByItem /\ OwnedByEntry /\ OwnedApart /\ KeysDistinct /\ WithinBound
  BY DEF Init, OwnedByItem, OwnedByEntry, OwnedApart, ItemIs, EntryIs, KeysDistinct, WithinBound
<1>. QED  BY <1>1, <1>2 DEF IInv, ValuesInv

\* A call on arrays leaves the objects alone, and the other way round.
LEMMA ArraysApart ==
    ASSUME IInv, ValuesInv', UNCHANGED <<entries, size>>, NEW a \in Arrays, NEW n \in Nat,
           count' = [count EXCEPT ![a] = n], n <= MaxItems
    PROVE  IInv'
<1>1. KeysDistinct'
  BY DEF IInv, KeysDistinct
<1>2. WithinBound'
  BY DEF IInv, WithinBound, ValuesInv, TypeOK
<1>. QED  BY <1>1, <1>2 DEF IInv

LEMMA CallOwned ==
    ASSUME IInv, ValuesInv', UNCHANGED <<count, entries, size>>
    PROVE  IInv'
BY DEF IInv, KeysDistinct, WithinBound

LEMMA ObjectsApart ==
    ASSUME IInv, ValuesInv', KeysDistinct', UNCHANGED count
    PROVE  IInv'
BY DEF IInv, WithinBound

\* A command that is given no string frees nothing.
LEMMA RunKeeps ==
    ASSUME cell \in [Cells -> Literals \cup {Free}], RunsCommands = FALSE, NEW a, RunCommand(a)
    PROVE  UNCHANGED <<items, count, entries, size, cell, held>>
<1>1. Strings(a) = {}
  BY DEF RunCommand
<1>2. cell' = [p \in Cells |-> IF p \in Strings(a) THEN Free ELSE cell[p]]
  BY DEF RunCommand
<1>3. cell' = cell
  BY <1>1, <1>2
<1>. QED  BY <1>3 DEF RunCommand

LEMMA ArrayCallOwned ==
    ASSUME IInv, RunsCommands = FALSE, NEW a \in Arrays, ArrayCall(a)
    PROVE  IInv'
<1>1. ValuesInv /\ count[a] \in Nat /\ count \in [Arrays -> Nat] /\ \A d \in Arrays : count[d] <= MaxItems
  BY DEF IInv, WithinBound, ValuesInv, TypeOK
<1>2. Indices \subseteq Int
  BY DEF Indices
<1>3. ASSUME NEW arg \in Args, PushItem(a, arg)
      PROVE  IInv'
  <2>1. ValuesInv'
    BY <1>1, <1>3, PushOwned
  <2>2. count' = [count EXCEPT ![a] = count[a] + 1] /\ count[a] + 1 <= MaxItems
        /\ UNCHANGED <<entries, size>> /\ count[a] + 1 \in Nat
    BY <1>1, <1>3 DEF PushItem
  <2>. QED  BY <2>1, <2>2, ArraysApart
<1>4. ASSUME NEW arg \in Args, NEW i \in Indices, InsertItem(a, i, arg)
      PROVE  IInv'
  <2>1. ValuesInv'
    BY <1>1, <1>2, <1>4, InsertOwned
  <2>2. count' = [count EXCEPT ![a] = count[a] + 1] /\ count[a] + 1 <= MaxItems
        /\ UNCHANGED <<entries, size>> /\ count[a] + 1 \in Nat
    BY <1>1, <1>4 DEF InsertItem
  <2>. QED  BY <2>1, <2>2, ArraysApart
<1>5. CASE ArrayFull(a)
  <2>1. UNCHANGED <<items, count, entries, size, cell>> /\ held' \in Cells \cup {0}
    BY <1>1, <1>5 DEF ArrayFull, Lost, ValuesInv, TypeOK
  <2>. QED  BY <1>1, <2>1, ReadOwned, CallOwned
<1>6. ASSUME NEW k, NEW i \in Indices \cup {0}, PopItem(a, k) \/ RemoveItem(a, i, k)
      PROVE  IInv'
  <2>1. ValuesInv'
    BY <1>1, <1>2, <1>6, RemoveOwned
  <2>2. PICK m \in Int : Take(a, m)
    BY <1>1, <1>2, <1>6 DEF PopItem, RemoveItem
  <2>3. PICK n \in Nat : count' = [count EXCEPT ![a] = n] /\ n <= count[a]
    <3>. DEFINE r == IF InRange(a, m) THEN count[a] - 1 ELSE count[a]
    <3>1. r \in Nat /\ r <= count[a]
      BY <1>1 DEF InRange
    <3>2. count' = [count EXCEPT ![a] = r]
      BY <2>2, Zenon DEF Take
    <3>. HIDE DEF r
    <3>. QED  BY <3>1, <3>2
  <2>4. UNCHANGED <<entries, size>> /\ n <= MaxItems
    BY <1>1, <2>2, <2>3 DEF Take
  <2>. QED  BY <2>1, <2>3, <2>4, ArraysApart
<1>7. ASSUME NEW k, NEW i \in Indices, GetItem(a, i, k)
      PROVE  IInv'
  <2>1. ValuesInv'
    BY <1>1, <1>2, <1>7, GetItemOwned
  <2>2. UNCHANGED <<count, entries, size>>
    BY <1>7 DEF GetItem
  <2>. QED  BY <2>1, <2>2, CallOwned
<1>8. CASE ClearItems(a)
  <2>1. ValuesInv'
    BY <1>1, <1>8, ClearOwned
  <2>2. count' = [count EXCEPT ![a] = 0] /\ UNCHANGED <<entries, size>>
        /\ 0 \in Nat /\ 0 <= MaxItems
    BY <1>8 DEF ClearItems
  <2>. QED  BY <2>1, <2>2, ArraysApart
<1>9. ASSUME NEW b \in Arrays, NEW i \in Indices, NEW j \in Indices, SliceItems(a, i, j, b)
      PROVE  IInv'
  <2>1. ValuesInv' /\ \E n \in 0..count[a] : count' = [count EXCEPT ![b] = n]
    BY <1>1, <1>2, <1>9, SliceOwned
  <2>2. PICK n \in 0..count[a] : count' = [count EXCEPT ![b] = n]
    BY <2>1
  <2>3. UNCHANGED <<entries, size>> /\ n \in Nat /\ n <= MaxItems
    BY <1>1, <1>9 DEF SliceItems, Filled
  <2>4. ValuesInv' /\ b \in Arrays /\ IInv
    BY <2>1
  <2>. QED  BY <2>2, <2>3, <2>4, ArraysApart
<1>10. CASE RunCommand(a)
  <2>1. cell \in [Cells -> Literals \cup {Free}] /\ held \in Cells \cup {0}
    BY <1>1 DEF ValuesInv, TypeOK
  <2>2. UNCHANGED <<items, count, entries, size, cell, held>>
    BY <1>10, <2>1, RunKeeps
  <2>. QED  BY <1>1, <2>1, <2>2, ReadOwned, CallOwned
<1>. QED  BY <1>3, <1>4, <1>5, <1>6, <1>7, <1>8, <1>9, <1>10 DEF ArrayCall

LEMMA ObjectCallOwned ==
    ASSUME IInv, NEW o \in Objects, ObjectCall(o)
    PROVE  IInv'
<1>1. ValuesInv /\ KeysDistinct
  BY DEF IInv
<1>2. PICK key \in Keys :
         \/ \E arg \in Args : ReplaceField(o, key, arg) \/ AddField(o, key, arg)
         \/ ObjectFull(o, key)
         \/ \E k \in Store!Kinds : GetField(o, key, k)
         \/ HasField(o, key)
  BY DEF ObjectCall
<1>3. ASSUME NEW arg \in Args, ReplaceField(o, key, arg) \/ AddField(o, key, arg)
      PROVE  IInv'
  <2>1. ValuesInv' /\ KeysDistinct'
    BY <1>1, <1>3, ReplaceOwned, AddOwned
  <2>2. UNCHANGED count
    BY <1>3 DEF ReplaceField, AddField
  <2>. QED  BY <2>1, <2>2, ObjectsApart
<1>4. CASE ObjectFull(o, key) \/ HasField(o, key)
  <2>1. UNCHANGED <<items, count, entries, size, cell>> /\ held' \in Cells \cup {0}
    BY <1>1, <1>4 DEF ObjectFull, HasField, Lost, ValuesInv, TypeOK
  <2>. QED  BY <1>1, <2>1, ReadOwned, CallOwned
<1>5. ASSUME NEW k, GetField(o, key, k)
      PROVE  IInv'
  <2>1. ValuesInv'
    BY <1>1, <1>5, GetFieldOwned
  <2>2. UNCHANGED <<count, entries, size>>
    BY <1>5 DEF GetField
  <2>. QED  BY <2>1, <2>2, CallOwned
<1>. QED  BY <1>2, <1>3, <1>4, <1>5

LEMMA NextOwned ==
    ASSUME RunsCommands = FALSE, IInv, [Next]_vars
    PROVE  IInv'
<1>1. CASE UNCHANGED vars
  <2>1. UNCHANGED <<items, count, entries, size, cell>> /\ held' \in Cells \cup {0} /\ ValuesInv
    BY <1>1 DEF vars, IInv, ValuesInv, TypeOK
  <2>. QED  BY <2>1, ReadOwned, CallOwned
<1>2. CASE Next
  BY <1>2, ArrayCallOwned, ObjectCallOwned DEF Next
<1>. QED  BY <1>1, <1>2

LEMMA Invariance ==
    ASSUME RunsCommands = FALSE
    PROVE  Spec => []IInv
<1>1. IInv /\ [Next]_vars => IInv'
  BY NextOwned
<1>. QED  BY <1>1, InitOwned, PTL DEF Spec

-----------------------------------------------------------------------------
(* The theorems. *)

\* Buffers, counts and memory are well formed in every state.
THEOREM TypeCorrect ==
    ASSUME RunsCommands = FALSE
    PROVE  Spec => []TypeOK
<1>1. IInv => TypeOK
  BY DEF IInv, ValuesInv
<1>. QED  BY <1>1, Invariance, PTL

\* The places of a string, in the two forms.
LEMMA KeepsMeans ==
    ASSUME IInv, NEW p \in Places, NEW c \in Cells, Keeps(p, c)
    PROVE  \/ /\ p[1] = "item" /\ p[2] \in Arrays /\ p[3] \in Nat /\ ItemIs(p[2], p[3], c)
           \/ /\ p[1] = "entry" /\ p[2] \in Objects /\ p[3] \in Keys
              /\ Find(p[2], p[3]) \in Nat /\ EntryIs(p[2], Find(p[2], p[3]), c)
              /\ entries[p[2]][Find(p[2], p[3])].key = p[3]
<1>1. Junk # String(c) /\ ValueAt(p) = String(c) /\ TypeOK /\ KeysDistinct
  BY DEF Keeps, Junk, String, IInv, ValuesInv
<1>2. CASE p \in {"item"} \X Arrays \X (1..MaxItems)
  <2>1. p[1] = "item" /\ p[2] \in Arrays /\ p[3] \in Nat /\ p[3] >= 1
    BY <1>2
  <2>. QED  BY <1>1, <2>1 DEF ValueAt, ItemIs, TypeOK
<1>3. CASE p \in {"entry"} \X Objects \X Keys
  <2>1. p[1] = "entry" /\ p[2] \in Objects /\ p[3] \in Keys
    BY <1>3
  <2>2. Find(p[2], p[3]) # 0 /\ entries[p[2]][Find(p[2], p[3])].x = String(c)
    BY <1>1, <2>1 DEF ValueAt
  <2>3. /\ Find(p[2], p[3]) \in 1..size[p[2]] /\ size[p[2]] \in Nat
        /\ entries[p[2]][Find(p[2], p[3])].key = p[3]
    BY <1>1, <2>1, <2>2, FindPlace DEF TypeOK
  <2>. QED  BY <2>1, <2>2, <2>3 DEF EntryIs
<1>. QED  BY <1>2, <1>3 DEF Places

LEMMA PlaceIs ==
    ASSUME NEW p \in Places, NEW q \in Places, p[1] = q[1], p[2] = q[2], p[3] = q[3]
    PROVE  p = q
BY DEF Places

LEMMA InvOwned == IInv => Owned
<1>. SUFFICES ASSUME IInv, NEW c \in Cells, NEW p \in Places, NEW q \in Places, Keeps(p, c)
              PROVE  cell[c] # Free /\ (Keeps(q, c) => p = q)
  BY DEF Owned
<1>1. OwnedByItem /\ OwnedByEntry /\ OwnedApart
  BY DEF IInv, ValuesInv
<1>2. cell[c] # Free
  BY <1>1, KeepsMeans DEF OwnedByItem, OwnedByEntry
<1>3. ASSUME Keeps(q, c)
      PROVE  p = q
  <2>1. p[1] = q[1] /\ p[2] = q[2] /\ p[3] = q[3]
    <3>1. CASE p[1] = "item" /\ q[1] = "item"
      BY <1>1, <1>3, <3>1, KeepsMeans DEF OwnedByItem
    <3>2. CASE p[1] = "entry" /\ q[1] = "entry"
      BY <1>1, <1>3, <3>2, KeepsMeans DEF OwnedByEntry
    <3>3. CASE p[1] # q[1]
      BY <1>1, <1>3, <3>3, KeepsMeans DEF OwnedApart
    <3>. QED  BY <1>3, <3>1, <3>2, <3>3, KeepsMeans
  <2>. QED  BY <2>1, PlaceIs
<1>. QED  BY <1>2, <1>3

\* Every string in an array or object is allocated and is in no other place, whatever
\* is pushed, inserted, popped, removed, cleared, sliced, set and got, with strings that
\* come from the containers themselves among the arguments: adn_array_clear and
\* adn_object_store_value never free a string twice.
THEOREM EachStringHasOneOwner ==
    ASSUME RunsCommands = FALSE
    PROVE  Spec => []Owned
<1>. QED  BY InvOwned, Invariance, PTL

-----------------------------------------------------------------------------
(* Who frees a string. *)

\* A new string takes a free place.
LEMMA MadeFreesNone ==
    ASSUME NEW x, NEW mem, Made(x, mem), NEW c \in Cells, cell \in [Cells -> Literals \cup {Free}],
           cell[c] # Free
    PROVE  mem[c] = cell[c]
BY DEF Made

LEMMA ItemPlace ==
    ASSUME IInv, NEW a \in Arrays, NEW i \in Nat, NEW c \in Cells, ItemIs(a, i, c)
    PROVE  \E p \in Places : Keeps(p, c)
<1>. DEFINE p == <<"item", a, i>>
<1>1. i \in 1..MaxItems /\ i <= count[a] /\ items[a][i] = String(c)
  BY DEF ItemIs, IInv, WithinBound, ValuesInv, TypeOK
<1>2. p \in Places
  BY <1>1 DEF Places
<1>3. Keeps(p, c)
  BY <1>1 DEF Keeps, ValueAt, String
<1>. QED  BY <1>2, <1>3

LEMMA ArrayCallFrees ==
    ASSUME IInv, RunsCommands = FALSE, NEW a \in Arrays, ArrayCall(a),
           NEW c \in Cells, cell[c] # Free, cell'[c] # cell[c]
    PROVE  last'.op = "clear" /\ \E p \in Places : Keeps(p, c)
<1>1. TypeOK /\ cell \in [Cells -> Literals \cup {Free}]
  BY DEF IInv, ValuesInv, TypeOK
<1>2. ASSUME NEW arg \in Args, Fits(arg), cell' = Copied(arg)
      PROVE  FALSE
  BY <1>1, <1>2, ArgumentMade, MadeFreesNone
<1>3. ASSUME NEW b \in Arrays, NEW i \in Indices, NEW j \in Indices, SliceItems(a, i, j, b)
      PROVE  FALSE
  <2>0. PICK src \in Pushed(SubSeq(items[a], InsertIndex(a, i) + 1, InsertIndex(a, j))) : Filled(b, src)
    BY <1>3 DEF SliceItems
  <2>. DEFINE home == CHOOSE h \in Homes(src) : TRUE
  <2>1. Homes(src) # {} /\ cell' = CopiedTexts(src, home)
    BY <2>0 DEF Filled
  <2>2. home \in [{k \in 1..Len(src) : src[k].kind = "string"} -> FreeCells]
    BY <2>1 DEF Homes
  <2>. HIDE DEF home
  <2>3. ~\E k \in DOMAIN home : home[k] = c
    BY <2>2 DEF FreeCells
  <2>. QED  BY <2>1, <2>3 DEF CopiedTexts
<1>4. CASE ClearItems(a)
  <2>1. cell' = [p \in Cells |-> IF p \in Strings(a) THEN Free ELSE cell[p]]
        /\ last'.op = "clear"
    BY <1>4 DEF ClearItems, Call
  <2>2. c \in Strings(a)
    BY <2>1
  <2>3. PICK i \in 1..count[a] : items[a][i].kind = "string" /\ items[a][i].v = c
    BY <2>2 DEF Strings
  <2>4. ItemIs(a, i, c) /\ i \in Nat
    BY <1>1, <2>3, ValueCell DEF TypeOK, ItemIs
  <2>. QED  BY <2>1, <2>4, ItemPlace
<1>5. \A arg \in Args : ~PushItem(a, arg) /\ \A i \in Indices : ~InsertItem(a, i, arg)
  BY <1>2 DEF PushItem, InsertItem
<1>6. ~RunCommand(a)
  BY <1>1, RunKeeps
<1>7. /\ ~ArrayFull(a)
      /\ \A k \in Store!Kinds : ~PopItem(a, k)
      /\ \A k \in Store!Kinds, i \in Indices : ~RemoveItem(a, i, k) /\ ~GetItem(a, i, k)
  BY DEF ArrayFull, Lost, PopItem, RemoveItem, Take, GetItem
<1>. QED  BY <1>3, <1>4, <1>5, <1>6, <1>7 DEF ArrayCall

LEMMA ObjectCallFrees ==
    ASSUME IInv, NEW o \in Objects, ObjectCall(o),
           NEW c \in Cells, cell[c] # Free, cell'[c] # cell[c]
    PROVE  last'.op = "set" /\ \E p \in Places : Keeps(p, c)
<1>1. TypeOK /\ KeysDistinct /\ cell \in [Cells -> Literals \cup {Free}]
  BY DEF IInv, ValuesInv, TypeOK
<1>2. PICK key \in Keys :
         \/ \E arg \in Args : ReplaceField(o, key, arg) \/ AddField(o, key, arg)
         \/ ObjectFull(o, key)
         \/ \E k \in Store!Kinds : GetField(o, key, k)
         \/ HasField(o, key)
  BY DEF ObjectCall
<1>3. ~ObjectFull(o, key) /\ ~HasField(o, key) /\ \A k \in Store!Kinds : ~GetField(o, key, k)
  BY DEF ObjectFull, Lost, HasField, GetField
<1>4. \A arg \in Args : Fits(arg) => Copied(arg)[c] = cell[c] /\ Copied(arg) \in [Cells -> Literals \cup {Free}]
  BY <1>1, ArgumentMade, MadeFreesNone, MadeType
<1>5. \A arg \in Args : ~AddField(o, key, arg)
  BY <1>4 DEF AddField
<1>6. PICK arg \in Args : ReplaceField(o, key, arg)
  BY <1>2, <1>3, <1>5
<1>. DEFINE at == Find(o, key)
            x  == entries[o][at].x
            p  == <<"entry", o, key>>
<1>7. at # 0 /\ cell' = Released(Copied(arg), x) /\ last'.op = "set" /\ Fits(arg)
  BY <1>6 DEF ReplaceField, Call
<1>8. x \in Value
  <2>1. at \in 1..size[o]
    BY <1>1, <1>7, FindPlace
  <2>. QED  BY <1>1, <2>1 DEF TypeOK, Field
<1>9. ValueAt(p) = x
  BY <1>7 DEF ValueAt
<1>. HIDE DEF x, at
<1>10. x.kind = "string" /\ x.v = c
  <2>. DEFINE mem == Copied(arg)
  <2>1. mem[c] = cell[c] /\ mem \in [Cells -> Literals \cup {Free}] /\ cell' = Released(mem, x)
    BY <1>4, <1>7
  <2>. HIDE DEF mem
  <2>. QED  BY <2>1 DEF Released
<1>11. x = String(c)
  BY <1>8, <1>10, ValueCell
<1>12. p \in Places /\ Keeps(p, c)
  BY <1>9, <1>11 DEF Places, Keeps, String
<1>. QED  BY <1>7, <1>12

\* No string is freed but by the clear or the set that removes it from its place: a pop, a
\* remove or a slice frees nothing, and what adn_array_clear and adn_object_store_value
\* free is in no place any more.
THEOREM StringsFreedByOwner ==
    ASSUME RunsCommands = FALSE
    PROVE  Spec => FreedByOwner
<1>. DEFINE Frees(c) == /\ last'.op \in {"clear", "set"}
                        /\ \E p \in Places : Keeps(p, c)
                        /\ \A p \in Places : Keeps(p, c)' => cell'[c] # Free
            Step == \A c \in Cells : cell[c] # Free /\ cell'[c] # cell[c] => Frees(c)
<1>1. IInv' => Owned'
  BY InvOwned, PTL
<1>2. ASSUME IInv, IInv', Next
      PROVE  Step
  <2>. SUFFICES ASSUME NEW c \in Cells, cell[c] # Free, cell'[c] # cell[c]
                PROVE  Frees(c)
    OBVIOUS
  <2>1. last'.op \in {"clear", "set"} /\ \E p \in Places : Keeps(p, c)
    BY <1>2, ArrayCallFrees, ObjectCallFrees DEF Next
  <2>2. \A p \in Places : Keeps(p, c)' => cell'[c] # Free
    BY <1>1, <1>2 DEF Owned
  <2>. QED  BY <2>1, <2>2
<1>3. IInv /\ IInv' /\ [Next]_vars => [Step]_vars
  BY <1>2
<1>. HIDE DEF Step
<1>4. Spec => [][Step]_vars
  BY <1>3, Invariance, PTL DEF Spec
<1>. QED  BY <1>4 DEF Step, FreedByOwner
=============================================================================
