----------------------------- MODULE ValueStore -----------------------------
(***************************************************************************)
(* What the arrays and objects of an ADAN program promise: each holds      *)
(* values, a string is a value like any other, and a value that is read as *)
(* another type is converted.  RuntimeValues.tla implements it with        *)
(* buffers and with strings that are allocated and freed.                  *)
(***************************************************************************)
EXTENDS Integers, Sequences, SequencesExt

CONSTANTS Arrays, Objects, Keys

VARIABLES
    array,     \* array[a]: a sequence of values
    object,    \* object[o]: a value for each key, or Absent
    last       \* the last call, with its result

storeVars == <<array, object, last>>

(* Values.  A float counts halves.  A text is a numeral, in halves as well,  *)
(* written out or with an exponent, or a word that is none.                  *)
I64(n)    == [kind |-> "i64", v |-> n]
F64(h)    == [kind |-> "f64", v |-> h]
Str(t)    == [kind |-> "string", v |-> t]
Ptr(c)    == [kind |-> "ptr", v |-> c]
Word(w)   == <<"word", w>>
Numeral(h) == <<"numeral", h>>
Scientific(h) == <<"scientific", h>>
Null      == "null"
Absent    == [kind |-> "absent"]

Kinds == {"i64", "f64", "string", "ptr"}

\* A conversion from double to int64_t drops the fraction.
Trunc(h) == IF h < 0 THEN -((-h) \div 2) ELSE h \div 2

Abs(h) == IF h < 0 THEN -h ELSE h

\* How many digits of the whole part of h are beyond the first n; a double has 309 at most.
Beyond(h, n) ==
    CHOOSE k \in 0..308 :
        /\ Abs(h) < 2 * 10^(n + k)
        /\ k = 0 \/ Abs(h) >= 2 * 10^(n + k - 1)

\* %g keeps six digits: the half of a number with six before the point is rounded, and what is
\* beyond in a longer one; a tie goes to the even side.
SixDigits(h) ==
    LET unit  == IF Abs(h) < 2 * 10^5 THEN 1 ELSE 2 * 10^Beyond(h, 6)
        down  == Abs(h) \div unit
        rest  == Abs(h) % unit
        up    == 2 * rest > unit \/ (2 * rest = unit /\ down % 2 = 1)
        digits == unit * (IF up THEN down + 1 ELSE down)
    IN  IF h < 0 THEN -digits ELSE digits

\* strtoll: a word is 0, and of a numeral with an exponent only the first digit is read.
Whole(t) ==
    LET first == Abs(t[2]) \div (2 * 10^Beyond(t[2], 1))
    IN  CASE t[1] = "numeral"    -> Trunc(t[2])
          [] t[1] = "scientific" -> IF t[2] < 0 THEN -first ELSE first
          [] t[1] = "word"       -> 0

\* strtod.
Halves(t) == IF t[1] = "word" THEN 0 ELSE t[2]

ToI64(x) ==
    CASE x.kind = "i64"    -> x.v
      [] x.kind = "f64"    -> Trunc(x.v)
      [] x.kind = "string" -> Whole(x.v)
      [] x.kind = "ptr"    -> <<"address", x.v>>

\* The bits of a pointer are taken for a double.
ToF64(x) ==
    CASE x.kind = "i64"    -> 2 * x.v
      [] x.kind = "f64"    -> x.v
      [] x.kind = "string" -> Halves(x.v)
      [] x.kind = "ptr"    -> <<"bits", x.v>>

ToText(x, of) ==
    CASE x.kind = "i64"    -> Numeral(2 * x.v)
      [] x.kind = "f64"    -> IF Abs(SixDigits(x.v)) < 2 * 10^6 THEN Numeral(SixDigits(x.v))
                             ELSE Scientific(SixDigits(x.v))
      [] x.kind = "string" -> x.v
      [] x.kind = "ptr"    -> Word(of)

\* The value x of an array or an object, as `of` says, read as kind k.
As(k, x, of) ==
    CASE k = "i64"    -> ToI64(x)
      [] k = "f64"    -> ToF64(x)
      [] k = "string" -> ToText(x, of)
      [] k = "ptr"    -> IF x.kind = "ptr" THEN x.v ELSE Null

\* What a read that finds nothing yields.
Nothing(k) ==
    CASE k = "string" -> Word("")
      [] k = "ptr"    -> Null
      [] OTHER        -> 0

Clamp(i, n) == IF i < 0 THEN 0 ELSE IF i > n THEN n ELSE i

Call(op, args, res) == [op |-> op, args |-> args, res |-> res]

StoreInit ==
    /\ array = [a \in Arrays |-> <<>>]
    /\ object = [o \in Objects |-> [k \in Keys |-> Absent]]
    /\ last = <<>>

\* Indices count from 0, and one out of range is moved to the nearest end.
InsertItem(a, i, x) ==
    /\ array' = [array EXCEPT ![a] = InsertAt(@, Clamp(i, Len(@)) + 1, x)]
    /\ last' = Call("insert", <<a, i, x>>, <<>>)
    /\ UNCHANGED object

PushItem(a, x) ==
    /\ array' = [array EXCEPT ![a] = Append(@, x)]
    /\ last' = Call("push", <<a, x>>, <<>>)
    /\ UNCHANGED object

\* A call that needed memory and got none leaves everything as it was.
Lost ==
    /\ last' = Call("lost", <<>>, <<>>)
    /\ UNCHANGED <<array, object>>

\* A remove out of range, or a pop from an empty array, yields the number 0.
Taken(a, i) == IF i \in 0..(Len(array[a]) - 1) THEN array[a][i + 1] ELSE I64(0)

RemoveItem(a, i, k) ==
    /\ array' = [array EXCEPT ![a] = IF i \in 0..(Len(@) - 1) THEN RemoveAt(@, i + 1) ELSE @]
    /\ last' = Call("remove", <<a, i, k>>, As(k, Taken(a, i), "[array]"))
    /\ UNCHANGED object

PopItem(a, k) ==
    /\ array' = [array EXCEPT ![a] = IF @ = <<>> THEN @ ELSE Front(@)]
    /\ last' = Call("pop", <<a, k>>, As(k, Taken(a, Len(array[a]) - 1), "[array]"))
    /\ UNCHANGED object

GetItem(a, i, k) ==
    /\ last' = Call("get", <<a, i, k>>,
                    IF i \in 0..(Len(array[a]) - 1)
                    THEN As(k, array[a][i + 1], "[array]") ELSE Nothing(k))
    /\ UNCHANGED <<array, object>>

ClearItems(a) ==
    /\ array' = [array EXCEPT ![a] = <<>>]
    /\ last' = Call("clear", <<a>>, <<>>)
    /\ UNCHANGED object

\* b is a new array.
Slice(a, i, j) ==
    SubSeq(array[a], Clamp(i, Len(array[a])) + 1, Clamp(j, Len(array[a])))

SliceItems(a, i, j, b) ==
    /\ array' = [array EXCEPT ![b] = Slice(a, i, j)]
    /\ last' = Call("slice", <<a, i, j>>, b)
    /\ UNCHANGED object

\* The places that some of n items had, when the others are left out.
Thinnings(n) ==
    {from \in UNION {[1..k -> 1..n] : k \in 0..n} :
        \A l, m \in DOMAIN from : l < m => from[l] < from[m]}

\* A slice that needed memory and did not always get it lacks items, and nobody is told.
ShortSlice(a, i, j, b) ==
    /\ \E from \in Thinnings(Len(Slice(a, i, j))) :
          array' = [array EXCEPT ![b] = [m \in DOMAIN from |-> Slice(a, i, j)[from[m]]]]
    /\ last' = Call("short", <<a, i, j>>, b)
    /\ UNCHANGED object

SetField(o, key, x) ==
    /\ object' = [object EXCEPT ![o][key] = x]
    /\ last' = Call("set", <<o, key, x>>, <<>>)
    /\ UNCHANGED array

GetField(o, key, k) ==
    LET x == object[o][key]
    IN  /\ last' = Call("field", <<o, key, k>>,
                        IF x = Absent THEN Nothing(k) ELSE As(k, x, "[object]"))
        /\ UNCHANGED <<array, object>>

HasField(o, key) ==
    /\ last' = Call("has", <<o, key>>, object[o][key] # Absent)
    /\ UNCHANGED <<array, object>>

\* The program calls what it wants: the step is the call that it leaves in `last`.
StoreStep ==
    CASE last'.op = "insert" -> InsertItem(last'.args[1], last'.args[2], last'.args[3])
      [] last'.op = "push"   -> PushItem(last'.args[1], last'.args[2])
      [] last'.op = "lost"   -> Lost
      [] last'.op = "remove" -> RemoveItem(last'.args[1], last'.args[2], last'.args[3])
      [] last'.op = "pop"    -> PopItem(last'.args[1], last'.args[2])
      [] last'.op = "get"    -> GetItem(last'.args[1], last'.args[2], last'.args[3])
      [] last'.op = "clear"  -> ClearItems(last'.args[1])
      [] last'.op = "slice"  -> SliceItems(last'.args[1], last'.args[2], last'.args[3], last'.res)
      [] last'.op = "short"  -> ShortSlice(last'.args[1], last'.args[2], last'.args[3], last'.res)
      [] last'.op = "set"    -> SetField(last'.args[1], last'.args[2], last'.args[3])
      [] last'.op = "field"  -> GetField(last'.args[1], last'.args[2], last'.args[3])
      [] last'.op = "has"    -> HasField(last'.args[1], last'.args[2])

StoreSpec == StoreInit /\ [][StoreStep]_storeVars
=============================================================================
