---------------------------- MODULE RuntimeValues ----------------------------
(***************************************************************************)
(* The arrays and objects of runtime.c: growing buffers of values, in      *)
(* which a string is a pointer to memory of its own, allocated when the    *)
(* value is made and freed by the array or object that holds it.           *)
(*                                                                         *)
(* A program passes strings to these calls, literals or those it got from  *)
(* earlier ones, and holds on to what it gets.  It never frees a string    *)
(* itself, and the ones made only for it (a number read as a string) are   *)
(* left out.  The items of an array have any kind: a push takes the type   *)
(* of its value, a read the type of the array's items.                     *)
(***************************************************************************)
EXTENDS Integers, Sequences, FiniteSets, SequencesExt

CONSTANTS
    Arrays, Objects, Keys,
    Scalars,        \* the values passed by value: numbers and pointers
    Literals,       \* the texts of the string literals
    Initial,        \* the first capacity of a buffer: 4
    MaxItems,       \* bound on the items of an array
    MaxCells,       \* bound on the strings allocated at a time
    RunsCommands    \* whether arrays that hold strings are passed as arguments of commands

VARIABLES
    items,     \* items[a]: the buffer of an array, as long as its capacity
    count,     \* count[a]: how many of them are in use
    entries,   \* entries[o]: the buffer of an object
    size,      \* size[o]: how many entries are in use
    cell,      \* cell[p]: the text at p, or Free
    held,      \* the last string the program got from a container, or 0
    last       \* the last call, with its result

vars == <<items, count, entries, size, cell, held, last>>

Cells == 1..MaxCells
Free  == <<>>
Junk  == [kind |-> "junk"]

ASSUME ValuesAssumption ==
    /\ Initial \in Nat \ {0} /\ MaxItems \in Nat /\ MaxCells \in Nat
    /\ RunsCommands \in BOOLEAN
    /\ \A x \in Scalars : x.kind \in {"i64", "f64", "ptr"}
    /\ Free \notin Literals

Text(x) == IF x.kind = "string" THEN [x EXCEPT !.v = cell[x.v]] ELSE x

ArrayOf(a) == [i \in 1..count[a] |-> Text(items[a][i])]

\* adn_object_find_entry: the first entry with the key, or 0.
Find(o, key) ==
    LET at == {i \in 1..size[o] : entries[o][i].key = key}
    IN  IF at = {} THEN 0 ELSE CHOOSE i \in at : \A j \in at : i <= j

ObjectOf(o) ==
    [key \in Keys |->
        IF Find(o, key) = 0 THEN [kind |-> "absent"] ELSE Text(entries[o][Find(o, key)].x)]

Store == INSTANCE ValueStore WITH
    array <- [a \in Arrays |-> ArrayOf(a)], object <- [o \in Objects |-> ObjectOf(o)]

-----------------------------------------------------------------------------
(* Memory. *)

FreeCells == {p \in Cells : cell[p] = Free}

\* strdup takes a free place, whichever it is.
Fresh == CHOOSE p \in FreeCells : TRUE

\* The text of an argument: a literal, or the string at a pointer.
ArgText(arg, mem) == IF arg.kind = "pointer" THEN mem[arg.v] ELSE arg.v

IsString(arg) == arg.kind \in {"literal", "pointer"}

Args ==
    Scalars
        \cup [kind : {"literal"}, v : Literals]
        \cup {[kind |-> "pointer", v |-> p] : p \in {q \in {held} \ {0} : cell[q] # Free}}

\* There is memory for a copy of the argument.
Fits(arg) == IsString(arg) => FreeCells # {}

\* adn_value_from_*: a string is copied.
NewValue(arg) == IF IsString(arg) THEN [kind |-> "string", v |-> Fresh] ELSE arg

Copied(arg) == IF IsString(arg) THEN [cell EXCEPT ![Fresh] = ArgText(arg, cell)] ELSE cell

\* What the call was given, for the record.
Given(arg) == IF IsString(arg) THEN [kind |-> "string", v |-> ArgText(arg, cell)] ELSE arg

\* adn_value_release.
Released(mem, x) == IF x.kind = "string" THEN [mem EXCEPT ![x.v] = Free] ELSE mem

\* adn_array_reserve and adn_object_reserve: double the capacity.
Grown(buf, empty) ==
    LET cap == IF Len(buf) = 0 THEN Initial ELSE 2 * Len(buf)
    IN  [i \in 1..cap |-> IF i <= Len(buf) THEN buf[i] ELSE empty]

Reserved(buf, n, empty) == IF Len(buf) >= n THEN buf ELSE Grown(buf, empty)

Call(op, args, res) == [op |-> op, args |-> args, res |-> res]

\* realloc failed: the value is released again, and the call has no effect.
Lost == last' = Call("lost", <<>>, <<>>) /\ UNCHANGED <<items, count, entries, size, cell, held>>

-----------------------------------------------------------------------------
(* Arrays. *)

PushItem(a, arg) ==
    /\ Fits(arg) /\ count[a] < MaxItems
    /\ items' = [items EXCEPT ![a] =
                    [Reserved(@, count[a] + 1, Junk) EXCEPT ![count[a] + 1] = NewValue(arg)]]
    /\ count' = [count EXCEPT ![a] = @ + 1]
    /\ cell' = Copied(arg)
    /\ last' = Call("push", <<a, Given(arg)>>, <<>>)
    /\ UNCHANGED <<entries, size, held>>

\* adn_array_insert_index.
InsertIndex(a, i) == IF i < 0 THEN 0 ELSE IF i > count[a] THEN count[a] ELSE i

\* Mutant: memmove is told one item too few.
MutMovedUp(buf, at, n, x) ==
    [i \in 1..Len(buf) |-> IF i = at THEN x
                           ELSE IF i \in (at + 1)..n THEN buf[i - 1] ELSE buf[i]]

\* The items from `at` on move up by one, and x takes their place.
MovedUp(buf, at, n, x) ==
    [i \in 1..Len(buf) |-> IF i = at THEN x
                           ELSE IF i \in (at + 1)..(n + 1) THEN buf[i - 1] ELSE buf[i]]

InsertItem(a, i, arg) ==
    /\ Fits(arg) /\ count[a] < MaxItems
    /\ items' = [items EXCEPT ![a] =
                    MovedUp(Reserved(@, count[a] + 1, Junk), InsertIndex(a, i) + 1,
                            count[a], NewValue(arg))]
    /\ count' = [count EXCEPT ![a] = @ + 1]
    /\ cell' = Copied(arg)
    /\ last' = Call("insert", <<a, i, Given(arg)>>, <<>>)
    /\ UNCHANGED <<entries, size, held>>

ArrayFull(a) ==
    /\ count[a] = Len(items[a])
    /\ \E arg \in Args : Fits(arg)
    /\ Lost

InRange(a, i) == i \in 0..(count[a] - 1)

\* Mutant: the last item does not move.
MutMovedDown(buf, at, n) == [i \in 1..Len(buf) |-> IF i \in at..(n - 2) THEN buf[i + 1] ELSE buf[i]]

\* adn_array_take_value: the items behind i move down, the buffer keeps its length
\* and the last place its old value.
MovedDown(buf, at, n) == [i \in 1..Len(buf) |-> IF i \in at..(n - 1) THEN buf[i + 1] ELSE buf[i]]

Taken(a, i) == IF InRange(a, i) THEN items[a][i + 1] ELSE [kind |-> "i64", v |-> 0]

Take(a, i) ==
    /\ items' = [items EXCEPT ![a] = IF InRange(a, i) THEN MovedDown(@, i + 1, count[a]) ELSE @]
    /\ count' = [count EXCEPT ![a] = IF InRange(a, i) THEN @ - 1 ELSE @]
    /\ UNCHANGED <<entries, size, cell>>

\* A string read as a string is handed out as the pointer it is.
HandedOut(k, x) == held' = IF k # "string" THEN held
                           ELSE IF x.kind = "string" THEN x.v ELSE 0

\* Mutant: a pop returns the string and frees it.
MutPopItem(a, k) ==
    LET x == Taken(a, count[a] - 1)
    IN  /\ items' = items
        /\ count' = [count EXCEPT ![a] = IF @ = 0 THEN 0 ELSE @ - 1]
        /\ cell' = Released(cell, x)
        /\ HandedOut(k, x)
        /\ last' = Call("pop", <<a, k>>, Store!As(k, Text(x), "[array]"))
        /\ UNCHANGED <<entries, size>>

PopItem(a, k) ==
    LET x == Taken(a, count[a] - 1)
    IN  /\ Take(a, count[a] - 1)
        /\ HandedOut(k, x)
        /\ last' = Call("pop", <<a, k>>, Store!As(k, Text(x), "[array]"))

RemoveItem(a, i, k) ==
    LET x == Taken(a, i)
    IN  /\ Take(a, i)
        /\ HandedOut(k, x)
        /\ last' = Call("remove", <<a, i, k>>, Store!As(k, Text(x), "[array]"))

GetItem(a, i, k) ==
    /\ last' = Call("get", <<a, i, k>>,
                    IF InRange(a, i) THEN Store!As(k, Text(items[a][i + 1]), "[array]")
                    ELSE Store!Nothing(k))
    /\ IF InRange(a, i) THEN HandedOut(k, items[a][i + 1]) ELSE HandedOut(k, Junk)
    /\ UNCHANGED <<items, count, entries, size, cell>>

Strings(a) == {items[a][i].v : i \in {j \in 1..count[a] : items[a][j].kind = "string"}}

ClearItems(a) ==
    /\ cell' = [p \in Cells |-> IF p \in Strings(a) THEN Free ELSE cell[p]]
    /\ items' = [items EXCEPT ![a] =
                    [i \in DOMAIN @ |-> IF i <= count[a] /\ @[i].kind = "string"
                                        THEN Junk ELSE @[i]]]
    /\ count' = [count EXCEPT ![a] = 0]
    /\ last' = Call("clear", <<a>>, <<>>)
    /\ UNCHANGED <<entries, size, held>>

\* The capacity that pushing n items one by one ends with: the first one, doubled
\* as long as it is too small.
Capacities(n) ==
    IF n = 0 THEN {0}
    ELSE {c \in n..(2 * n + Initial) :
            \E k \in 0..n : c = Initial * 2^k /\ (k = 0 \/ c < 2 * n)}

\* Free places for the strings of the items src, one for each.
Homes(src) ==
    LET made == {i \in 1..Len(src) : src[i].kind = "string"}
    IN  {h \in [made -> FreeCells] : \A i, j \in made : h[i] = h[j] => i = j}

\* A slice copies each string to its home.
CopiedItems(src, home) ==
    [i \in 1..Len(src) |-> IF src[i].kind = "string" THEN [src[i] EXCEPT !.v = home[i]] ELSE src[i]]

CopiedTexts(src, home) ==
    [p \in Cells |-> IF \E i \in DOMAIN home : home[i] = p
                     THEN cell[src[CHOOSE i \in DOMAIN home : home[i] = p].v] ELSE cell[p]]

\* The items that are left of part when it is pushed one by one.  Where the buffer is full,
\* realloc may fail: that item is released again, and the pushes go on.
Pushed(part) ==
    {[m \in DOMAIN from |-> part[from[m]]] :
        from \in {f \in Store!Thinnings(Len(part)) :
                    \A i \in (1..Len(part)) \ {f[m] : m \in DOMAIN f} :
                        LET n == Cardinality({m \in DOMAIN f : f[m] < i})
                        IN  n \in Capacities(n)}}

\* The new array b is given the items src.
Filled(b, src) ==
    LET home == CHOOSE h \in Homes(src) : TRUE
        new  == CopiedItems(src, home)
    IN  /\ items[b] = <<>> /\ Homes(src) # {}
        /\ \E cap \in Capacities(Len(src)) :
              items' = [items EXCEPT ![b] =
                           [m \in 1..cap |-> IF m <= Len(src) THEN new[m] ELSE Junk]]
        /\ count' = [count EXCEPT ![b] = Len(src)]
        /\ cell' = CopiedTexts(src, home)
        /\ UNCHANGED <<entries, size, held>>

\* b is the new array that adn_array_slice makes.
SliceItems(a, i, j, b) ==
    LET part == SubSeq(items[a], InsertIndex(a, i) + 1, InsertIndex(a, j))
    IN  /\ b # a
        /\ \E src \in Pushed(part) :
              /\ Filled(b, src)
              /\ last' = Call(IF src = part THEN "slice" ELSE "short", <<a, i, j>>, b)

-----------------------------------------------------------------------------
(* Objects. *)

\* Mutant: the old value is released before the new one is copied.
MutReplaceField(o, key, arg) ==
    LET at  == Find(o, key)
        mem == Released(cell, entries[o][at].x)
    IN  /\ at # 0 /\ Fits(arg)
        /\ entries' = [entries EXCEPT ![o][at].x = NewValue(arg)]
        /\ cell' = IF IsString(arg) THEN [mem EXCEPT ![Fresh] = ArgText(arg, mem)] ELSE mem
        /\ last' = Call("set", <<o, key, Given(arg)>>, <<>>)
        /\ UNCHANGED <<items, count, size, held>>

\* The key is there: its value is released and replaced.
ReplaceField(o, key, arg) ==
    LET at == Find(o, key)
    IN  /\ at # 0 /\ Fits(arg)
        /\ entries' = [entries EXCEPT ![o][at].x = NewValue(arg)]
        /\ cell' = Released(Copied(arg), entries[o][at].x)
        /\ last' = Call("set", <<o, key, Given(arg)>>, <<>>)
        /\ UNCHANGED <<items, count, size, held>>

AddField(o, key, arg) ==
    /\ Find(o, key) = 0 /\ Fits(arg)
    /\ entries' = [entries EXCEPT ![o] =
                      [Reserved(@, size[o] + 1, Junk) EXCEPT
                          ![size[o] + 1] = [key |-> key, x |-> NewValue(arg)]]]
    /\ size' = [size EXCEPT ![o] = @ + 1]
    /\ cell' = Copied(arg)
    /\ last' = Call("set", <<o, key, Given(arg)>>, <<>>)
    /\ UNCHANGED <<items, count, held>>

ObjectFull(o, key) ==
    /\ Find(o, key) = 0 /\ size[o] = Len(entries[o])
    /\ \E arg \in Args : Fits(arg)
    /\ Lost

GetField(o, key, k) ==
    LET at == Find(o, key)
        x  == IF at = 0 THEN Junk ELSE entries[o][at].x
    IN  /\ last' = Call("field", <<o, key, k>>,
                        IF at = 0 THEN Store!Nothing(k) ELSE Store!As(k, Text(x), "[object]"))
        /\ HandedOut(k, x)
        /\ UNCHANGED <<items, count, entries, size, cell>>

HasField(o, key) ==
    /\ last' = Call("has", <<o, key>>, Find(o, key) # 0)
    /\ UNCHANGED <<items, count, entries, size, cell, held>>

-----------------------------------------------------------------------------

\* adn_process_build_argv takes the strings of the array as they are, and
\* adn_process_free_argv frees the argument vector with its strings.
RunCommand(a) ==
    /\ RunsCommands \/ Strings(a) = {}
    /\ cell' = [p \in Cells |-> IF p \in Strings(a) THEN Free ELSE cell[p]]
    /\ last' = Call("lost", <<>>, <<>>)
    /\ UNCHANGED <<items, count, entries, size, held>>

Init ==
    /\ items = [a \in Arrays |-> <<>>]
    /\ count = [a \in Arrays |-> 0]
    /\ entries = [o \in Objects |-> <<>>]
    /\ size = [o \in Objects |-> 0]
    /\ cell = [p \in Cells |-> Free]
    /\ held = 0
    /\ last = <<>>

\* Every index inside of an array, and one beyond each end.
Indices == -1..(MaxItems + 1)

ArrayCall(a) ==
    \/ \E arg \in Args : PushItem(a, arg) \/ \E i \in Indices : InsertItem(a, i, arg)
    \/ ArrayFull(a)
    \/ \E k \in Store!Kinds : PopItem(a, k)
    \/ \E k \in Store!Kinds, i \in Indices : RemoveItem(a, i, k) \/ GetItem(a, i, k)
    \/ ClearItems(a)
    \/ \E b \in Arrays, i, j \in Indices : SliceItems(a, i, j, b)
    \/ RunCommand(a)

ObjectCall(o) ==
    \E key \in Keys :
        \/ \E arg \in Args : ReplaceField(o, key, arg) \/ AddField(o, key, arg)
        \/ ObjectFull(o, key)
        \/ \E k \in Store!Kinds : GetField(o, key, k)
        \/ HasField(o, key)

Next == (\E a \in Arrays : ArrayCall(a)) \/ (\E o \in Objects : ObjectCall(o))

Spec == Init /\ [][Next]_vars
-----------------------------------------------------------------------------
(* Properties. *)

Value == Scalars \cup [kind : {"string"}, v : Cells]

Field == [key : Keys, x : Value]

\* A buffer is at least as long as what is in use of it, and what is in use is a
\* value: nothing reads the rest of a realloc'ed buffer.
TypeOK ==
    /\ items \in [Arrays -> Seq(Value \cup {Junk})] /\ count \in [Arrays -> Nat]
    /\ \A a \in Arrays : count[a] <= Len(items[a]) /\ \A i \in 1..count[a] : items[a][i] \in Value
    /\ entries \in [Objects -> Seq(Field \cup {Junk})] /\ size \in [Objects -> Nat]
    /\ \A o \in Objects : size[o] <= Len(entries[o]) /\ \A i \in 1..size[o] : entries[o][i] \in Field
    /\ cell \in [Cells -> Literals \cup {Free}]
    /\ held \in Cells \cup {0}

\* The places in which containers keep values, and the values in them.
Places == ({"item"} \X Arrays \X (1..MaxItems)) \cup ({"entry"} \X Objects \X Keys)

ValueAt(p) ==
    IF p[1] = "item"
    THEN IF p[3] <= count[p[2]] THEN items[p[2]][p[3]] ELSE Junk
    ELSE IF Find(p[2], p[3]) # 0 THEN entries[p[2]][Find(p[2], p[3])].x ELSE Junk

Keeps(p, c) == ValueAt(p) = [kind |-> "string", v |-> c]

\* Every string in a container is allocated, and belongs to one place of one
\* container: it can be freed there and is not freed twice.
Owned ==
    \A c \in Cells : \A p, q \in Places :
        Keeps(p, c) => cell[c] # Free /\ (Keeps(q, c) => p = q)

\* A string is freed only by the clear or the set that removes it from the place
\* that owns it: what a pop, a remove or a slice handed over stays as it is, whatever
\* becomes of the container it came from.
FreedByOwner ==
    [][\A c \in Cells : cell[c] # Free /\ cell'[c] # cell[c] =>
          /\ last'.op \in {"clear", "set"}
          /\ \E p \in Places : Keeps(p, c)
          /\ \A p \in Places : Keeps(p, c)' => cell'[c] # Free]_vars

\* Arrays and objects have value semantics: what is read is what was written last,
\* converted, whatever was inserted, removed, sliced or overwritten in between.
ValueSemantics == Store!StoreSpec

\* A string that the program has got from an array or object stays allocated while
\* the program holds on to it: the language is a memory safe one (README.md).
HeldIntact == held # 0 => cell[held] # Free
=============================================================================
