----------------------------- MODULE NameBinding -----------------------------
(***************************************************************************)
(* What a variable name means, twice: to the validator, which keeps a      *)
(* stack of scopes (stm.c; declare_symbol and the validate_* functions of  *)
(* validator.c), and to the lowering, which keeps one flat table for the   *)
(* whole program (sym_put and sym_get of lower.c) and visits the program   *)
(* in an order of its own.                                                 *)
(*                                                                         *)
(* The source arrives token by token, as the validator walks it; once the  *)
(* whole program is accepted the lowering walks it again.  A declaration   *)
(* is known by the position of its token.                                  *)
(***************************************************************************)
EXTENDS Integers, Sequences, FiniteSets, SequencesExt

CONSTANTS
    Names, Types,
    MaxTokens      \* bound on the length of the source

ASSUME BindingAssumption == MaxTokens \in Nat

VARIABLES
    prog,       \* the tokens accepted so far
    nesting,    \* the positions of the open functions, loops and blocks
    scopes,     \* the symbol table stack: scopes[k][n] is the entry of n, or Absent
    bound,      \* bound[i]: the declaration the validator resolved token i to
    phase,      \* "validate", then "lower"; or "rejected"
    left,       \* left[p]: the tokens that pass p of the lowering has not come to
    table,      \* sym_table: table[n] is the declaration n stands for, or 0
    lowered     \* lowered[i]: the declaration the code of token i refers to

srcVars   == <<prog, nesting, scopes, bound>>
lowerVars == <<left, table, lowered>>
vars      == <<prog, nesting, scopes, bound, phase, left, table, lowered>>

(* Tokens.  The signature of a function declares its name, and is all there *)
(* is of an extern one; the function behind it has at most one parameter,   *)
(* and says whether lowering reaches it from main.  "for" declares its      *)
(* variable and increments another, or the same; its body is a block of its *)
(* own.                                                                     *)
Decl == [op : {"global", "local"}, name : Names, type : Types, mut : BOOLEAN]
Signature == [op : {"signature"}, name : Names, type : Types, mut : {FALSE}]
For  == [op : {"for"}, name : Names, type : Types, mut : BOOLEAN, inc : Names]
Function ==
    [op : {"function"}, params : {<<>>} \cup [name : Names, type : Types], live : BOOLEAN]
Use   == [op : {"use", "assign"}, name : Names]
Block == [op : {"open"}]
Close == [op : {"close"}, of : Nat]
Token == Decl \cup Signature \cup For \cup Function \cup Use \cup Block \cup Close

Absent == [id |-> 0, type |-> "", mut |-> FALSE]

-----------------------------------------------------------------------------
(* stm.c: the stack of scopes, innermost last. *)

EmptyScope == [n \in Names |-> Absent]

Present(e) == e.id # 0

PushScope(st) == Append(st, EmptyScope)
PopScope(st)  == Front(st)

Local(st, n) == st[Len(st)][n]

\* stm_lookup: the entry of the innermost scope that has one.
Lookup(st, n) ==
    LET has == {k \in 1..Len(st) : Present(st[k][n])}
    IN  IF has = {} THEN Absent ELSE st[Max(has)][n]

\* stm_insert never replaces an entry.
Insert(st, n, e) ==
    IF Present(Local(st, n)) THEN st ELSE [st EXCEPT ![Len(st)][n] = e]

-----------------------------------------------------------------------------
(* The validator.  A failed check rejects the program. *)

Here == Len(prog) + 1

\* A function counts as its signature.
Length == Cardinality({i \in 1..Len(prog) : prog[i].op # "function"})

\* Every open construct still needs its "close".
Fits(tok) ==
    Length + Len(nesting) + (IF tok.op \in {"for", "open"} THEN 2 ELSE 1) <= MaxTokens

Accept(tok, st, id) ==
    /\ prog' = Append(prog, tok)
    /\ scopes' = st
    /\ bound' = Append(bound, id)
    /\ UNCHANGED <<phase, lowerVars>>

Reject ==
    /\ phase' = "rejected"
    /\ UNCHANGED <<srcVars, lowerVars>>

\* declare_symbol: a second declaration with the type of the first is let through,
\* and leaves the first in the table.
Declarable(st, n, ty) == ~Present(Local(st, n)) \/ Local(st, n).type = ty

Declared(st, n, ty, mut) == Insert(st, n, [id |-> Here, type |-> ty, mut |-> mut])

\* A declaration outside or inside of a function, or the name of a function with the type that
\* it returns.
Declare(tok) ==
    /\ phase = "validate" /\ Fits(tok)
    /\ tok.op \in {"global", "signature"} <=> nesting = <<>>
    /\ IF Declarable(scopes, tok.name, tok.type)
       THEN Accept(tok, Declared(scopes, tok.name, tok.type, tok.mut), 0) /\ UNCHANGED nesting
       ELSE Reject

\* The last token is the signature of a function that may follow.
Headed == prog # <<>> /\ prog[Len(prog)].op = "signature"

\* Mutant: the parameters share the scope of the body.
MutBeginFunction(tok) ==
    /\ phase = "validate" /\ Fits(tok) /\ nesting = <<>> /\ Headed
    /\ LET outer == PushScope(scopes)
       IN  Accept(tok, IF tok.params = <<>> THEN outer
                       ELSE Declared(outer, tok.params.name, tok.params.type, FALSE), 0)
    /\ nesting' = <<Here>>

\* A scope for the parameters, and one for the body.
BeginFunction(tok) ==
    /\ phase = "validate" /\ Fits(tok) /\ nesting = <<>> /\ Headed
    /\ LET outer == PushScope(scopes)
           inner == IF tok.params = <<>> THEN outer
                    ELSE Declared(outer, tok.params.name, tok.params.type, FALSE)
       IN  Accept(tok, PushScope(inner), 0)
    /\ nesting' = <<Here>>

\* A scope for the loop variable, in which the increment is resolved before the
\* body, and one for the body.
BeginFor(tok) ==
    /\ phase = "validate" /\ Fits(tok) /\ nesting # <<>>
    /\ LET st == Declared(PushScope(scopes), tok.name, tok.type, tok.mut)
           e  == Lookup(st, tok.inc)
       IN  IF Present(e) /\ e.mut
           THEN /\ Accept(tok, PushScope(st), e.id)
                /\ nesting' = Append(nesting, Here)
           ELSE Reject

BeginBlock(tok) ==
    /\ phase = "validate" /\ Fits(tok) /\ nesting # <<>>
    /\ Accept(tok, PushScope(scopes), 0)
    /\ nesting' = Append(nesting, Here)

\* Mutant: the scope of the parameters, or of the loop variable, is left open.
MutPopped(st, tok) == PopScope(st)

Popped(st, tok) ==
    IF tok.op \in {"function", "for"} THEN PopScope(PopScope(st)) ELSE PopScope(st)

End(tok) ==
    /\ phase = "validate" /\ nesting # <<>>
    /\ tok.of = nesting[Len(nesting)]
    /\ Accept(tok, Popped(scopes, prog[tok.of]), 0)
    /\ nesting' = Front(nesting)

\* An identifier in an expression.
ReadName(tok) ==
    /\ phase = "validate" /\ Fits(tok) /\ tok.op = "use"
    /\ LET e == Lookup(scopes, tok.name)
       IN  IF Present(e) THEN Accept(tok, scopes, e.id) /\ UNCHANGED nesting ELSE Reject

AssignName(tok) ==
    /\ phase = "validate" /\ Fits(tok) /\ tok.op = "assign"
    /\ LET e == Lookup(scopes, tok.name)
       IN  IF Present(e) /\ e.mut
           THEN Accept(tok, scopes, e.id) /\ UNCHANGED nesting
           ELSE Reject

-----------------------------------------------------------------------------
(* The lowering of an accepted program. *)

\* The tokens of function i.
Body(i) ==
    {j \in i..Len(prog) : \A k \in i..(j - 1) : prog[k] # [op |-> "close", of |-> i]}

Globals == {i \in 1..Len(prog) : prog[i].op = "global"}
Bodies  == UNION {Body(i) : i \in {j \in 1..Len(prog) : prog[j].op = "function" /\ prog[j].live}}

\* What stands outside of functions.  A use directly behind a global is its initializer.
TopUses ==
    {i \in 1..Len(prog) : prog[i].op \in {"use", "assign"}}
        \ UNION {Body(j) : j \in {k \in 1..Len(prog) : prog[k].op = "function"}}
Initializers == {i \in TopUses : prog[i].op = "use" /\ i - 1 \in Globals}
Statements   == TopUses \ Initializers

\* Mutant: the functions are lowered before the globals are known.
MutOrder == <<Bodies, Globals, Initializers, Statements>>

\* lower_program goes over the source four times: for every global, for their initializers, for
\* the other expressions and assignments outside of functions, and for the functions that main
\* reaches.
Order == <<Globals, Initializers, Statements, Bodies>>

StartLowering ==
    /\ phase = "validate" /\ nesting = <<>> /\ prog # <<>>
    /\ phase' = "lower"
    /\ left' = Order
    /\ lowered' = [i \in 1..Len(prog) |-> 0]
    /\ UNCHANGED <<srcVars, table>>

\* Token i is the next one to be lowered.
Lowering(i, op) ==
    /\ phase = "lower"
    /\ prog[i].op = op
    /\ \E p \in 1..4 :
         /\ i \in left[p] /\ \A j \in left[p] : i <= j
         /\ \A q \in 1..(p - 1) : left[q] = {}
         /\ left' = [left EXCEPT ![p] = @ \ {i}]
    /\ UNCHANGED <<srcVars, phase>>

\* Mutant: the first declaration of a name stays.
MutSymPut(n, i) == IF table[n] = 0 THEN [table EXCEPT ![n] = i] ELSE table

\* sym_put replaces what is there.
SymPut(n, i) == [table EXCEPT ![n] = i]

Refer(i, n) == [lowered EXCEPT ![i] = table[n]]

LowerDeclaration(i) ==
    /\ \E op \in {"global", "local", "for"} : Lowering(i, op)
    /\ table' = SymPut(prog[i].name, i)
    /\ UNCHANGED lowered

LowerFunction(i) ==
    /\ Lowering(i, "function")
    /\ LET p == prog[i].params
       IN  table' = IF p = <<>> THEN table ELSE SymPut(p.name, i)
    /\ UNCHANGED lowered

LowerUse(i) ==
    /\ \E op \in {"use", "assign"} : Lowering(i, op)
    /\ lowered' = Refer(i, prog[i].name)
    /\ UNCHANGED table

LowerOpen(i) ==
    /\ Lowering(i, "open")
    /\ UNCHANGED <<table, lowered>>

\* The increment of a for is lowered behind its body.  Leaving a block does not
\* touch the table.
LowerClose(i) ==
    /\ Lowering(i, "close")
    /\ LET k == prog[i].of
       IN  lowered' = IF prog[k].op = "for" THEN Refer(k, prog[k].inc) ELSE lowered
    /\ UNCHANGED table

Left == left[1] \cup left[2] \cup left[3] \cup left[4]

\* sym_clear.
Stop ==
    /\ \/ phase = "lower" /\ Left = {}
       \/ phase = "rejected"
    /\ UNCHANGED vars

-----------------------------------------------------------------------------

Init ==
    /\ prog = <<>> /\ nesting = <<>> /\ bound = <<>>
    /\ scopes = <<EmptyScope>>
    /\ phase = "validate"
    /\ left = <<{}, {}, {}, {}>> /\ lowered = <<>>
    /\ table = [n \in Names |-> 0]

Validate ==
    \/ \E tok \in Decl \cup Signature : Declare(tok)
    \/ \E tok \in Function : BeginFunction(tok)
    \/ \E tok \in For : BeginFor(tok)
    \/ \E tok \in Block : BeginBlock(tok)
    \/ nesting # <<>> /\ End([op |-> "close", of |-> nesting[Len(nesting)]])
    \/ \E tok \in Use : ReadName(tok) \/ AssignName(tok)

Lower ==
    \/ StartLowering
    \/ \E i \in 1..Len(prog) : \/ LowerDeclaration(i) \/ LowerFunction(i) \/ LowerUse(i)
                               \/ LowerOpen(i) \/ LowerClose(i)

Next == Validate \/ Lower \/ Stop

Spec == Init /\ [][Next]_vars
-----------------------------------------------------------------------------
(* Properties. *)

\* The stack is as deep as the source is nested: one scope for a block, two for a
\* function or a for, so that no scope is left behind or closed twice.
TypeOK ==
    /\ prog \in Seq(Token)
    /\ nesting \in Seq(1..Len(prog))
    /\ scopes \in Seq([Names -> [id : 0..Len(prog), type : Types \cup {""}, mut : BOOLEAN]])
    /\ Len(scopes) = 1 + Len(nesting)
                       + Cardinality({k \in 1..Len(nesting) : prog[nesting[k]].op # "open"})
    /\ bound \in [1..Len(prog) -> 0..Len(prog)]
    /\ phase \in {"validate", "rejected", "lower"}
    /\ left \in [1..4 -> SUBSET (1..Len(prog))]
    /\ table \in [Names -> 0..Len(prog)]
    /\ phase = "lower" => lowered \in [1..Len(prog) -> 0..Len(prog)]

(* A declarative account of the declarations of a program. *)

\* The declaration of a variable.
Stores(i, n) ==
    \/ prog[i].op \in {"global", "local", "for"} /\ prog[i].name = n
    \/ prog[i].op = "function" /\ prog[i].params # <<>> /\ prog[i].params.name = n

Declares(i, n) == Stores(i, n) \/ (prog[i].op = "signature" /\ prog[i].name = n)

Opener(i) == prog[i].op \in {"function", "for", "open"}

\* The construct opened at k is open at i.
Encloses(k, i) ==
    k <= i /\ Opener(k) /\ \A j \in k..(i - 1) : prog[j] # [op |-> "close", of |-> k]

Enclosing(i) == {k \in 1..Len(prog) : Encloses(k, i)}

\* The constructs a declaration belongs to.  A parameter or a loop variable lives
\* in its own construct, a little outside of the block that is its body.
Region(d) == Enclosing(d)

Depth(d) == 2 * Cardinality(Region(d)) + (IF Opener(d) THEN 0 ELSE 1)

Visible(n, i) == {d \in 1..i : Declares(d, n) /\ Region(d) \subseteq Enclosing(i)}

\* The first of the innermost visible declarations.
Lexical(n, i) ==
    LET vis  == Visible(n, i)
        deep == {d \in vis : \A e \in vis : Depth(e) <= Depth(d)}
    IN  IF vis = {} THEN 0 ELSE Min(deep)

IsUse(i) == prog[i].op \in {"use", "assign", "for"}

UsedName(i) == IF prog[i].op = "for" THEN prog[i].inc ELSE prog[i].name

\* The scope stack implements lexical scoping: each name the validator accepts is
\* resolved to the innermost declaration around it, and never to one of a block
\* that has been left.
LexicalBinding ==
    \A i \in 1..Len(prog) : IsUse(i) => bound[i] # 0 /\ bound[i] = Lexical(UsedName(i), i)

\* The uses lowering has been through.
Lowered == {i \in TopUses \cup Bodies : IsUse(i) /\ \A k \in Left :
                /\ k # i
                /\ prog[i].op = "for" => prog[k] # [op |-> "close", of |-> i]}

\* Those of variables.  The name of a function passes the validator as well, and has no entry
\* in the table of the lowering.
LoweredVariables == {i \in Lowered : prog[bound[i]].op # "signature"}

\* Lowering knows every variable that the validator resolved a name to, in its own order of
\* visits: none is dropped with an "Unknown identifier" after the program was accepted.
NeverUnknown == phase = "lower" => \A i \in LoweredVariables : lowered[i] # 0

\* No variable hides another, and no local has the name of a global.
Unhidden ==
    \A n \in Names : \A d, e \in {i \in 1..Len(prog) : Stores(i, n)} :
        d # e => /\ Region(d) # {} /\ Region(e) # {}
                 /\ ~(Region(d) \subseteq Region(e)) /\ ~(Region(e) \subseteq Region(d))

\* The code of every use of a variable refers to the one that the validator resolved.
SameBinding == \A i \in LoweredVariables : lowered[i] = bound[i]

\* It does so in a program in which no variable hides another, however its functions and blocks
\* reuse names, those of functions among them.
UnhiddenBinding == phase = "lower" /\ Unhidden => SameBinding

\* No scope declares a name twice.
Singly ==
    \A n \in Names : \A d, e \in {i \in 1..Len(prog) : Declares(i, n)} :
        d # e /\ Region(d) = Region(e) => Opener(d) # Opener(e)

\* A name may be declared again in an inner scope, only a "Duplicate declaration in
\* current scope" is refused (declare_symbol in validator.c): the code refers to the
\* variable the validator resolved in each program without such a duplicate.
ScopedBinding == phase = "lower" /\ Singly => SameBinding
=============================================================================
