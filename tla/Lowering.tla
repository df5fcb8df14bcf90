------------------------------ MODULE Lowering ------------------------------
(***************************************************************************)
(* Lowering of one function body to basic blocks (lower_statement and the  *)
(* per-function part of lower_program in src/backend/lower.c, over the     *)
(* emitters of src/backend/ir/ir.c), followed by a run of the blocks the   *)
(* way the LLVM emitter writes them out.                                   *)
(*                                                                         *)
(* The statement tokens arrive one at a time and in any order the parser   *)
(* and the validator admit, so the behaviours cover every body of at most  *)
(* MaxTokens tokens.  The C recursion of lower_statement is the explicit   *)
(* stack `stack`; each frame holds the blocks its activation keeps in      *)
(* local variables.                                                        *)
(***************************************************************************)
EXTENDS Integers, Sequences, FiniteSets, SequencesExt

CONSTANTS
    MaxTokens,    \* bound on the length of the source text
    CondYields    \* what lowering a condition may yield: "value", or "nothing",
                  \* as the call of a void function does

ASSUME LoweringAssumption ==
    /\ MaxTokens \in Nat
    /\ CondYields \subseteq {"value", "nothing"}

VARIABLES
    prog,      \* the statement tokens parsed so far
    phase,     \* "lower", then "run"
    nblocks,   \* blocks of current_function, numbered in creation order
    code,      \* code[b]: the non-terminator instructions of block b
    term,      \* term[b]: its terminator, None while it has none
    cur,       \* current_block
    stack,     \* the open activations of lower_statement
    targets,   \* loop_break_targets and loop_continue_targets
    ip         \* the block being run and the next instruction in it

vars == <<prog, phase, nblocks, code, term, cur, stack, targets, ip>>

Loops   == {"while", "for"}
Openers == {"if", "ifelse"} \cup Loops
Simple  == {"act", "break", "continue", "return"}
Ops     == Openers \cup Simple \cup {"else", "end"}

EventKinds == {"act", "init", "cond", "inc", "ret", "exit", "parse", "repair"}
Event      == Nat \X EventKinds

(* Terminators.  Block 0 stands for NULL. *)
None         == [kind |-> "none", ev |-> <<0, "parse">>, t |-> 0, f |-> 0]
Ret(e)       == [kind |-> "ret", ev |-> e, t |-> 0, f |-> 0]
Br(b)        == [kind |-> "br", ev |-> <<0, "parse">>, t |-> b, f |-> 0]
Cbr(e, b, c) == [kind |-> "cbr", ev |-> e, t |-> b, f |-> c]

Terminator == [kind : {"none", "ret", "br", "cbr"}, ev : Event, t : Nat, f : Nat]

Frame  == [op : Openers \cup {"else"}, at : Nat, merge : Nat, head : Nat, alt : Nat]

\* A frame of a statement that AST_BLOCK skipped has no blocks.
Live(f) == f.merge # 0

\* The blocks a frame has created and will only make current, or emit into,
\* later: the merge block, the else block of a then branch, the inc block of a for.
Reserved(f) == {f.merge, f.alt} \ {0}

-----------------------------------------------------------------------------
(* The emitters of ir.c, on the terminator table tm. *)

Terminated(tm, b) == tm[b].kind # "none"

\* ir_emit_ret, ir_emit_br, ir_emit_cbr: refused, with a warning, by a block
\* that already has a terminator.
EmitTerm(tm, b, t) == IF Terminated(tm, b) THEN tm ELSE [tm EXCEPT ![b] = t]

\* lower_statement's "if the block is still open, branch to b".
CloseWith(tm, b, t) == IF Terminated(tm, b) THEN tm ELSE EmitTerm(tm, b, t)

\* Mutant: the last block created is not entered in the tables.
MutGrowShort(tbl, k, empty) ==
    [b \in 1..(nblocks + k - 1) |-> IF b <= nblocks THEN tbl[b] ELSE empty]

\* ir_block_create_in_function, k times.
Grow(tbl, k, empty) ==
    [b \in 1..(nblocks + k) |-> IF b <= nblocks THEN tbl[b] ELSE empty]

\* Instructions are appended whether or not the block has a terminator.
AppendTo(cd, b, e) == [cd EXCEPT ![b] = Append(@, e)]

\* Mutant: AST_BLOCK lowers every statement of its list.
MutBlockRunsOn == FALSE

\* AST_BLOCK stops at the first statement met with the current block terminated.
BlockStops == Terminated(term, cur)

-----------------------------------------------------------------------------
(* What the parser and the validator let through. *)

Top     == stack[Len(stack)]
Pop     == Front(stack)
LoopDepth == Cardinality({i \in DOMAIN stack : stack[i].op \in Loops})

Here == Len(prog) + 1

\* Tokens still owed to the open constructs: their "end", and an "else" where
\* the if has one and is in its then branch.
Owed == Len(stack) + Cardinality({i \in DOMAIN stack : stack[i].op = "ifelse"})

Fits(n) == Len(prog) + n + Owed <= MaxTokens

Admitted(op) ==
    /\ phase = "lower"
    /\ op \in Loops \cup {"if"} => Fits(2)
    /\ op = "ifelse" => Fits(3)
    /\ op \in Simple => Fits(1)
    /\ op \in {"break", "continue"} => LoopDepth > 0
    /\ op \in {"else", "end"} => stack # <<>>
    /\ prog' = Append(prog, op)

-----------------------------------------------------------------------------
(* Statements without a body. *)

\* A statement AST_BLOCK never reaches is not lowered.
SkipSimple(op) ==
    /\ Admitted(op)
    /\ BlockStops
    /\ UNCHANGED <<phase, nblocks, code, term, cur, stack, targets, ip>>

\* Expression statement, call, assignment, variable declaration: straight-line code.
LowerAct ==
    /\ Admitted("act")
    /\ ~BlockStops
    /\ code' = AppendTo(code, cur, <<Here, "act">>)
    /\ UNCHANGED <<phase, nblocks, term, cur, stack, targets, ip>>

LowerReturn ==
    /\ Admitted("return")
    /\ ~BlockStops
    /\ term' = EmitTerm(term, cur, Ret(<<Here, "ret">>))
    /\ UNCHANGED <<phase, nblocks, code, cur, stack, targets, ip>>

\* Outside of a loop, break and continue print an error and emit nothing.
LowerJump(op) ==
    /\ Admitted(op)
    /\ ~BlockStops
    /\ term' = IF targets = <<>> THEN term
               ELSE LET tgt == targets[Len(targets)]
                    IN  EmitTerm(term, cur, Br(IF op = "break" THEN tgt.brk ELSE tgt.cont))
    /\ UNCHANGED <<phase, nblocks, code, cur, stack, targets, ip>>

-----------------------------------------------------------------------------
(* Statements with a body.  Condition i either yields a value, and ends block *)
(* b with a conditional branch, or yields none: ir_emit_cbr then refuses its  *)
(* NULL operand and b stays open.                                            *)

CondCode(cd, b, i, yield) ==
    IF yield = "value" THEN cd ELSE AppendTo(cd, b, <<i, "cond">>)

CondTerm(tm, b, i, yield, t, f) ==
    IF yield = "value" THEN EmitTerm(tm, b, Cbr(<<i, "cond">>, t, f)) ELSE tm

Push(op, merge, head, alt) ==
    Append(stack, [op |-> op, at |-> Here, merge |-> merge, head |-> head, alt |-> alt])

SkipOpen(op) ==
    /\ Admitted(op)
    /\ BlockStops
    /\ stack' = Push(op, 0, 0, 0)
    /\ UNCHANGED <<phase, nblocks, code, term, cur, targets, ip>>

LowerIf(yield) ==
    LET then_b  == nblocks + 1
        merge_b == nblocks + 2
        i       == Here
    IN  /\ Admitted("if")
        /\ ~BlockStops
        /\ nblocks' = nblocks + 2
        /\ code' = CondCode(Grow(code, 2, <<>>), cur, i, yield)
        /\ term' = CondTerm(Grow(term, 2, None), cur, i, yield, then_b, merge_b)
        /\ cur' = then_b
        /\ stack' = Push("if", merge_b, 0, 0)
        /\ UNCHANGED <<phase, targets, ip>>

LowerIfElse(yield) ==
    LET then_b  == nblocks + 1
        else_b  == nblocks + 2
        merge_b == nblocks + 3
        i       == Here
    IN  /\ Admitted("ifelse")
        /\ ~BlockStops
        /\ nblocks' = nblocks + 3
        /\ code' = CondCode(Grow(code, 3, <<>>), cur, i, yield)
        /\ term' = CondTerm(Grow(term, 3, None), cur, i, yield, then_b, else_b)
        /\ cur' = then_b
        /\ stack' = Push("ifelse", merge_b, 0, else_b)
        /\ UNCHANGED <<phase, targets, ip>>

LowerWhile(yield) ==
    LET cond_b  == nblocks + 1
        body_b  == nblocks + 2
        merge_b == nblocks + 3
        i       == Here
    IN  /\ Admitted("while")
        /\ ~BlockStops
        /\ nblocks' = nblocks + 3
        /\ code' = CondCode(Grow(code, 3, <<>>), cond_b, i, yield)
        /\ term' = CondTerm(EmitTerm(Grow(term, 3, None), cur, Br(cond_b)),
                            cond_b, i, yield, body_b, merge_b)
        /\ cur' = body_b
        /\ stack' = Push("while", merge_b, cond_b, 0)
        /\ targets' = Append(targets, [brk |-> merge_b, cont |-> cond_b])
        /\ UNCHANGED <<phase, ip>>

\* Mutant: continue skips the increment.
MutForContinueCond(cond_b, inc_b) == cond_b

\* In a for, continue goes to the increment.
ForContinue(cond_b, inc_b) == inc_b

LowerFor(yield) ==
    LET cond_b  == nblocks + 1
        body_b  == nblocks + 2
        inc_b   == nblocks + 3
        merge_b == nblocks + 4
        i       == Here
    IN  /\ Admitted("for")
        /\ ~BlockStops
        /\ nblocks' = nblocks + 4
        /\ code' = CondCode(AppendTo(Grow(code, 4, <<>>), cur, <<i, "init">>), cond_b, i, yield)
        /\ term' = CondTerm(EmitTerm(Grow(term, 4, None), cur, Br(cond_b)),
                            cond_b, i, yield, body_b, merge_b)
        /\ cur' = body_b
        /\ stack' = Push("for", merge_b, cond_b, inc_b)
        /\ targets' = Append(targets, [brk |-> merge_b, cont |-> ForContinue(cond_b, inc_b)])
        /\ UNCHANGED <<phase, ip>>

-----------------------------------------------------------------------------
(* The end of a branch or of a body. *)

SkipElse ==
    /\ Admitted("else")
    /\ Top.op = "ifelse" /\ ~Live(Top)
    /\ stack' = Append(Pop, [Top EXCEPT !.op = "else"])
    /\ UNCHANGED <<phase, nblocks, code, term, cur, targets, ip>>

\* Mutant: the else branch is lowered into the merge block.
MutLowerElse ==
    /\ Admitted("else")
    /\ Top.op = "ifelse" /\ Live(Top)
    /\ term' = CloseWith(term, cur, Br(Top.merge))
    /\ cur' = Top.merge
    /\ stack' = Append(Pop, [Top EXCEPT !.op = "else", !.alt = 0])
    /\ UNCHANGED <<phase, nblocks, code, targets, ip>>

LowerElse ==
    /\ Admitted("else")
    /\ Top.op = "ifelse" /\ Live(Top)
    /\ term' = CloseWith(term, cur, Br(Top.merge))
    /\ cur' = Top.alt
    /\ stack' = Append(Pop, [Top EXCEPT !.op = "else", !.alt = 0])
    /\ UNCHANGED <<phase, nblocks, code, targets, ip>>

SkipEnd ==
    /\ Admitted("end")
    /\ Top.op # "ifelse" /\ ~Live(Top)
    /\ stack' = Pop
    /\ UNCHANGED <<phase, nblocks, code, term, cur, targets, ip>>

EndIf ==
    /\ Admitted("end")
    /\ Top.op \in {"if", "else"} /\ Live(Top)
    /\ term' = CloseWith(term, cur, Br(Top.merge))
    /\ cur' = Top.merge
    /\ stack' = Pop
    /\ UNCHANGED <<phase, nblocks, code, targets, ip>>

EndWhile ==
    /\ Admitted("end")
    /\ Top.op = "while" /\ Live(Top)
    /\ term' = CloseWith(term, cur, Br(Top.head))
    /\ cur' = Top.merge
    /\ stack' = Pop
    /\ targets' = Front(targets)
    /\ UNCHANGED <<phase, nblocks, code, ip>>

\* Mutant: the increment does not branch back to the condition.
MutEndFor ==
    /\ Admitted("end")
    /\ Top.op = "for" /\ Live(Top)
    /\ code' = AppendTo(code, Top.alt, <<Top.at, "inc">>)
    /\ term' = CloseWith(term, cur, Br(Top.alt))
    /\ cur' = Top.merge
    /\ stack' = Pop
    /\ targets' = Front(targets)
    /\ UNCHANGED <<phase, nblocks, ip>>

EndFor ==
    /\ Admitted("end")
    /\ Top.op = "for" /\ Live(Top)
    /\ code' = AppendTo(code, Top.alt, <<Top.at, "inc">>)
    /\ term' = EmitTerm(CloseWith(term, cur, Br(Top.alt)), Top.alt, Br(Top.head))
    /\ cur' = Top.merge
    /\ stack' = Pop
    /\ targets' = Front(targets)
    /\ UNCHANGED <<phase, nblocks, ip>>

\* The end of the body: a ret, unless the last block already has one.
Finish ==
    /\ phase = "lower" /\ stack = <<>>
    /\ term' = IF term[cur].kind = "ret" THEN term
               ELSE EmitTerm(term, cur, Ret(<<0, "exit">>))
    /\ phase' = "run"
    /\ ip' = <<1, 1>>
    /\ UNCHANGED <<prog, nblocks, code, cur, stack, targets>>

-----------------------------------------------------------------------------
(* Running the blocks as the LLVM emitter prints them. *)

AtEnd(p) == p[2] = Len(code[p[1]]) + 1

\* The next event at p.  A block that was left open prints a ret of its own.
EventAt(p) ==
    CASE ~AtEnd(p)                      -> code[p[1]][p[2]]
      [] AtEnd(p) /\ term[p[1]].kind = "none" -> <<p[1], "repair">>
      [] OTHER                          -> term[p[1]].ev

Exec ==
    /\ phase = "run" /\ ~AtEnd(ip)
    /\ ip' = <<ip[1], ip[2] + 1>>
    /\ UNCHANGED <<prog, phase, nblocks, code, term, cur, stack, targets>>

Jump ==
    /\ phase = "run" /\ AtEnd(ip) /\ term[ip[1]].kind = "br"
    /\ ip' = <<term[ip[1]].t, 1>>
    /\ UNCHANGED <<prog, phase, nblocks, code, term, cur, stack, targets>>

Branch(taken) ==
    /\ phase = "run" /\ AtEnd(ip) /\ term[ip[1]].kind = "cbr"
    /\ ip' = <<IF taken THEN term[ip[1]].t ELSE term[ip[1]].f, 1>>
    /\ UNCHANGED <<prog, phase, nblocks, code, term, cur, stack, targets>>

\* The function has returned.
Returned ==
    /\ phase = "run" /\ AtEnd(ip) /\ term[ip[1]].kind \in {"none", "ret"}
    /\ UNCHANGED vars

-----------------------------------------------------------------------------

Init ==
    /\ prog = <<>>
    /\ phase = "lower"
    /\ nblocks = 1
    /\ code = [b \in 1..1 |-> <<>>]
    /\ term = [b \in 1..1 |-> None]
    /\ cur = 1
    /\ stack = <<>>
    /\ targets = <<>>
    /\ ip = <<1, 1>>

LowerNext ==
    \/ \E op \in Simple : SkipSimple(op)
    \/ LowerAct
    \/ LowerReturn
    \/ \E op \in {"break", "continue"} : LowerJump(op)
    \/ \E op \in Openers : SkipOpen(op)
    \/ \E yield \in CondYields :
          LowerIf(yield) \/ LowerIfElse(yield) \/ LowerWhile(yield) \/ LowerFor(yield)
    \/ SkipElse \/ LowerElse
    \/ SkipEnd \/ EndIf \/ EndWhile \/ EndFor
    \/ Finish

RunNext == Exec \/ Jump \/ (\E taken \in BOOLEAN : Branch(taken)) \/ Returned

Next == LowerNext \/ RunNext

Spec == Init /\ [][Next]_vars
-----------------------------------------------------------------------------
(* Properties. *)

Blocks == 1..nblocks

\* A branch names blocks among the first m.
BranchOK(t, m) ==
    /\ t.kind \in {"br", "cbr"} => t.t \in 1..m
    /\ t.kind = "cbr" => t.f \in 1..m

\* So does a frame, and a lowered statement has all the blocks of its own.
FrameOK(f, m) ==
    /\ f.merge \in 0..m /\ f.alt \in 0..m
    /\ IF Live(f) THEN f.alt # f.merge ELSE f.alt = 0
    /\ Live(f) /\ f.op \in Loops => f.head \in 1..m
    /\ Live(f) => (f.alt # 0 <=> f.op \in {"ifelse", "for"})

CodeTable(cd, m)   == cd \in [1..m -> Seq(Event)]
TermTable(tm, m)   == tm \in [1..m -> Terminator] /\ \A b \in 1..m : BranchOK(tm[b], m)
FrameStack(st, m)  == st \in Seq(Frame) /\ \A i \in 1..Len(st) : FrameOK(st[i], m)
TargetStack(tg, m) == tg \in Seq([brk : 1..m, cont : 1..m])

\* The tables cover exactly the created blocks, every block number in a frame, a
\* loop target or a terminator names one of them (the pointers that lower_statement
\* keeps to blocks are never NULL or stale), and the run stays in the code.
TypeOK ==
    /\ prog \in Seq(Ops)
    /\ phase \in {"lower", "run"}
    /\ nblocks \in Nat \ {0}
    /\ CodeTable(code, nblocks)
    /\ TermTable(term, nblocks)
    /\ cur \in Blocks
    /\ FrameStack(stack, nblocks)
    /\ TargetStack(targets, nblocks)
    /\ ip \in Blocks \X (Nat \ {0})
    /\ IF phase = "lower" THEN ip = <<1, 1>> ELSE ip[2] <= Len(code[ip[1]]) + 1

\* The blocks an open statement still has to emit into are open themselves, are
\* not the current block, and belong to that statement alone.  So no branch the
\* lowering emits into them later is refused by ir_emit_br or ir_emit_cbr
\* (src/backend/ir/ir.c), which would lose it with only a warning.
ReservedOpen ==
    /\ \A i \in 1..Len(stack) : \A b \in Reserved(stack[i]) :
          b # cur /\ ~Terminated(term, b)
    /\ \A i, j \in 1..Len(stack) :
          i # j => Reserved(stack[i]) \cap Reserved(stack[j]) = {}

\* A lowered function is one ir_validate_module accepts: every block of it, the
\* unreachable ones included, ends in a ret, br or cbr.
BlocksTerminated ==
    phase = "run" => \A b \in Blocks : Terminated(term, b)

\* What makes the two above inductive: a block without a terminator is the current
\* one or is reserved by an open statement.
OpenAccounted ==
    \A b \in Blocks :
        \/ Terminated(term, b)
        \/ phase = "lower" /\ b = cur
        \/ phase = "lower" /\ \E i \in 1..Len(stack) : b \in Reserved(stack[i])

\* Once a block has its terminator, nothing is added behind it and the
\* terminator stays: ir_emit_load, ir_emit_store and ir_emit_call append without
\* looking, so this rests on AST_BLOCK stopping at a terminated block.
TerminatorsFinal ==
    [][\A b \in Blocks : Terminated(term, b) =>
            code'[b] = code[b] /\ term'[b] = term[b]]_vars

(* The structured program that the blocks stand for. *)
Landing[b \in Blocks] ==
    IF code[b] = <<>> /\ term[b].kind = "br" THEN Landing[term[b].t] ELSE <<b, 1>>

Observed ==
    IF phase = "lower" THEN <<0, "parse">>
    ELSE IF AtEnd(ip) /\ term[ip[1]].kind = "br" THEN EventAt(Landing[term[ip[1]].t])
    ELSE EventAt(ip)

Source == INSTANCE StructuredFlow WITH at <- Observed

\* The blocks do what the source says: whatever the conditions evaluate to, the
\* run of the blocks performs the statements, conditions and increments that the
\* structured program performs, in its order, and returns where it returns.
SourceSemantics == Source!FlowSpec
=============================================================================
