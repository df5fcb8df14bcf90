--------------------------- MODULE LoweringProofs ---------------------------
(***************************************************************************)
(* Proofs about Lowering for source text of any length and shape.          *)
(***************************************************************************)
EXTENDS Lowering, SequenceTheorems, TLAPS

(* Sequences, tables of blocks, and the emitters on them. *)

LEMMA FrontType ==
    ASSUME NEW S, NEW s \in Seq(S)
    PROVE  /\ Front(s) \in Seq(S)
           /\ s # <<>> => Len(Front(s)) = Len(s) - 1
           /\ \A i \in 1..Len(Front(s)) : i \in 1..(Len(s) - 1) /\ Front(s)[i] = s[i]
<1>. DEFINE n == Len(s) - 1
<1>1. n \in Int /\ \A i \in 1..n : s[i] \in S
  OBVIOUS
<1>2. /\ SubSeq(s, 1, n) \in Seq(S)
      /\ Len(SubSeq(s, 1, n)) = IF 1 <= n THEN n - 1 + 1 ELSE 0
      /\ \A i \in 1..(n - 1 + 1) : SubSeq(s, 1, n)[i] = s[1 + i - 1]
  BY <1>1, SubSeqProperties
<1>3. Front(s) = SubSeq(s, 1, n)
  BY DEF Front
<1>4. s # <<>> => Len(s) >= 1
  OBVIOUS
<1>. HIDE DEF n
<1>5. Len(s) \in Nat /\ n = Len(s) - 1
  BY DEF n
<1>. QED  BY <1>2, <1>3, <1>4, <1>5

LEMMA LastType ==
    ASSUME NEW S, NEW s \in Seq(S), s # <<>>
    PROVE  s[Len(s)] \in S /\ Len(s) \in 1..Len(s)
OBVIOUS

\* Where an action leaves the blocks that already exist as they are.
OnlyIn(S) ==
    \A b \in 1..nblocks : b \notin S => term'[b] = term[b] /\ code'[b] = code[b]

LEMMA EmptyTypes == None \in Terminator /\ <<>> \in Seq(Event)
BY DEF None, Terminator, Event, EventKinds

LEMMA EventTypes ==
    ASSUME NEW i \in Nat, NEW k \in EventKinds
    PROVE  <<i, k>> \in Event
BY DEF Event

LEMMA RetType ==
    ASSUME NEW m \in Nat, NEW e \in Event
    PROVE  Ret(e) \in Terminator /\ BranchOK(Ret(e), m) /\ Ret(e).kind # "none"
BY DEF Ret, Terminator, BranchOK, Event, EventKinds

LEMMA BrType ==
    ASSUME NEW m \in Nat, NEW t \in 1..m
    PROVE  Br(t) \in Terminator /\ BranchOK(Br(t), m) /\ Br(t).kind # "none"
<1>1. <<0, "parse">> \in Event
  BY DEF Event, EventKinds
<1>. QED  BY <1>1 DEF Br, Terminator, BranchOK

LEMMA CbrType ==
    ASSUME NEW m \in Nat, NEW e \in Event, NEW t \in 1..m, NEW f \in 1..m
    PROVE  Cbr(e, t, f) \in Terminator /\ BranchOK(Cbr(e, t, f), m) /\ Cbr(e, t, f).kind # "none"
BY DEF Cbr, Terminator, BranchOK

\* Emitting a terminator x closes block b, if it was open, and no other block.
LEMMA EmitType ==
    ASSUME NEW m \in Nat, NEW tm, TermTable(tm, m), NEW b \in 1..m,
           NEW x \in Terminator, BranchOK(x, m), x.kind # "none"
    PROVE  /\ TermTable(EmitTerm(tm, b, x), m)
           /\ CloseWith(tm, b, x) = EmitTerm(tm, b, x)
           /\ Terminated(EmitTerm(tm, b, x), b)
           /\ \A c \in 1..m : c # b => EmitTerm(tm, b, x)[c] = tm[c]
           /\ \A c \in 1..m : Terminated(tm, c) => EmitTerm(tm, b, x)[c] = tm[c]
BY DEF TermTable, EmitTerm, CloseWith, Terminated

LEMMA AppendToType ==
    ASSUME NEW m \in Nat, NEW cd, CodeTable(cd, m), NEW b \in 1..m, NEW e \in Event
    PROVE  /\ CodeTable(AppendTo(cd, b, e), m)
           /\ \A c \in 1..m : c # b => AppendTo(cd, b, e)[c] = cd[c]
BY DEF CodeTable, AppendTo

\* A condition ends block b, or leaves it open, and no other block changes.
LEMMA CondTermType ==
    ASSUME NEW m \in Nat, NEW tm, TermTable(tm, m), NEW b \in 1..m,
           NEW i \in Nat, NEW yield, NEW t \in 1..m, NEW f \in 1..m
    PROVE  /\ TermTable(CondTerm(tm, b, i, yield, t, f), m)
           /\ \A c \in 1..m : c # b => CondTerm(tm, b, i, yield, t, f)[c] = tm[c]
           /\ yield = "value" => Terminated(CondTerm(tm, b, i, yield, t, f), b)
<1>. DEFINE e == <<i, "cond">>
            x == Cbr(e, t, f)
<1>1. CASE yield = "value"
  <2>1. CondTerm(tm, b, i, yield, t, f) = EmitTerm(tm, b, x)
    BY <1>1 DEF CondTerm
  <2>2. e \in Event
    BY EventTypes DEF EventKinds
  <2>. HIDE DEF e
  <2>3. x \in Terminator /\ BranchOK(x, m) /\ x.kind # "none"
    BY <2>2, CbrType
  <2>. HIDE DEF x
  <2>. QED  BY <2>1, <2>3, EmitType
<1>2. CASE yield # "value"
  BY <1>2 DEF CondTerm
<1>. QED  BY <1>1, <1>2

LEMMA CondCodeType ==
    ASSUME NEW m \in Nat, NEW cd, CodeTable(cd, m), NEW b \in 1..m, NEW i \in Nat, NEW yield
    PROVE  /\ CodeTable(CondCode(cd, b, i, yield), m)
           /\ \A c \in 1..m : c # b => CondCode(cd, b, i, yield)[c] = cd[c]
<1>1. <<i, "cond">> \in Event
  BY EventTypes DEF EventKinds
<1>2. CASE yield = "value"
  BY <1>2 DEF CondCode
<1>3. CASE yield # "value"
  <2>1. CondCode(cd, b, i, yield) = AppendTo(cd, b, <<i, "cond">>)
    BY <1>3 DEF CondCode
  <2>. QED  BY <1>1, <2>1, AppendToType
<1>. QED  BY <1>2, <1>3

\* Creating k blocks: the old ones keep what they have, the new ones are empty.
LEMMA GrowType ==
    ASSUME TypeOK, NEW k \in Nat, NEW m, m = nblocks + k
    PROVE  /\ TermTable(Grow(term, k, None), m)
           /\ CodeTable(Grow(code, k, <<>>), m)
           /\ \A b \in 1..nblocks : Grow(term, k, None)[b] = term[b]
           /\ \A b \in 1..nblocks : Grow(code, k, <<>>)[b] = code[b]
           /\ \A b \in (nblocks + 1)..m : Grow(term, k, None)[b] = None
<1>1. /\ nblocks \in Nat /\ m \in Nat
      /\ term \in [1..nblocks -> Terminator] /\ code \in [1..nblocks -> Seq(Event)]
      /\ \A b \in 1..nblocks : BranchOK(term[b], nblocks)
  BY DEF TypeOK, TermTable, CodeTable
<1>2. /\ Grow(term, k, None) \in [1..m -> Terminator]
      /\ Grow(code, k, <<>>) \in [1..m -> Seq(Event)]
      /\ \A b \in 1..nblocks : Grow(term, k, None)[b] = term[b]
      /\ \A b \in 1..nblocks : Grow(code, k, <<>>)[b] = code[b]
      /\ \A b \in (nblocks + 1)..m : Grow(term, k, None)[b] = None
  BY <1>1, EmptyTypes DEF Grow
<1>3. \A b \in 1..nblocks : BranchOK(term[b], m)
  BY <1>1 DEF BranchOK
<1>4. BranchOK(None, m)
  BY DEF BranchOK, None
<1>5. \A b \in 1..m : BranchOK(Grow(term, k, None)[b], m)
  BY <1>1, <1>2, <1>3, <1>4
<1>. QED  BY <1>2, <1>5 DEF TermTable, CodeTable

-----------------------------------------------------------------------------
(* Type correctness. *)

LEMMA InitType == Init => TypeOK
<1>. SUFFICES ASSUME Init PROVE TypeOK
  OBVIOUS
<1>1. CodeTable(code, 1)
  BY EmptyTypes DEF Init, CodeTable
<1>2. TermTable(term, 1)
  BY EmptyTypes DEF Init, TermTable, BranchOK, None
<1>3. FrameStack(stack, 1) /\ TargetStack(targets, 1)
  BY DEF Init, FrameStack, TargetStack
<1>. QED  BY <1>1, <1>2, <1>3 DEF Init, TypeOK, Blocks

\* A parsed token keeps the source a sequence of tokens.
LEMMA AdmittedType ==
    ASSUME TypeOK, NEW op \in Ops, Admitted(op)
    PROVE  prog' \in Seq(Ops) /\ Here \in Nat /\ phase = "lower"
BY DEF TypeOK, Admitted, Here

\* What is to show of an action of the lowering.
LEMMA StillTyped ==
    ASSUME prog' \in Seq(Ops), phase' = "lower", ip' = <<1, 1>>,
           NEW m \in Nat, nblocks' = m, m >= 1, cur' \in 1..m,
           CodeTable(code', m), TermTable(term', m),
           FrameStack(stack', m), TargetStack(targets', m)
    PROVE  TypeOK'
BY DEF TypeOK, Blocks

LEMMA TypeParts ==
    ASSUME TypeOK, phase = "lower"
    PROVE  /\ nblocks \in Nat /\ nblocks >= 1 /\ cur \in 1..nblocks /\ ip = <<1, 1>>
           /\ CodeTable(code, nblocks) /\ TermTable(term, nblocks)
           /\ FrameStack(stack, nblocks) /\ TargetStack(targets, nblocks)
BY DEF TypeOK, Blocks

LEMMA TargetsGrow ==
    ASSUME NEW m \in Nat, NEW n \in Nat, m <= n, TargetStack(targets, m)
    PROVE  TargetStack(targets, n)
<1>. DEFINE A == [brk : 1..m, cont : 1..m]
            B == [brk : 1..n, cont : 1..n]
<1>1. A \subseteq B /\ targets \in Seq(A)
  BY DEF TargetStack
<1>2. TargetStack(targets, n) <=> targets \in Seq(B)
  BY DEF TargetStack
<1>. HIDE DEF A, B
<1>. QED  BY <1>1, <1>2

\* Pushing a frame, the block table having grown from n to m blocks.
LEMMA PushType ==
    ASSUME NEW n \in Nat, NEW m \in Nat, n <= m, FrameStack(stack, n),
           NEW f \in Frame, FrameOK(f, m)
    PROVE  FrameStack(Append(stack, f), m)
<1>1. \A i \in 1..Len(stack) : FrameOK(stack[i], m)
  BY DEF FrameStack, FrameOK
<1>2. stack \in Seq(Frame)
  BY DEF FrameStack
<1>. QED  BY <1>1, <1>2 DEF FrameStack

-----------------------------------------------------------------------------
(* What each action of the lowering does. *)

LEMMA SkipSimpleType ==
    ASSUME TypeOK, NEW op \in Simple, SkipSimple(op)
    PROVE  TypeOK'
BY AdmittedType DEF SkipSimple, TypeOK, Blocks, Ops

LEMMA LowerActType ==
    ASSUME TypeOK, LowerAct
    PROVE  TypeOK' /\ OnlyIn({cur}) /\ term' = term
<1>1. prog' \in Seq(Ops) /\ <<Here, "act">> \in Event /\ phase = "lower"
  BY AdmittedType, EventTypes DEF LowerAct, Ops, Simple, EventKinds
<1>2. CodeTable(code', nblocks) /\ \A c \in 1..nblocks : c # cur => code'[c] = code[c]
  BY <1>1, TypeParts, AppendToType DEF LowerAct
<1>. QED  BY <1>1, <1>2 DEF LowerAct, TypeOK, Blocks, OnlyIn

LEMMA LowerReturnType ==
    ASSUME TypeOK, LowerReturn
    PROVE  TypeOK' /\ OnlyIn({cur}) /\ Terminated(term', cur)
<1>1. prog' \in Seq(Ops) /\ <<Here, "ret">> \in Event /\ phase = "lower"
  BY AdmittedType, EventTypes DEF LowerReturn, Ops, Simple, EventKinds
<1>. DEFINE x == Ret(<<Here, "ret">>)
<1>2. nblocks \in Nat /\ cur \in 1..nblocks /\ TermTable(term, nblocks)
  BY <1>1, TypeParts
<1>3. x \in Terminator /\ BranchOK(x, nblocks) /\ x.kind # "none"
  BY <1>1, <1>2, RetType
<1>4. term' = EmitTerm(term, cur, x)
  BY DEF LowerReturn
<1>. HIDE DEF x
<1>5. /\ TermTable(term', nblocks) /\ Terminated(term', cur)
      /\ \A c \in 1..nblocks : c # cur => term'[c] = term[c]
  BY <1>2, <1>3, <1>4, EmitType
<1>. QED  BY <1>1, <1>5 DEF LowerReturn, TypeOK, Blocks, OnlyIn

LEMMA LowerJumpType ==
    ASSUME TypeOK, NEW op \in {"break", "continue"}, LowerJump(op)
    PROVE  TypeOK' /\ OnlyIn({cur}) /\ \A b \in Blocks : Terminated(term, b) => term'[b] = term[b]
<1>1. prog' \in Seq(Ops) /\ phase = "lower"
  BY AdmittedType DEF LowerJump, Ops, Simple
<1>2. /\ nblocks \in Nat /\ cur \in 1..nblocks /\ TermTable(term, nblocks)
      /\ targets \in Seq([brk : 1..nblocks, cont : 1..nblocks])
  BY <1>1, TypeParts DEF TargetStack
<1>3. CASE targets = <<>>
  <2>1. term' = term
    BY <1>3 DEF LowerJump
  <2>. QED  BY <1>1, <2>1 DEF LowerJump, TypeOK, Blocks, OnlyIn
<1>4. CASE targets # <<>>
  <2>. DEFINE tgt == targets[Len(targets)]
              dest == IF op = "break" THEN tgt.brk ELSE tgt.cont
              x == Br(dest)
  <2>1. tgt \in [brk : 1..nblocks, cont : 1..nblocks]
    BY <1>2, <1>4, LastType
  <2>2. dest \in 1..nblocks
    BY <2>1
  <2>3. term' = EmitTerm(term, cur, x)
    BY <1>4 DEF LowerJump
  <2>. HIDE DEF dest
  <2>4. x \in Terminator /\ BranchOK(x, nblocks) /\ x.kind # "none"
    BY <1>2, <2>2, BrType
  <2>. HIDE DEF x
  <2>5. /\ TermTable(term', nblocks)
        /\ \A c \in 1..nblocks : c # cur => term'[c] = term[c]
        /\ \A c \in 1..nblocks : Terminated(term, c) => term'[c] = term[c]
    BY <1>2, <2>3, <2>4, EmitType
  <2>. QED  BY <1>1, <2>5 DEF LowerJump, TypeOK, Blocks, OnlyIn
<1>. QED  BY <1>3, <1>4

LEMMA SkipOpenType ==
    ASSUME TypeOK, NEW op \in Openers, SkipOpen(op)
    PROVE  TypeOK'
<1>. DEFINE f == [op |-> op, at |-> Here, merge |-> 0, head |-> 0, alt |-> 0]
<1>1. prog' \in Seq(Ops) /\ phase = "lower" /\ Here \in Nat
  BY AdmittedType DEF SkipOpen, Ops
<1>2. stack' = Append(stack, f) /\ f \in Frame /\ FrameOK(f, nblocks)
  BY <1>1, TypeParts DEF SkipOpen, Push, Frame, FrameOK, Live
<1>. HIDE DEF f
<1>3. FrameStack(stack', nblocks)
  BY <1>1, <1>2, TypeParts, PushType
<1>. QED  BY <1>1, <1>3 DEF SkipOpen, TypeOK, Blocks

LEMMA LowerIfType ==
    ASSUME TypeOK, NEW yield, LowerIf(yield)
    PROVE  /\ TypeOK' /\ OnlyIn({cur}) /\ ~Terminated(term, cur)
           /\ stack' = Push("if", nblocks + 2, 0, 0)
           /\ \A b \in (nblocks + 1)..(nblocks + 2) : ~Terminated(term', b)
           /\ yield = "value" => Terminated(term', cur)
<1>. DEFINE n == nblocks
            m == nblocks + 2
            g == Grow(term, 2, None)
            h == Grow(code, 2, <<>>)
            tb == n + 1
            fb == n + 2
            f == [op |-> "if", at |-> Here, merge |-> n + 2, head |-> 0, alt |-> 0]
<1>1. /\ prog' \in Seq(Ops) /\ phase = "lower" /\ Here \in Nat
  BY AdmittedType DEF LowerIf, Ops, Openers
<1>2. /\ n \in Nat /\ n >= 1 /\ cur \in 1..n /\ ip = <<1, 1>>
      /\ FrameStack(stack, n) /\ TargetStack(targets, n)
  BY <1>1, TypeParts
<1>3. m \in Nat /\ cur \in 1..m /\ tb \in 1..m /\ fb \in 1..m
  BY <1>2
<1>4. /\ TermTable(g, m) /\ CodeTable(h, m)
      /\ \A b \in 1..n : g[b] = term[b] /\ h[b] = code[b]
      /\ \A b \in (n + 1)..m : g[b] = None
  BY GrowType
<1>5. /\ term' = CondTerm(g, cur, Here, yield, tb, fb)
      /\ code' = CondCode(h, cur, Here, yield)
      /\ stack' = Append(stack, f)
      /\ nblocks' = m /\ cur' = n + 1 /\ UNCHANGED <<phase, targets, ip>>
  BY DEF LowerIf, Push
<1>. HIDE DEF g, h
<1>6. /\ TermTable(term', m) /\ CodeTable(code', m)
      /\ \A c \in 1..m : c # cur => term'[c] = g[c]
      /\ \A c \in 1..m : c # cur => code'[c] = h[c]
      /\ yield = "value" => Terminated(term', cur)
  <2>. DEFINE v == CondTerm(g, cur, Here, yield, tb, fb)
              w == CondCode(h, cur, Here, yield)
  <2>. HIDE DEF m, n, tb, fb, f
  <2>0. /\ m \in Nat /\ TermTable(g, m) /\ CodeTable(h, m) /\ cur \in 1..m /\ Here \in Nat
        /\ tb \in 1..m /\ fb \in 1..m
    BY <1>1, <1>3, <1>4
  <2>1. /\ TermTable(v, m) /\ \A c \in 1..m : c # cur => v[c] = g[c]
        /\ yield = "value" => Terminated(v, cur)
    BY <2>0, CondTermType
  <2>2. CodeTable(w, m) /\ \A c \in 1..m : c # cur => w[c] = h[c]
    BY <2>0, CondCodeType
  <2>. QED  BY <1>5, <2>1, <2>2
<1>7. f \in Frame /\ FrameOK(f, m)
  BY <1>1, <1>3 DEF Frame, FrameOK, Live, Openers, Loops
<1>8. FrameStack(stack', m) /\ TargetStack(targets', m)
  <2>. HIDE DEF f
  <2>. QED  BY <1>2, <1>3, <1>5, <1>7, PushType, TargetsGrow
<1>9. TypeOK'
  <2>. HIDE DEF m
  <2>. QED  BY <1>1, <1>2, <1>3, <1>5, <1>6, <1>8, StillTyped
<1>10. OnlyIn({cur})
  BY <1>2, <1>4, <1>6 DEF OnlyIn
<1>11. \A b \in (n + 1)..m : ~Terminated(term', b)
  BY <1>2, <1>4, <1>6 DEF Terminated, None
<1>. QED  BY <1>5, <1>6, <1>9, <1>10, <1>11 DEF LowerIf, BlockStops

LEMMA LowerIfElseType ==
    ASSUME TypeOK, NEW yield, LowerIfElse(yield)
    PROVE  /\ TypeOK' /\ OnlyIn({cur}) /\ ~Terminated(term, cur)
           /\ stack' = Push("ifelse", nblocks + 3, 0, nblocks + 2)
           /\ \A b \in (nblocks + 1)..(nblocks + 3) : ~Terminated(term', b)
           /\ yield = "value" => Terminated(term', cur)
<1>. DEFINE n == nblocks
            m == nblocks + 3
            g == Grow(term, 3, None)
            h == Grow(code, 3, <<>>)
            tb == n + 1
            fb == n + 2
            f == [op |-> "ifelse", at |-> Here, merge |-> n + 3, head |-> 0, alt |-> n + 2]
<1>1. /\ prog' \in Seq(Ops) /\ phase = "lower" /\ Here \in Nat
  BY AdmittedType DEF LowerIfElse, Ops, Openers
<1>2. /\ n \in Nat /\ n >= 1 /\ cur \in 1..n /\ ip = <<1, 1>>
      /\ FrameStack(stack, n) /\ TargetStack(targets, n)
  BY <1>1, TypeParts
<1>3. m \in Nat /\ cur \in 1..m /\ tb \in 1..m /\ fb \in 1..m
  BY <1>2
<1>4. /\ TermTable(g, m) /\ CodeTable(h, m)
      /\ \A b \in 1..n : g[b] = term[b] /\ h[b] = code[b]
      /\ \A b \in (n + 1)..m : g[b] = None
  BY GrowType
<1>5. /\ term' = CondTerm(g, cur, Here, yield, tb, fb)
      /\ code' = CondCode(h, cur, Here, yield)
      /\ stack' = Append(stack, f)
      /\ nblocks' = m /\ cur' = n + 1 /\ UNCHANGED <<phase, targets, ip>>
  BY DEF LowerIfElse, Push
<1>. HIDE DEF g, h
<1>6. /\ TermTable(term', m) /\ CodeTable(code', m)
      /\ \A c \in 1..m : c # cur => term'[c] = g[c]
      /\ \A c \in 1..m : c # cur => code'[c] = h[c]
      /\ yield = "value" => Terminated(term', cur)
  <2>. DEFINE v == CondTerm(g, cur, Here, yield, tb, fb)
              w == CondCode(h, cur, Here, yield)
  <2>. HIDE DEF m, n, tb, fb, f
  <2>0. /\ m \in Nat /\ TermTable(g, m) /\ CodeTable(h, m) /\ cur \in 1..m /\ Here \in Nat
        /\ tb \in 1..m /\ fb \in 1..m
    BY <1>1, <1>3, <1>4
  <2>1. /\ TermTable(v, m) /\ \A c \in 1..m : c # cur => v[c] = g[c]
        /\ yield = "value" => Terminated(v, cur)
    BY <2>0, CondTermType
  <2>2. CodeTable(w, m) /\ \A c \in 1..m : c # cur => w[c] = h[c]
    BY <2>0, CondCodeType
  <2>. QED  BY <1>5, <2>1, <2>2
<1>7. f \in Frame /\ FrameOK(f, m)
  BY <1>1, <1>2, <1>3 DEF Frame, FrameOK, Live, Openers, Loops
<1>8. FrameStack(stack', m) /\ TargetStack(targets', m)
  <2>. HIDE DEF f
  <2>. QED  BY <1>2, <1>3, <1>5, <1>7, PushType, TargetsGrow
<1>9. TypeOK'
  <2>. HIDE DEF m
  <2>. QED  BY <1>1, <1>2, <1>3, <1>5, <1>6, <1>8, StillTyped
<1>10. OnlyIn({cur})
  BY <1>2, <1>4, <1>6 DEF OnlyIn
<1>11. \A b \in (n + 1)..m : ~Terminated(term', b)
  BY <1>2, <1>4, <1>6 DEF Terminated, None
<1>. QED  BY <1>5, <1>6, <1>9, <1>10, <1>11 DEF LowerIfElse, BlockStops

\* What opening a loop does: the current block and, unless the condition yields
\* nothing, the condition's block are closed; the others of the loop are open.
LEMMA LoopTables ==
    ASSUME TypeOK, phase = "lower", NEW k \in Nat, k >= 3, NEW n, n = nblocks, NEW m, m = n + k,
           NEW cd, CodeTable(cd, m), \A b \in 1..n : b # cur => cd[b] = code[b],
           NEW i \in Nat, NEW yield, NEW mb \in 1..m,
           term' = CondTerm(EmitTerm(Grow(term, k, None), cur, Br(n + 1)),
                            n + 1, i, yield, n + 2, mb),
           code' = CondCode(cd, n + 1, i, yield)
    PROVE  /\ TermTable(term', m) /\ CodeTable(code', m) /\ OnlyIn({cur})
           /\ Terminated(term', cur)
           /\ yield = "value" => Terminated(term', n + 1)
           /\ \A b \in (n + 2)..m : ~Terminated(term', b)
<1>. DEFINE g == Grow(term, k, None)
            hb == n + 1
            bb == n + 2
            x == Br(hb)
            e == EmitTerm(g, cur, x)
<1>1. /\ n \in Nat /\ cur \in 1..n /\ m \in Nat /\ cur \in 1..m
      /\ hb \in 1..m /\ bb \in 1..m /\ cur # hb
  BY TypeParts
<1>2. /\ TermTable(g, m)
      /\ \A b \in 1..n : g[b] = term[b]
      /\ \A b \in (n + 1)..m : g[b] = None
  BY GrowType
<1>. HIDE DEF g
<1>3. x \in Terminator /\ BranchOK(x, m) /\ x.kind # "none"
  BY <1>1, BrType
<1>. HIDE DEF x
<1>4. /\ TermTable(e, m) /\ Terminated(e, cur)
      /\ \A c \in 1..m : c # cur => e[c] = g[c]
  BY <1>1, <1>2, <1>3, EmitType
<1>5. term' = CondTerm(e, hb, i, yield, bb, mb) /\ code' = CondCode(cd, hb, i, yield)
  BY DEF e, g, x
<1>. HIDE DEF e
<1>6. /\ TermTable(term', m) /\ CodeTable(code', m)
      /\ \A c \in 1..m : c # hb => term'[c] = e[c]
      /\ \A c \in 1..m : c # hb => code'[c] = cd[c]
      /\ yield = "value" => Terminated(term', hb)
  <2>. DEFINE v == CondTerm(e, hb, i, yield, bb, mb)
              w == CondCode(cd, hb, i, yield)
  <2>. HIDE DEF hb, bb
  <2>0. /\ m \in Nat /\ TermTable(e, m) /\ CodeTable(cd, m) /\ hb \in 1..m /\ i \in Nat
        /\ bb \in 1..m /\ mb \in 1..m
    BY <1>1, <1>4
  <2>1. /\ TermTable(v, m) /\ \A c \in 1..m : c # hb => v[c] = e[c]
        /\ yield = "value" => Terminated(v, hb)
    BY <2>0, CondTermType
  <2>2. CodeTable(w, m) /\ \A c \in 1..m : c # hb => w[c] = cd[c]
    BY <2>0, CondCodeType
  <2>. QED  BY <1>5, <2>1, <2>2
<1>7. OnlyIn({cur})
  BY <1>1, <1>2, <1>4, <1>6 DEF OnlyIn
<1>8. Terminated(term', cur)
  BY <1>1, <1>4, <1>6 DEF Terminated
<1>9. \A b \in (n + 2)..m : ~Terminated(term', b)
  BY <1>1, <1>2, <1>4, <1>6 DEF Terminated, None
<1>. QED  BY <1>6, <1>7, <1>8, <1>9

LEMMA PushTarget ==
    ASSUME NEW n \in Nat, NEW m \in Nat, n <= m, TargetStack(targets, n),
           NEW b \in 1..m, NEW c \in 1..m
    PROVE  TargetStack(Append(targets, [brk |-> b, cont |-> c]), m)
<1>1. targets \in Seq([brk : 1..m, cont : 1..m])
  BY TargetsGrow DEF TargetStack
<1>. QED  BY <1>1 DEF TargetStack

LEMMA LowerWhileType ==
    ASSUME TypeOK, NEW yield, LowerWhile(yield)
    PROVE  /\ TypeOK' /\ OnlyIn({cur}) /\ ~Terminated(term, cur)
           /\ stack' = Push("while", nblocks + 3, nblocks + 1, 0)
           /\ Terminated(term', cur)
           /\ \A b \in (nblocks + 2)..(nblocks + 3) : ~Terminated(term', b)
           /\ yield = "value" => Terminated(term', nblocks + 1)
<1>. DEFINE n == nblocks
            m == nblocks + 3
            cd == Grow(code, 3, <<>>)
            f == [op |-> "while", at |-> Here, merge |-> n + 3, head |-> n + 1, alt |-> 0]
<1>1. /\ prog' \in Seq(Ops) /\ phase = "lower" /\ Here \in Nat
  BY AdmittedType DEF LowerWhile, Ops, Openers, Loops
<1>2. /\ n \in Nat /\ n >= 1 /\ cur \in 1..n /\ ip = <<1, 1>>
      /\ FrameStack(stack, n) /\ TargetStack(targets, n)
  BY <1>1, TypeParts
<1>3. m \in Nat /\ n + 1 \in 1..m /\ n + 2 \in 1..m /\ n + 3 \in 1..m /\ n <= m /\ m = n + 3
  BY <1>2
<1>4. CodeTable(cd, m) /\ \A b \in 1..n : cd[b] = code[b]
  BY GrowType
<1>5. /\ term' = CondTerm(EmitTerm(Grow(term, 3, None), cur, Br(n + 1)),
                          n + 1, Here, yield, n + 2, n + 3)
      /\ code' = CondCode(cd, n + 1, Here, yield)
      /\ stack' = Append(stack, f)
      /\ targets' = Append(targets, [brk |-> n + 3, cont |-> n + 1])
      /\ nblocks' = m /\ cur' = n + 2 /\ UNCHANGED <<phase, ip>>
  BY DEF LowerWhile, Push
<1>6. /\ TermTable(term', m) /\ CodeTable(code', m) /\ OnlyIn({cur})
      /\ Terminated(term', cur)
      /\ yield = "value" => Terminated(term', n + 1)
      /\ \A b \in (n + 2)..m : ~Terminated(term', b)
  <2>. HIDE DEF cd, f, m
  <2>1. \A b \in 1..n : b # cur => cd[b] = code[b]
    BY <1>4
  <2>2. 3 \in Nat /\ 3 >= 3 /\ n = nblocks
    OBVIOUS
  <2>. HIDE DEF n
  <2>. QED  BY <1>1, <1>3, <1>4, <1>5, <2>1, <2>2, LoopTables
<1>7. f \in Frame /\ FrameOK(f, m)
  BY <1>1, <1>3 DEF Frame, FrameOK, Live, Openers, Loops
<1>8. FrameStack(stack', m) /\ TargetStack(targets', m)
  <2>. HIDE DEF f
  <2>. QED  BY <1>2, <1>3, <1>5, <1>7, PushType, PushTarget
<1>9. TypeOK'
  <2>. HIDE DEF m
  <2>. QED  BY <1>1, <1>2, <1>3, <1>5, <1>6, <1>8, StillTyped
<1>. QED  BY <1>5, <1>6, <1>9 DEF LowerWhile, BlockStops

LEMMA LowerForType ==
    ASSUME TypeOK, NEW yield, LowerFor(yield)
    PROVE  /\ TypeOK' /\ OnlyIn({cur}) /\ ~Terminated(term, cur)
           /\ stack' = Push("for", nblocks + 4, nblocks + 1, nblocks + 3)
           /\ Terminated(term', cur)
           /\ \A b \in (nblocks + 2)..(nblocks + 4) : ~Terminated(term', b)
           /\ yield = "value" => Terminated(term', nblocks + 1)
<1>. DEFINE n == nblocks
            m == nblocks + 4
            h == Grow(code, 4, <<>>)
            e == <<Here, "init">>
            cd == AppendTo(h, cur, e)
            f == [op |-> "for", at |-> Here, merge |-> n + 4, head |-> n + 1, alt |-> n + 3]
<1>1. /\ prog' \in Seq(Ops) /\ phase = "lower" /\ Here \in Nat
  BY AdmittedType DEF LowerFor, Ops, Openers, Loops
<1>2. /\ n \in Nat /\ n >= 1 /\ cur \in 1..n /\ ip = <<1, 1>>
      /\ FrameStack(stack, n) /\ TargetStack(targets, n)
  BY <1>1, TypeParts
<1>3. m \in Nat /\ n + 1 \in 1..m /\ n + 2 \in 1..m /\ n + 3 \in 1..m /\ n + 4 \in 1..m
      /\ n <= m /\ m = n + 4 /\ cur \in 1..m
  BY <1>2
<1>4. CodeTable(cd, m) /\ \A b \in 1..n : b # cur => cd[b] = code[b]
  <2>1. CodeTable(h, m) /\ \A b \in 1..n : h[b] = code[b]
    BY GrowType
  <2>2. e \in Event
    BY <1>1, EventTypes DEF EventKinds
  <2>. HIDE DEF h, e, m
  <2>3. /\ CodeTable(AppendTo(h, cur, e), m)
        /\ \A c \in 1..m : c # cur => AppendTo(h, cur, e)[c] = h[c]
    BY <1>3, <2>1, <2>2, AppendToType
  <2>. QED  BY <1>2, <1>3, <2>1, <2>3
<1>5. /\ term' = CondTerm(EmitTerm(Grow(term, 4, None), cur, Br(n + 1)),
                          n + 1, Here, yield, n + 2, n + 4)
      /\ code' = CondCode(cd, n + 1, Here, yield)
      /\ stack' = Append(stack, f)
      /\ targets' = Append(targets, [brk |-> n + 4, cont |-> n + 3])
      /\ nblocks' = m /\ cur' = n + 2 /\ UNCHANGED <<phase, ip>>
  BY DEF LowerFor, Push, ForContinue
<1>6. /\ TermTable(term', m) /\ CodeTable(code', m) /\ OnlyIn({cur})
      /\ Terminated(term', cur)
      /\ yield = "value" => Terminated(term', n + 1)
      /\ \A b \in (n + 2)..m : ~Terminated(term', b)
  <2>. HIDE DEF cd, f, m, h, e
  <2>. DEFINE mb == n + 4
              k == 4
  <2>1. k \in Nat /\ k >= 3 /\ n = nblocks /\ mb \in 1..m /\ m = n + k
    BY <1>3
  <2>2. /\ term' = CondTerm(EmitTerm(Grow(term, k, None), cur, Br(n + 1)),
                            n + 1, Here, yield, n + 2, mb)
        /\ code' = CondCode(cd, n + 1, Here, yield)
    BY <1>5
  <2>. HIDE DEF n, mb, k
  <2>. QED  BY <1>1, <1>3, <1>4, <2>1, <2>2, LoopTables
<1>7. f \in Frame /\ FrameOK(f, m)
  BY <1>1, <1>2, <1>3 DEF Frame, FrameOK, Live, Openers, Loops
<1>8. FrameStack(stack', m) /\ TargetStack(targets', m)
  <2>. HIDE DEF f
  <2>. QED  BY <1>2, <1>3, <1>5, <1>7, PushType, PushTarget
<1>9. TypeOK'
  <2>. HIDE DEF m, f, cd
  <2>. QED  BY <1>1, <1>2, <1>3, <1>5, <1>6, <1>8, StillTyped
<1>. QED  BY <1>5, <1>6, <1>9 DEF LowerFor, BlockStops

-----------------------------------------------------------------------------

LEMMA TopType ==
    ASSUME TypeOK, stack # <<>>
    PROVE  /\ Top \in Frame /\ FrameOK(Top, nblocks)
           /\ Len(stack) \in Nat /\ Len(stack) >= 1 /\ Top = stack[Len(stack)]
           /\ FrameStack(Pop, nblocks) /\ Len(Pop) = Len(stack) - 1
           /\ \A i \in 1..Len(Pop) : i \in 1..(Len(stack) - 1) /\ Pop[i] = stack[i]
<1>1. stack \in Seq(Frame) /\ \A i \in 1..Len(stack) : FrameOK(stack[i], nblocks)
  BY DEF TypeOK, FrameStack
<1>2. Len(stack) \in Nat /\ Len(stack) >= 1
  BY <1>1
<1>3. /\ Pop \in Seq(Frame) /\ Len(Pop) = Len(stack) - 1
      /\ \A i \in 1..Len(Pop) : i \in 1..(Len(stack) - 1) /\ Pop[i] = stack[i]
  BY <1>1, FrontType DEF Pop
<1>4. Top \in Frame /\ FrameOK(Top, nblocks)
  BY <1>1, <1>2 DEF Top
<1>5. FrameStack(Pop, nblocks)
  BY <1>1, <1>2, <1>3 DEF FrameStack
<1>. QED  BY <1>2, <1>3, <1>4, <1>5 DEF Top

LEMMA PopTarget ==
    ASSUME NEW m, TargetStack(targets, m)
    PROVE  TargetStack(Front(targets), m)
BY FrontType DEF TargetStack

\* Closing the current block with a branch to block t.
LEMMA CloseType ==
    ASSUME TypeOK, phase = "lower", NEW t \in 1..nblocks
    PROVE  /\ TermTable(CloseWith(term, cur, Br(t)), nblocks)
           /\ Terminated(CloseWith(term, cur, Br(t)), cur)
           /\ \A c \in 1..nblocks : c # cur => CloseWith(term, cur, Br(t))[c] = term[c]
           /\ \A c \in 1..nblocks :
                 Terminated(term, c) => CloseWith(term, cur, Br(t))[c] = term[c]
<1>. DEFINE x == Br(t)
<1>1. nblocks \in Nat /\ cur \in 1..nblocks /\ TermTable(term, nblocks)
  BY TypeParts
<1>2. x \in Terminator /\ BranchOK(x, nblocks) /\ x.kind # "none"
  BY <1>1, BrType
<1>. HIDE DEF x
<1>3. /\ TermTable(CloseWith(term, cur, x), nblocks)
      /\ Terminated(CloseWith(term, cur, x), cur)
      /\ \A c \in 1..nblocks : c # cur => CloseWith(term, cur, x)[c] = term[c]
      /\ \A c \in 1..nblocks : Terminated(term, c) => CloseWith(term, cur, x)[c] = term[c]
  BY <1>1, <1>2, EmitType
<1>. QED  BY <1>3 DEF x

LEMMA SkipElseType ==
    ASSUME TypeOK, SkipElse
    PROVE  TypeOK'
<1>1. prog' \in Seq(Ops) /\ phase = "lower" /\ stack # <<>>
  BY AdmittedType DEF SkipElse, Admitted, Ops
<1>. DEFINE f == [Top EXCEPT !.op = "else"]
<1>2. f \in Frame /\ FrameOK(f, nblocks)
  BY <1>1, TopType DEF SkipElse, Frame, FrameOK, Live, Loops
<1>3. stack' = Append(Pop, f)
  BY DEF SkipElse
<1>. HIDE DEF f
<1>4. FrameStack(stack', nblocks)
  BY <1>1, <1>2, <1>3, TopType DEF FrameStack
<1>. QED  BY <1>1, <1>4 DEF SkipElse, TypeOK, Blocks

LEMMA LowerElseType ==
    ASSUME TypeOK, LowerElse
    PROVE  /\ TypeOK' /\ OnlyIn({cur}) /\ stack # <<>> /\ Terminated(term', cur)
           /\ \A c \in 1..nblocks : Terminated(term, c) => term'[c] = term[c]
           /\ Len(stack') = Len(stack) /\ \A i \in 1..(Len(stack) - 1) : stack'[i] = stack[i]
           /\ Reserved(stack'[Len(stack)]) = {Top.merge} /\ Reserved(Top) = {Top.merge, cur'}
           /\ cur' # Top.merge
<1>1. prog' \in Seq(Ops) /\ phase = "lower" /\ stack # <<>>
  BY AdmittedType DEF LowerElse, Admitted, Ops
<1>. DEFINE f == [Top EXCEPT !.op = "else", !.alt = 0]
<1>2. /\ Top.merge \in 1..nblocks /\ Top.alt \in 1..nblocks /\ nblocks \in Nat
      /\ Top.merge # Top.alt
  BY <1>1, TopType, TypeParts DEF LowerElse, FrameOK, Live
<1>3. f \in Frame /\ FrameOK(f, nblocks) /\ Reserved(f) = {Top.merge}
  <2>1. /\ f \in Frame /\ f.merge = Top.merge /\ f.alt = 0 /\ f.op = "else"
    BY <1>1, TopType DEF Frame
  <2>. HIDE DEF f
  <2>. QED  BY <1>2, <2>1 DEF FrameOK, Live, Loops, Reserved
<1>4. stack' = Append(Pop, f) /\ cur' = Top.alt
  BY DEF LowerElse
<1>. HIDE DEF f
<1>5. /\ FrameStack(stack', nblocks) /\ Len(stack') = Len(stack)
      /\ \A i \in 1..(Len(stack) - 1) : stack'[i] = stack[i]
      /\ stack'[Len(stack)] = f
  BY <1>1, <1>3, <1>4, TopType DEF FrameStack
<1>6. /\ TermTable(term', nblocks) /\ Terminated(term', cur)
      /\ \A c \in 1..nblocks : c # cur => term'[c] = term[c]
      /\ \A c \in 1..nblocks : Terminated(term, c) => term'[c] = term[c]
  BY <1>1, <1>2, CloseType DEF LowerElse
<1>7. Reserved(Top) = {Top.merge, cur'}
  BY <1>2, <1>4 DEF Reserved
<1>8. TypeOK' /\ OnlyIn({cur})
  BY <1>1, <1>2, <1>4, <1>5, <1>6 DEF LowerElse, TypeOK, Blocks, OnlyIn
<1>. QED  BY <1>1, <1>2, <1>3, <1>4, <1>5, <1>6, <1>7, <1>8

LEMMA SkipEndType ==
    ASSUME TypeOK, SkipEnd
    PROVE  TypeOK' /\ stack # <<>> /\ Top.merge = 0
<1>1. prog' \in Seq(Ops) /\ phase = "lower" /\ stack # <<>>
  BY AdmittedType DEF SkipEnd, Admitted, Ops
<1>2. FrameStack(stack', nblocks) /\ Top.merge = 0
  BY <1>1, TopType DEF SkipEnd, Live
<1>. QED  BY <1>1, <1>2 DEF SkipEnd, TypeOK, Blocks

LEMMA EndIfType ==
    ASSUME TypeOK, EndIf
    PROVE  /\ TypeOK' /\ OnlyIn({cur}) /\ stack # <<>> /\ Terminated(term', cur)
           /\ \A c \in 1..nblocks : Terminated(term, c) => term'[c] = term[c]
           /\ Top.merge # 0
<1>1. prog' \in Seq(Ops) /\ phase = "lower" /\ stack # <<>>
  BY AdmittedType DEF EndIf, Admitted, Ops
<1>2. Top.merge \in 1..nblocks
  BY <1>1, TopType, TypeParts DEF EndIf, FrameOK, Live
<1>3. FrameStack(stack', nblocks)
  BY <1>1, TopType DEF EndIf
<1>4. /\ TermTable(term', nblocks) /\ Terminated(term', cur)
      /\ \A c \in 1..nblocks : c # cur => term'[c] = term[c]
      /\ \A c \in 1..nblocks : Terminated(term, c) => term'[c] = term[c]
  BY <1>1, <1>2, CloseType DEF EndIf
<1>5. TypeOK' /\ OnlyIn({cur})
  BY <1>1, <1>2, <1>3, <1>4 DEF EndIf, TypeOK, Blocks, OnlyIn
<1>. QED  BY <1>1, <1>2, <1>4, <1>5

LEMMA EndWhileType ==
    ASSUME TypeOK, EndWhile
    PROVE  /\ TypeOK' /\ OnlyIn({cur}) /\ stack # <<>> /\ Terminated(term', cur)
           /\ \A c \in 1..nblocks : Terminated(term, c) => term'[c] = term[c]
           /\ Top.merge # 0
<1>1. prog' \in Seq(Ops) /\ phase = "lower" /\ stack # <<>>
  BY AdmittedType DEF EndWhile, Admitted, Ops
<1>2. Top.merge \in 1..nblocks /\ Top.head \in 1..nblocks
  BY <1>1, TopType, TypeParts DEF EndWhile, FrameOK, Live, Loops
<1>3. FrameStack(stack', nblocks) /\ TargetStack(targets', nblocks)
  BY <1>1, TopType, TypeParts, PopTarget DEF EndWhile
<1>4. /\ TermTable(term', nblocks) /\ Terminated(term', cur)
      /\ \A c \in 1..nblocks : c # cur => term'[c] = term[c]
      /\ \A c \in 1..nblocks : Terminated(term, c) => term'[c] = term[c]
  BY <1>1, <1>2, CloseType DEF EndWhile
<1>5. TypeOK' /\ OnlyIn({cur})
  BY <1>1, <1>2, <1>3, <1>4 DEF EndWhile, TypeOK, Blocks, OnlyIn
<1>. QED  BY <1>1, <1>2, <1>4, <1>5

LEMMA EndForType ==
    ASSUME TypeOK, EndFor
    PROVE  /\ TypeOK' /\ OnlyIn({cur, Top.alt}) /\ stack # <<>>
           /\ Terminated(term', cur) /\ Terminated(term', Top.alt)
           /\ \A c \in 1..nblocks : Terminated(term, c) => term'[c] = term[c]
           /\ \A c \in 1..nblocks : c # Top.alt => code'[c] = code[c]
           /\ Top.merge # 0 /\ Top.alt \in 1..nblocks
<1>1. prog' \in Seq(Ops) /\ phase = "lower" /\ stack # <<>>
  BY AdmittedType DEF EndFor, Admitted, Ops
<1>2. /\ Top.merge \in 1..nblocks /\ Top.head \in 1..nblocks /\ Top.alt \in 1..nblocks
      /\ nblocks \in Nat /\ cur \in 1..nblocks /\ Top.at \in Nat
  BY <1>1, TopType, TypeParts DEF EndFor, FrameOK, Live, Loops, Frame
<1>3. FrameStack(stack', nblocks) /\ TargetStack(targets', nblocks)
  BY <1>1, TopType, TypeParts, PopTarget DEF EndFor
<1>. DEFINE tm == CloseWith(term, cur, Br(Top.alt))
            x == Br(Top.head)
            e == <<Top.at, "inc">>
            inc == Top.alt
<1>4. /\ TermTable(tm, nblocks) /\ Terminated(tm, cur)
      /\ \A c \in 1..nblocks : c # cur => tm[c] = term[c]
      /\ \A c \in 1..nblocks : Terminated(term, c) => tm[c] = term[c]
  BY <1>1, <1>2, CloseType
<1>5. x \in Terminator /\ BranchOK(x, nblocks) /\ x.kind # "none" /\ e \in Event
  BY <1>2, BrType, EventTypes DEF EventKinds
<1>6. term' = EmitTerm(tm, inc, x) /\ code' = AppendTo(code, inc, e) /\ inc \in 1..nblocks
  BY <1>2 DEF EndFor
<1>. HIDE DEF tm, x, e, inc
<1>7. /\ TermTable(term', nblocks) /\ Terminated(term', inc)
      /\ \A c \in 1..nblocks : c # inc => term'[c] = tm[c]
      /\ \A c \in 1..nblocks : Terminated(tm, c) => term'[c] = tm[c]
  <2>0. /\ nblocks \in Nat /\ TermTable(tm, nblocks) /\ inc \in 1..nblocks
        /\ x \in Terminator /\ BranchOK(x, nblocks) /\ x.kind # "none"
    BY <1>2, <1>4, <1>5, <1>6
  <2>1. /\ TermTable(EmitTerm(tm, inc, x), nblocks) /\ Terminated(EmitTerm(tm, inc, x), inc)
        /\ \A c \in 1..nblocks : c # inc => EmitTerm(tm, inc, x)[c] = tm[c]
        /\ \A c \in 1..nblocks : Terminated(tm, c) => EmitTerm(tm, inc, x)[c] = tm[c]
    BY <2>0, EmitType
  <2>. QED  BY <1>6, <2>1
<1>8. CodeTable(code', nblocks) /\ \A c \in 1..nblocks : c # inc => code'[c] = code[c]
  BY <1>1, <1>2, <1>5, <1>6, TypeParts, AppendToType
<1>9. Terminated(term', cur) /\ \A c \in 1..nblocks : Terminated(term, c) => term'[c] = term[c]
  BY <1>2, <1>4, <1>7 DEF Terminated
<1>10. OnlyIn({cur, inc})
  BY <1>4, <1>7, <1>8 DEF OnlyIn
<1>11. TypeOK'
  BY <1>1, <1>2, <1>3, <1>7, <1>8, TypeParts DEF EndFor, TypeOK, Blocks
<1>. QED  BY <1>1, <1>2, <1>7, <1>8, <1>9, <1>10, <1>11 DEF inc

LEMMA FinishType ==
    ASSUME TypeOK, Finish
    PROVE  /\ TypeOK' /\ OnlyIn({cur}) /\ Terminated(term', cur)
           /\ \A c \in 1..nblocks : Terminated(term, c) => term'[c] = term[c]
<1>. DEFINE x == Ret(<<0, "exit">>)
<1>1. /\ nblocks \in Nat /\ nblocks >= 1 /\ cur \in 1..nblocks
      /\ TermTable(term, nblocks) /\ CodeTable(code, nblocks)
  BY TypeParts DEF Finish
<1>2. x \in Terminator /\ BranchOK(x, nblocks) /\ x.kind # "none"
  BY <1>1, RetType, EventTypes DEF EventKinds
<1>3. term' = IF term[cur].kind = "ret" THEN term ELSE EmitTerm(term, cur, x)
  BY DEF Finish
<1>. HIDE DEF x
<1>4. /\ TermTable(term', nblocks) /\ Terminated(term', cur)
      /\ \A c \in 1..nblocks : c # cur => term'[c] = term[c]
      /\ \A c \in 1..nblocks : Terminated(term, c) => term'[c] = term[c]
  <2>1. CASE term[cur].kind = "ret"
    BY <1>1, <1>3, <2>1 DEF Terminated
  <2>2. CASE term[cur].kind # "ret"
    BY <1>1, <1>2, <1>3, <2>2, EmitType
  <2>. QED  BY <2>1, <2>2
<1>5. code' = code /\ code[1] \in Seq(Event) /\ ip' = <<1, 1>> /\ phase' = "run"
  BY <1>1 DEF Finish, CodeTable
<1>6. OnlyIn({cur})
  BY <1>4, <1>5 DEF OnlyIn
<1>7. TypeOK'
  <2>1. /\ ip' \in Blocks' \X (Nat \ {0}) /\ ip'[2] <= Len(code'[ip'[1]]) + 1
    BY <1>1, <1>5 DEF Finish, Blocks
  <2>. QED  BY <1>4, <1>5, <2>1 DEF Finish, TypeOK, Blocks
<1>. QED  BY <1>4, <1>6, <1>7

\* Running the blocks leaves them alone, and stays inside them.
LEMMA RunType ==
    ASSUME TypeOK, RunNext
    PROVE  TypeOK' /\ phase = "run" /\ UNCHANGED <<phase, nblocks, code, term, cur, stack>>
<1>1. /\ phase = "run"
      /\ UNCHANGED <<prog, phase, nblocks, code, term, cur, stack, targets>>
  BY DEF RunNext, Exec, Jump, Branch, Returned, vars
<1>2. /\ ip \in (1..nblocks) \X (Nat \ {0}) /\ ip[2] <= Len(code[ip[1]]) + 1
      /\ \A b \in 1..nblocks : code[b] \in Seq(Event) /\ Len(code[b]) \in Nat
      /\ \A b \in 1..nblocks : BranchOK(term[b], nblocks)
  BY <1>1 DEF TypeOK, Blocks, CodeTable, TermTable
<1>3. /\ ip' \in (1..nblocks) \X (Nat \ {0}) /\ ip'[2] <= Len(code[ip'[1]]) + 1
  <2>1. CASE Exec
    BY <1>2, <2>1 DEF Exec, AtEnd
  <2>2. CASE Jump
    BY <1>2, <2>2 DEF Jump, BranchOK
  <2>3. CASE \E taken \in BOOLEAN : Branch(taken)
    <3>. PICK taken \in BOOLEAN : Branch(taken)
      BY <2>3
    <3>1. term[ip[1]].t \in 1..nblocks /\ term[ip[1]].f \in 1..nblocks
      BY <1>2 DEF Branch, BranchOK
    <3>2. PICK b \in 1..nblocks : ip' = <<b, 1>>
      BY <3>1 DEF Branch
    <3>. QED  BY <1>2, <3>2
  <2>4. CASE Returned
    BY <1>2, <2>4 DEF Returned, vars
  <2>. QED  BY <2>1, <2>2, <2>3, <2>4, Zenon DEF RunNext
<1>. QED  BY <1>1, <1>3 DEF TypeOK, Blocks

LEMMA NextType == TypeOK /\ [Next]_vars => TypeOK'
<1>. SUFFICES ASSUME TypeOK, [Next]_vars PROVE TypeOK'
  OBVIOUS
<1>1. ASSUME NEW op \in Simple, SkipSimple(op) PROVE TypeOK'
  BY <1>1, SkipSimpleType
<1>2. CASE LowerAct
  BY <1>2, LowerActType
<1>3. CASE LowerReturn
  BY <1>3, LowerReturnType
<1>4. ASSUME NEW op \in {"break", "continue"}, LowerJump(op) PROVE TypeOK'
  BY <1>4, LowerJumpType
<1>5. ASSUME NEW op \in Openers, SkipOpen(op) PROVE TypeOK'
  BY <1>5, SkipOpenType
<1>6. ASSUME NEW yield \in CondYields,
             LowerIf(yield) \/ LowerIfElse(yield) \/ LowerWhile(yield) \/ LowerFor(yield)
      PROVE  TypeOK'
  BY <1>6, LowerIfType, LowerIfElseType, LowerWhileType, LowerForType
<1>7. CASE SkipElse \/ LowerElse
  BY <1>7, SkipElseType, LowerElseType
<1>8. CASE SkipEnd \/ EndIf \/ EndWhile \/ EndFor
  BY <1>8, SkipEndType, EndIfType, EndWhileType, EndForType
<1>9. CASE Finish
  BY <1>9, FinishType
<1>10. CASE RunNext
  BY <1>10, RunType
<1>11. CASE UNCHANGED vars
  BY <1>11 DEF vars, TypeOK, Blocks
<1>. QED  BY <1>1, <1>2, <1>3, <1>4, <1>5, <1>6, <1>7, <1>8, <1>9, <1>10, <1>11
          DEF Next, LowerNext

\* Whatever the source text, lower_statement only ever emits into, branches to and
\* keeps in its locals and its loop targets blocks of the function being lowered.
THEOREM TypeCorrect == Spec => []TypeOK
<1>. QED  BY InitType, NextType, PTL DEF Spec

-----------------------------------------------------------------------------
(* Reserved blocks. *)

\* A reserved block exists.
LEMMA ReservedExist ==
    ASSUME TypeOK, NEW i \in 1..Len(stack), NEW b \in Reserved(stack[i])
    PROVE  b \in 1..nblocks
<1>1. nblocks \in Nat /\ FrameOK(stack[i], nblocks)
  BY DEF TypeOK, FrameStack
<1>. QED  BY <1>1 DEF FrameOK, Reserved

\* An action that leaves the open statements alone.
LEMMA ReservedSame ==
    ASSUME TypeOK, ReservedOpen, OnlyIn({cur}), UNCHANGED <<cur, stack>>
    PROVE  ReservedOpen'
<1>1. ASSUME NEW i \in 1..Len(stack), NEW b \in Reserved(stack[i])
      PROVE  b # cur' /\ ~Terminated(term', b)
  BY ReservedExist DEF ReservedOpen, OnlyIn, Terminated
<1>. QED  BY <1>1 DEF ReservedOpen

\* An action that opens a statement f, reserving new blocks for it.
LEMMA ReservedPush ==
    ASSUME TypeOK, ReservedOpen, OnlyIn({cur}), NEW f, stack' = Append(stack, f),
           cur' = cur \/ cur' > nblocks,
           \A b \in Reserved(f) : b > nblocks /\ b # cur' /\ ~Terminated(term', b)
    PROVE  ReservedOpen'
<1>1. /\ Len(stack) \in Nat /\ Len(stack') = Len(stack) + 1
      /\ \A i \in 1..Len(stack) : stack'[i] = stack[i]
      /\ stack'[Len(stack) + 1] = f
  BY DEF TypeOK, FrameStack
<1>2. nblocks \in Nat
  BY DEF TypeOK
<1>3. ASSUME NEW i \in 1..Len(stack), NEW b \in Reserved(stack[i])
      PROVE  b # cur' /\ ~Terminated(term', b) /\ ~(b > nblocks)
  BY <1>2, ReservedExist DEF ReservedOpen, OnlyIn, Terminated
<1>4. \A i \in 1..Len(stack') : i \in 1..Len(stack) \/ i = Len(stack) + 1
  BY <1>1
<1>5. \A i \in 1..Len(stack') : \A b \in Reserved(stack'[i]) : b # cur' /\ ~Terminated(term', b)
  BY <1>1, <1>3, <1>4
<1>6. ASSUME NEW i \in 1..Len(stack'), NEW j \in 1..Len(stack'), i # j
      PROVE  Reserved(stack'[i]) \cap Reserved(stack'[j]) = {}
  BY <1>1, <1>3, <1>4, <1>6 DEF ReservedOpen
<1>. QED  BY <1>5, <1>6 DEF ReservedOpen

\* An action that closes the innermost open statement, or narrows what it reserves.
LEMMA ReservedPop ==
    ASSUME TypeOK, ReservedOpen, stack # <<>>, OnlyIn({cur} \cup Reserved(Top)),
           cur' \in {cur} \cup Reserved(Top),
           Len(stack') \in Nat, Len(stack') <= Len(stack),
           \A i \in 1..(Len(stack) - 1) : i \in 1..Len(stack') => stack'[i] = stack[i],
           Len(stack') = Len(stack) =>
              /\ Reserved(stack'[Len(stack)]) \subseteq Reserved(Top)
              /\ \A b \in Reserved(stack'[Len(stack)]) : b # cur' /\ ~Terminated(term', b)
    PROVE  ReservedOpen'
<1>. DEFINE k == Len(stack)
<1>1. k \in Nat /\ k >= 1 /\ Top = stack[k]
  BY TopType
<1>2. ASSUME NEW i \in 1..(k - 1), NEW b \in Reserved(stack[i])
      PROVE  b # cur' /\ ~Terminated(term', b)
  <2>1. i \in 1..k /\ k \in 1..k /\ i # k
    BY <1>1
  <2>2. b \notin Reserved(Top) /\ b # cur /\ ~Terminated(term, b)
    BY <1>1, <2>1 DEF ReservedOpen
  <2>3. b \in 1..nblocks
    BY <2>1, ReservedExist
  <2>. QED  BY <2>2, <2>3 DEF OnlyIn, Terminated
<1>3. \A i \in 1..Len(stack') : i \in 1..k /\ (i \in 1..(k - 1) \/ (i = k /\ Len(stack') = k))
  BY <1>1
<1>4. \A i \in 1..Len(stack') : \A b \in Reserved(stack'[i]) : b # cur' /\ ~Terminated(term', b)
  BY <1>1, <1>2, <1>3
<1>5. \A i \in 1..Len(stack') : Reserved(stack'[i]) \subseteq Reserved(stack[i])
  BY <1>1, <1>3
<1>6. ASSUME NEW i \in 1..Len(stack'), NEW j \in 1..Len(stack'), i # j
      PROVE  Reserved(stack'[i]) \cap Reserved(stack'[j]) = {}
  <2>1. Reserved(stack[i]) \cap Reserved(stack[j]) = {}
    BY <1>3, <1>6 DEF ReservedOpen
  <2>. QED  BY <1>5, <2>1
<1>. QED  BY <1>4, <1>6 DEF ReservedOpen

\* The frame a statement pushes.
NewFrame(op, merge, head, alt) ==
    [op |-> op, at |-> Here, merge |-> merge, head |-> head, alt |-> alt]

LEMMA InitReserved == Init => ReservedOpen
BY DEF Init, ReservedOpen

LEMMA OpenReserved ==
    ASSUME TypeOK, ReservedOpen, NEW yield,
           LowerIf(yield) \/ LowerIfElse(yield) \/ LowerWhile(yield) \/ LowerFor(yield)
    PROVE  ReservedOpen'
<1>. DEFINE n == nblocks
<1>1. n \in Nat
  BY DEF TypeOK
<1>2. CASE LowerIf(yield)
  <2>. DEFINE f == NewFrame("if", n + 2, 0, 0)
  <2>1. stack' = Append(stack, f) /\ OnlyIn({cur}) /\ cur' = n + 1
    BY <1>2, LowerIfType DEF Push, NewFrame, LowerIf
  <2>2. \A b \in Reserved(f) : b > n /\ b # cur' /\ ~Terminated(term', b)
    BY <1>1, <1>2, <2>1, LowerIfType DEF Reserved, NewFrame
  <2>. HIDE DEF f
  <2>. QED  BY <1>1, <2>1, <2>2, ReservedPush
<1>3. CASE LowerIfElse(yield)
  <2>. DEFINE f == NewFrame("ifelse", n + 3, 0, n + 2)
  <2>1. stack' = Append(stack, f) /\ OnlyIn({cur}) /\ cur' = n + 1
    BY <1>3, LowerIfElseType DEF Push, NewFrame, LowerIfElse
  <2>2. \A b \in Reserved(f) : b > n /\ b # cur' /\ ~Terminated(term', b)
    BY <1>1, <1>3, <2>1, LowerIfElseType DEF Reserved, NewFrame
  <2>. HIDE DEF f
  <2>. QED  BY <1>1, <2>1, <2>2, ReservedPush
<1>4. CASE LowerWhile(yield)
  <2>. DEFINE f == NewFrame("while", n + 3, n + 1, 0)
  <2>1. stack' = Append(stack, f) /\ OnlyIn({cur}) /\ cur' = n + 2
    BY <1>4, LowerWhileType DEF Push, NewFrame, LowerWhile
  <2>2. \A b \in Reserved(f) : b > n /\ b # cur' /\ ~Terminated(term', b)
    BY <1>1, <1>4, <2>1, LowerWhileType DEF Reserved, NewFrame
  <2>. HIDE DEF f
  <2>. QED  BY <1>1, <2>1, <2>2, ReservedPush
<1>5. CASE LowerFor(yield)
  <2>. DEFINE f == NewFrame("for", n + 4, n + 1, n + 3)
  <2>1. stack' = Append(stack, f) /\ OnlyIn({cur}) /\ cur' = n + 2
    BY <1>5, LowerForType DEF Push, NewFrame, LowerFor
  <2>2. \A b \in Reserved(f) : b > n /\ b # cur' /\ ~Terminated(term', b)
    BY <1>1, <1>5, <2>1, LowerForType DEF Reserved, NewFrame
  <2>. HIDE DEF f
  <2>. QED  BY <1>1, <2>1, <2>2, ReservedPush
<1>. QED  BY <1>2, <1>3, <1>4, <1>5

LEMMA SkipOpenReserved ==
    ASSUME TypeOK, ReservedOpen, NEW op \in Openers, SkipOpen(op)
    PROVE  ReservedOpen'
<1>. DEFINE f == NewFrame(op, 0, 0, 0)
<1>1. stack' = Append(stack, f) /\ cur' = cur /\ OnlyIn({cur})
  BY DEF SkipOpen, Push, NewFrame, OnlyIn
<1>2. Reserved(f) = {}
  BY DEF Reserved, NewFrame
<1>. HIDE DEF f
<1>. QED  BY <1>1, <1>2, ReservedPush

LEMMA ElseReserved ==
    ASSUME TypeOK, ReservedOpen, SkipElse \/ LowerElse
    PROVE  ReservedOpen'
<1>1. CASE SkipElse
  <2>. DEFINE f == [Top EXCEPT !.op = "else"]
  <2>1. stack # <<>> /\ stack' = Append(Pop, f) /\ UNCHANGED <<cur, term, code>>
    BY <1>1 DEF SkipElse, Admitted
  <2>2. Reserved(f) = {}
    BY <1>1, <2>1, TopType DEF SkipElse, Live, Reserved, Frame, FrameOK
  <2>. HIDE DEF f
  <2>3. /\ Len(stack') = Len(stack) /\ Len(stack) \in Nat /\ stack'[Len(stack)] = f
        /\ \A i \in 1..(Len(stack) - 1) : stack'[i] = stack[i]
    BY <2>1, TopType DEF FrameStack
  <2>. QED  BY <2>1, <2>2, <2>3, ReservedPop DEF OnlyIn
<1>2. CASE LowerElse
  <2>1. /\ OnlyIn({cur}) /\ stack # <<>> /\ Len(stack') = Len(stack) /\ Len(stack) \in Nat
        /\ Len(stack) >= 1 /\ Top = stack[Len(stack)]
        /\ \A i \in 1..(Len(stack) - 1) : stack'[i] = stack[i]
        /\ Reserved(stack'[Len(stack)]) = {Top.merge} /\ Reserved(Top) = {Top.merge, cur'}
        /\ cur' # Top.merge
    BY <1>2, LowerElseType, TopType
  <2>0. Len(stack) \in 1..Len(stack) /\ Top.merge \in Reserved(stack[Len(stack)])
    BY <2>1
  <2>2. Top.merge # cur /\ ~Terminated(term, Top.merge) /\ Top.merge \in 1..nblocks
    BY <2>0, ReservedExist DEF ReservedOpen
  <2>3. ~Terminated(term', Top.merge)
    BY <2>1, <2>2 DEF OnlyIn, Terminated
  <2>4. OnlyIn({cur} \cup Reserved(Top))
    BY <2>1 DEF OnlyIn
  <2>5. /\ cur' \in {cur} \cup Reserved(Top)
        /\ Reserved(stack'[Len(stack)]) \subseteq Reserved(Top)
        /\ \A b \in Reserved(stack'[Len(stack)]) : b # cur' /\ ~Terminated(term', b)
    BY <2>1, <2>3
  <2>6. /\ stack # <<>> /\ Len(stack') \in Nat /\ Len(stack') <= Len(stack)
        /\ \A i \in 1..(Len(stack) - 1) : i \in 1..Len(stack') => stack'[i] = stack[i]
    BY <2>1
  <2>. QED  BY <2>4, <2>5, <2>6, ReservedPop
<1>. QED  BY <1>1, <1>2

LEMMA EndReserved ==
    ASSUME TypeOK, ReservedOpen, SkipEnd \/ EndIf \/ EndWhile \/ EndFor
    PROVE  ReservedOpen'
<1>1. stack' = Pop /\ stack # <<>>
  BY SkipEndType, EndIfType, EndWhileType, EndForType DEF SkipEnd, EndIf, EndWhile, EndFor
<1>2. cur' \in {cur} \cup Reserved(Top)
  BY EndIfType, EndWhileType, EndForType DEF SkipEnd, EndIf, EndWhile, EndFor, Reserved
<1>3. OnlyIn({cur} \cup Reserved(Top))
  <2>1. CASE SkipEnd
    BY <2>1 DEF SkipEnd, OnlyIn
  <2>2. CASE EndIf \/ EndWhile
    BY <2>2, EndIfType, EndWhileType DEF OnlyIn
  <2>3. CASE EndFor
    <3>1. OnlyIn({cur, Top.alt}) /\ nblocks \in Nat /\ Top.alt \in 1..nblocks
      BY <2>3, EndForType DEF TypeOK
    <3>2. Top.alt \in Reserved(Top)
      BY <3>1 DEF Reserved
    <3>. QED  BY <3>1, <3>2 DEF OnlyIn
  <2>. QED  BY <2>1, <2>2, <2>3
<1>4. /\ Len(stack') = Len(stack) - 1 /\ Len(stack) \in Nat /\ Len(stack) >= 1
      /\ \A i \in 1..Len(stack') : stack'[i] = stack[i]
  BY <1>1, TopType
<1>5. Len(stack') \in Nat /\ Len(stack') <= Len(stack) /\ Len(stack') # Len(stack)
  BY <1>4
<1>. QED  BY <1>1, <1>2, <1>3, <1>4, <1>5, ReservedPop

LEMMA NextReserved == TypeOK /\ ReservedOpen /\ [Next]_vars => ReservedOpen'
<1>. SUFFICES ASSUME TypeOK, ReservedOpen, [Next]_vars PROVE ReservedOpen'
  OBVIOUS
<1>1. ASSUME NEW op \in Simple, SkipSimple(op) PROVE ReservedOpen'
  BY <1>1, ReservedSame DEF SkipSimple, OnlyIn
<1>2. CASE LowerAct
  BY <1>2, LowerActType, ReservedSame DEF LowerAct
<1>3. CASE LowerReturn
  BY <1>3, LowerReturnType, ReservedSame DEF LowerReturn
<1>4. ASSUME NEW op \in {"break", "continue"}, LowerJump(op) PROVE ReservedOpen'
  BY <1>4, LowerJumpType, ReservedSame DEF LowerJump
<1>5. ASSUME NEW op \in Openers, SkipOpen(op) PROVE ReservedOpen'
  BY <1>5, SkipOpenReserved
<1>6. ASSUME NEW yield \in CondYields,
             LowerIf(yield) \/ LowerIfElse(yield) \/ LowerWhile(yield) \/ LowerFor(yield)
      PROVE  ReservedOpen'
  BY <1>6, OpenReserved
<1>7. CASE SkipElse \/ LowerElse
  BY <1>7, ElseReserved
<1>8. CASE SkipEnd \/ EndIf \/ EndWhile \/ EndFor
  BY <1>8, EndReserved
<1>9. CASE Finish
  BY <1>9, FinishType, ReservedSame DEF Finish
<1>10. CASE RunNext
  BY <1>10, RunType, ReservedSame DEF OnlyIn
<1>11. CASE UNCHANGED vars
  BY <1>11, ReservedSame DEF vars, OnlyIn
<1>. QED  BY <1>1, <1>2, <1>3, <1>4, <1>5, <1>6, <1>7, <1>8, <1>9, <1>10, <1>11
          DEF Next, LowerNext

\* In every function, however long and deeply nested, the blocks lower_statement
\* has yet to fill are open, no two statements share one, and none is current:
\* no later branch is refused by ir_emit_br or ir_emit_cbr.
THEOREM ReservedStayOpen == Spec => []ReservedOpen
<1>1. TypeOK /\ ReservedOpen /\ [Next]_vars => (TypeOK /\ ReservedOpen)'
  BY NextType, NextReserved
<1>. QED  BY <1>1, InitType, InitReserved, PTL DEF Spec

-----------------------------------------------------------------------------
(* Every block gets its terminator, when every condition yields a value. *)

LEMMA InitAccounted == Init => OpenAccounted
BY DEF Init, OpenAccounted, Blocks

LEMMA AccountedSame ==
    ASSUME OpenAccounted, OnlyIn({cur}), phase = "lower", UNCHANGED <<phase, nblocks, cur, stack>>
    PROVE  OpenAccounted'
<1>1. \A b \in 1..nblocks : b # cur /\ Terminated(term, b) => Terminated(term', b)
  BY DEF OnlyIn, Terminated
<1>. QED  BY <1>1 DEF OpenAccounted, Blocks

LEMMA AccountedPush ==
    ASSUME TypeOK, OpenAccounted, OnlyIn({cur}), phase = "lower", phase' = "lower",
           NEW f, stack' = Append(stack, f), NEW m \in Nat, nblocks' = m,
           cur' = cur \/ Terminated(term', cur),
           \A b \in (nblocks + 1)..m : Terminated(term', b) \/ b = cur' \/ b \in Reserved(f)
    PROVE  OpenAccounted'
<1>1. /\ Len(stack) \in Nat /\ Len(stack') = Len(stack) + 1 /\ nblocks \in Nat
      /\ \A i \in 1..Len(stack) : i \in 1..Len(stack') /\ stack'[i] = stack[i]
      /\ Len(stack) + 1 \in 1..Len(stack') /\ stack'[Len(stack) + 1] = f
  BY DEF TypeOK, FrameStack
<1>2. SUFFICES ASSUME NEW b \in 1..m, ~Terminated(term', b), b # cur'
               PROVE  \E i \in 1..Len(stack') : b \in Reserved(stack'[i])
  BY DEF OpenAccounted, Blocks
<1>3. CASE b \in 1..nblocks
  <2>1. b # cur
    BY <1>2
  <2>2. ~Terminated(term, b)
    BY <1>2, <1>3, <2>1 DEF OnlyIn, Terminated
  <2>3. PICK i \in 1..Len(stack) : b \in Reserved(stack[i])
    BY <1>3, <2>1, <2>2 DEF OpenAccounted, Blocks
  <2>. QED  BY <1>1, <2>3
<1>4. CASE b \in (nblocks + 1)..m
  <2>1. b \in Reserved(f)
    BY <1>2, <1>4
  <2>. QED  BY <1>1, <2>1
<1>. QED  BY <1>1, <1>3, <1>4

LEMMA AccountedPop ==
    ASSUME TypeOK, OpenAccounted, stack # <<>>, phase = "lower", phase' = "lower",
           \A c \in 1..nblocks : Terminated(term, c) => term'[c] = term[c],
           nblocks' = nblocks, cur' = cur \/ Terminated(term', cur),
           Len(stack') \in Nat, Len(stack') >= Len(stack) - 1,
           \A i \in 1..(Len(stack) - 1) : stack'[i] = stack[i],
           \A b \in Reserved(Top) :
              \/ Terminated(term', b) \/ b = cur'
              \/ Len(stack') = Len(stack) /\ b \in Reserved(stack'[Len(stack)])
    PROVE  OpenAccounted'
<1>. DEFINE k == Len(stack)
<1>1. k \in Nat /\ k >= 1 /\ Top = stack[k]
  BY TopType
<1>2. SUFFICES ASSUME NEW b \in 1..nblocks, ~Terminated(term', b), b # cur'
               PROVE  \E i \in 1..Len(stack') : b \in Reserved(stack'[i])
  BY DEF OpenAccounted, Blocks
<1>3. b # cur /\ ~Terminated(term, b)
  BY <1>2 DEF Terminated
<1>4. PICK i \in 1..k : b \in Reserved(stack[i])
  BY <1>3 DEF OpenAccounted, Blocks
<1>5. CASE i = k
  <2>1. Len(stack') = k /\ b \in Reserved(stack'[k])
    BY <1>1, <1>2, <1>4, <1>5
  <2>2. k \in 1..Len(stack')
    BY <1>1, <2>1
  <2>. QED  BY <2>1, <2>2
<1>6. CASE i # k
  <2>1. i \in 1..(k - 1) /\ i \in 1..Len(stack')
    BY <1>1, <1>6
  <2>2. b \in Reserved(stack'[i])
    BY <1>4, <2>1
  <2>. QED  BY <2>1, <2>2
<1>. QED  BY <1>5, <1>6

LEMMA OpenBlocksAccounted ==
    ASSUME TypeOK, OpenAccounted, NEW yield, yield = "value",
           LowerIf(yield) \/ LowerIfElse(yield) \/ LowerWhile(yield) \/ LowerFor(yield)
    PROVE  OpenAccounted'
<1>. DEFINE n == nblocks
<1>1. n \in Nat
  BY DEF TypeOK
<1>2. CASE LowerIf(yield)
  <2>. DEFINE f == NewFrame("if", n + 2, 0, 0)
              m == n + 2
  <2>1. /\ stack' = Append(stack, f) /\ OnlyIn({cur}) /\ cur' = n + 1 /\ nblocks' = m
        /\ phase = "lower" /\ phase' = "lower" /\ Terminated(term', cur)
    BY <1>2, LowerIfType DEF Push, NewFrame, LowerIf, Admitted
  <2>2. \A b \in (n + 1)..m : Terminated(term', b) \/ b = cur' \/ b \in Reserved(f)
    BY <1>1, <2>1 DEF Reserved, NewFrame
  <2>3. m \in Nat
    BY <1>1
  <2>. HIDE DEF f, m
  <2>. QED  BY <1>1, <2>1, <2>2, <2>3, AccountedPush
<1>3. CASE LowerIfElse(yield)
  <2>. DEFINE f == NewFrame("ifelse", n + 3, 0, n + 2)
              m == n + 3
  <2>1. /\ stack' = Append(stack, f) /\ OnlyIn({cur}) /\ cur' = n + 1 /\ nblocks' = m
        /\ phase = "lower" /\ phase' = "lower" /\ Terminated(term', cur)
    BY <1>3, LowerIfElseType DEF Push, NewFrame, LowerIfElse, Admitted
  <2>2. \A b \in (n + 1)..m : Terminated(term', b) \/ b = cur' \/ b \in Reserved(f)
    BY <1>1, <2>1 DEF Reserved, NewFrame
  <2>3. m \in Nat
    BY <1>1
  <2>. HIDE DEF f, m
  <2>. QED  BY <1>1, <2>1, <2>2, <2>3, AccountedPush
<1>4. CASE LowerWhile(yield)
  <2>. DEFINE f == NewFrame("while", n + 3, n + 1, 0)
              m == n + 3
  <2>1. /\ stack' = Append(stack, f) /\ OnlyIn({cur}) /\ cur' = n + 2 /\ nblocks' = m
        /\ phase = "lower" /\ phase' = "lower" /\ Terminated(term', cur)
        /\ Terminated(term', n + 1)
    BY <1>4, LowerWhileType DEF Push, NewFrame, LowerWhile, Admitted
  <2>2. \A b \in (n + 1)..m : Terminated(term', b) \/ b = cur' \/ b \in Reserved(f)
    BY <1>1, <2>1 DEF Reserved, NewFrame
  <2>3. m \in Nat
    BY <1>1
  <2>. HIDE DEF f, m
  <2>. QED  BY <1>1, <2>1, <2>2, <2>3, AccountedPush
<1>5. CASE LowerFor(yield)
  <2>. DEFINE f == NewFrame("for", n + 4, n + 1, n + 3)
              m == n + 4
  <2>1. /\ stack' = Append(stack, f) /\ OnlyIn({cur}) /\ cur' = n + 2 /\ nblocks' = m
        /\ phase = "lower" /\ phase' = "lower" /\ Terminated(term', cur)
        /\ Terminated(term', n + 1)
    BY <1>5, LowerForType DEF Push, NewFrame, LowerFor, Admitted
  <2>2. \A b \in (n + 1)..m : Terminated(term', b) \/ b = cur' \/ b \in Reserved(f)
    BY <1>1, <2>1 DEF Reserved, NewFrame
  <2>3. m \in Nat
    BY <1>1
  <2>. HIDE DEF f, m
  <2>. QED  BY <1>1, <2>1, <2>2, <2>3, AccountedPush
<1>. QED  BY <1>2, <1>3, <1>4, <1>5

LEMMA SkipOpenAccounted ==
    ASSUME TypeOK, OpenAccounted, NEW op \in Openers, SkipOpen(op)
    PROVE  OpenAccounted'
<1>. DEFINE f == NewFrame(op, 0, 0, 0)
<1>1. /\ stack' = Append(stack, f) /\ cur' = cur /\ OnlyIn({cur}) /\ nblocks' = nblocks
      /\ phase = "lower" /\ phase' = "lower" /\ nblocks \in Nat
  BY DEF SkipOpen, Push, NewFrame, OnlyIn, Admitted, TypeOK
<1>2. \A b \in (nblocks + 1)..nblocks : FALSE
  BY <1>1
<1>. HIDE DEF f
<1>. QED  BY <1>1, <1>2, AccountedPush

LEMMA ElseAccounted ==
    ASSUME TypeOK, OpenAccounted, SkipElse \/ LowerElse
    PROVE  OpenAccounted'
<1>1. CASE SkipElse
  <2>. DEFINE f == [Top EXCEPT !.op = "else"]
  <2>1. /\ stack # <<>> /\ stack' = Append(Pop, f) /\ UNCHANGED <<cur, term, code, nblocks>>
        /\ phase = "lower" /\ phase' = "lower"
    BY <1>1 DEF SkipElse, Admitted
  <2>2. Reserved(Top) = {}
    BY <1>1, <2>1, TopType DEF SkipElse, Live, Reserved, Frame, FrameOK
  <2>. HIDE DEF f
  <2>3. /\ Len(stack') = Len(stack) /\ Len(stack) \in Nat
        /\ \A i \in 1..(Len(stack) - 1) : stack'[i] = stack[i]
    BY <2>1, TopType DEF FrameStack
  <2>4. Len(stack') \in Nat /\ Len(stack') >= Len(stack) - 1
    BY <2>3
  <2>. QED  BY <2>1, <2>2, <2>3, <2>4, AccountedPop
<1>2. CASE LowerElse
  <2>1. /\ stack # <<>> /\ Len(stack') = Len(stack) /\ Len(stack) \in Nat
        /\ \A i \in 1..(Len(stack) - 1) : stack'[i] = stack[i]
        /\ Reserved(stack'[Len(stack)]) = {Top.merge} /\ Reserved(Top) = {Top.merge, cur'}
        /\ Terminated(term', cur)
        /\ \A c \in 1..nblocks : Terminated(term, c) => term'[c] = term[c]
    BY <1>2, LowerElseType, TopType
  <2>2. nblocks' = nblocks /\ phase = "lower" /\ phase' = "lower"
    BY <1>2 DEF LowerElse, Admitted
  <2>3. Len(stack') \in Nat /\ Len(stack') >= Len(stack) - 1
    BY <2>1
  <2>4. \A b \in Reserved(Top) :
           b = cur' \/ (Len(stack') = Len(stack) /\ b \in Reserved(stack'[Len(stack)]))
    BY <2>1
  <2>. QED  BY <2>1, <2>2, <2>3, <2>4, AccountedPop
<1>. QED  BY <1>1, <1>2

LEMMA EndAccounted ==
    ASSUME TypeOK, OpenAccounted, SkipEnd \/ EndIf \/ EndWhile \/ EndFor
    PROVE  OpenAccounted'
<1>1. /\ stack' = Pop /\ stack # <<>> /\ nblocks' = nblocks /\ phase = "lower" /\ phase' = "lower"
  BY SkipEndType, EndIfType, EndWhileType, EndForType
     DEF SkipEnd, EndIf, EndWhile, EndFor, Admitted
<1>2. /\ cur' = cur \/ Terminated(term', cur)
      /\ \A c \in 1..nblocks : Terminated(term, c) => term'[c] = term[c]
  BY EndIfType, EndWhileType, EndForType DEF SkipEnd
<1>3. \A b \in Reserved(Top) : Terminated(term', b) \/ b = cur'
  <2>1. FrameOK(Top, nblocks)
    BY <1>1, TopType
  <2>2. CASE SkipEnd
    BY <2>1, <2>2 DEF SkipEnd, Live, Reserved, FrameOK
  <2>3. CASE EndIf \/ EndWhile
    <3>1. cur' = Top.merge /\ Top.op \in {"if", "else", "while"}
      BY <2>3 DEF EndIf, EndWhile
    <3>. QED  BY <2>1, <3>1 DEF FrameOK, Reserved
  <2>4. CASE EndFor
    BY <2>4, EndForType DEF Reserved, EndFor
  <2>. QED  BY <2>2, <2>3, <2>4
<1>4. /\ Len(stack') = Len(stack) - 1 /\ Len(stack) \in Nat /\ Len(stack) >= 1
      /\ \A i \in 1..Len(stack') : stack'[i] = stack[i]
  BY <1>1, TopType
<1>5. /\ Len(stack') \in Nat /\ Len(stack') >= Len(stack) - 1
      /\ \A i \in 1..(Len(stack) - 1) : stack'[i] = stack[i]
  BY <1>4
<1>. QED  BY <1>1, <1>2, <1>3, <1>5, AccountedPop

LEMMA NextAccounted ==
    ASSUME CondYields = {"value"}
    PROVE  TypeOK /\ OpenAccounted /\ [Next]_vars => OpenAccounted'
<1>. SUFFICES ASSUME TypeOK, OpenAccounted, [Next]_vars PROVE OpenAccounted'
  OBVIOUS
<1>1. ASSUME NEW op \in Simple, SkipSimple(op) PROVE OpenAccounted'
  BY <1>1, AccountedSame DEF SkipSimple, OnlyIn, Admitted
<1>2. CASE LowerAct
  BY <1>2, LowerActType, AccountedSame DEF LowerAct, Admitted
<1>3. CASE LowerReturn
  BY <1>3, LowerReturnType, AccountedSame DEF LowerReturn, Admitted
<1>4. ASSUME NEW op \in {"break", "continue"}, LowerJump(op) PROVE OpenAccounted'
  BY <1>4, LowerJumpType, AccountedSame DEF LowerJump, Admitted
<1>5. ASSUME NEW op \in Openers, SkipOpen(op) PROVE OpenAccounted'
  BY <1>5, SkipOpenAccounted
<1>6. ASSUME NEW yield \in CondYields,
             LowerIf(yield) \/ LowerIfElse(yield) \/ LowerWhile(yield) \/ LowerFor(yield)
      PROVE  OpenAccounted'
  BY <1>6, OpenBlocksAccounted
<1>7. CASE SkipElse \/ LowerElse
  BY <1>7, ElseAccounted
<1>8. CASE SkipEnd \/ EndIf \/ EndWhile \/ EndFor
  BY <1>8, EndAccounted
<1>9. CASE Finish
  <2>1. /\ OnlyIn({cur}) /\ Terminated(term', cur) /\ stack = <<>> /\ nblocks' = nblocks
    BY <1>9, FinishType DEF Finish
  <2>2. \A b \in 1..nblocks : b # cur => Terminated(term, b)
    BY <2>1 DEF OpenAccounted, Blocks
  <2>3. \A b \in 1..nblocks : Terminated(term', b)
    BY <2>1, <2>2 DEF OnlyIn, Terminated
  <2>. QED  BY <2>1, <2>3 DEF OpenAccounted, Blocks
<1>10. CASE RunNext
  BY <1>10, RunType DEF OpenAccounted, Blocks
<1>11. CASE UNCHANGED vars
  BY <1>11 DEF vars, OpenAccounted, Blocks
<1>. QED  BY <1>1, <1>2, <1>3, <1>4, <1>5, <1>6, <1>7, <1>8, <1>9, <1>10, <1>11
          DEF Next, LowerNext

\* When no condition is the call of a void function, every function lower_program
\* produces passes ir_validate_module's test: each of its blocks, the unreachable
\* ones included, ends in a ret, br or cbr.
THEOREM BlocksAreTerminated ==
    ASSUME CondYields = {"value"}
    PROVE  Spec => []BlocksTerminated
<1>1. Init => TypeOK /\ OpenAccounted
  BY InitType, InitAccounted
<1>2. TypeOK /\ OpenAccounted /\ [Next]_vars => (TypeOK /\ OpenAccounted)'
  BY NextType, NextAccounted
<1>3. TypeOK /\ OpenAccounted => BlocksTerminated
  BY DEF OpenAccounted, BlocksTerminated, Blocks
<1>. QED  BY <1>1, <1>2, <1>3, PTL DEF Spec

-----------------------------------------------------------------------------
(* Terminators are final. *)

\* One step leaves closed blocks alone.
Final == \A b \in Blocks : Terminated(term, b) => code'[b] = code[b] /\ term'[b] = term[b]

LEMMA FinalIfOpen ==
    ASSUME OnlyIn({cur}), ~Terminated(term, cur)
    PROVE  Final
BY DEF Final, OnlyIn, Blocks

LEMMA NextFinal == TypeOK /\ ReservedOpen /\ [Next]_vars => Final
<1>. SUFFICES ASSUME TypeOK, ReservedOpen, [Next]_vars PROVE Final
  OBVIOUS
<1>1. ASSUME NEW op \in Simple, SkipSimple(op) PROVE Final
  BY <1>1 DEF SkipSimple, Final
<1>2. CASE LowerAct
  BY <1>2, LowerActType, FinalIfOpen DEF LowerAct, BlockStops
<1>3. CASE LowerReturn
  BY <1>3, LowerReturnType, FinalIfOpen DEF LowerReturn, BlockStops
<1>4. ASSUME NEW op \in {"break", "continue"}, LowerJump(op) PROVE Final
  BY <1>4, LowerJumpType, FinalIfOpen DEF LowerJump, BlockStops
<1>5. ASSUME NEW op \in Openers, SkipOpen(op) PROVE Final
  BY <1>5 DEF SkipOpen, Final
<1>6. ASSUME NEW yield \in CondYields,
             LowerIf(yield) \/ LowerIfElse(yield) \/ LowerWhile(yield) \/ LowerFor(yield)
      PROVE  Final
  BY <1>6, LowerIfType, LowerIfElseType, LowerWhileType, LowerForType, FinalIfOpen
<1>7. CASE SkipElse \/ LowerElse
  BY <1>7, LowerElseType DEF SkipElse, LowerElse, Final, Blocks
<1>8. CASE SkipEnd \/ EndIf \/ EndWhile \/ EndFor
  <2>1. CASE SkipEnd \/ EndIf \/ EndWhile
    BY <2>1, EndIfType, EndWhileType DEF SkipEnd, EndIf, EndWhile, Final, Blocks
  <2>2. CASE EndFor
    <3>1. /\ \A c \in 1..nblocks : Terminated(term, c) => term'[c] = term[c]
          /\ \A c \in 1..nblocks : c # Top.alt => code'[c] = code[c]
          /\ Top.alt \in 1..nblocks /\ stack # <<>> /\ nblocks \in Nat
      BY <2>2, EndForType DEF TypeOK
    <3>2. Len(stack) \in 1..Len(stack) /\ Top = stack[Len(stack)] /\ Top.alt \in Reserved(Top)
      BY <3>1, TopType DEF Reserved
    <3>3. ~Terminated(term, Top.alt)
      BY <3>2 DEF ReservedOpen
    <3>. QED  BY <3>1, <3>3 DEF Final, Blocks
  <2>. QED  BY <1>8, <2>1, <2>2
<1>9. CASE Finish
  BY <1>9, FinishType DEF Finish, Final, Blocks
<1>10. CASE RunNext
  BY <1>10, RunType DEF Final
<1>11. CASE UNCHANGED vars
  BY <1>11 DEF vars, Final
<1>. QED  BY <1>1, <1>2, <1>3, <1>4, <1>5, <1>6, <1>7, <1>8, <1>9, <1>10, <1>11
          DEF Next, LowerNext

\* No step of the lowering, nor of the run, adds an instruction behind a terminator
\* or replaces one, although ir_emit_load, ir_emit_store and ir_emit_call never look.
THEOREM TerminatorsAreFinal == Spec => TerminatorsFinal
<1>1. TypeOK /\ ReservedOpen /\ [Next]_vars => (TypeOK /\ ReservedOpen)'
  BY NextType, NextReserved
<1>2. TypeOK /\ ReservedOpen /\ [Next]_vars
        => [\A b \in Blocks : Terminated(term, b) =>
                code'[b] = code[b] /\ term'[b] = term[b]]_vars
  BY NextFinal DEF Final
<1>. QED  BY <1>1, <1>2, InitType, InitReserved, PTL DEF Spec, TerminatorsFinal
=============================================================================
