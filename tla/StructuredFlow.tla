--------------------------- MODULE StructuredFlow ---------------------------
(***************************************************************************)
(* What the control statements of an ADAN function body mean, read off the *)
(* grammar the parser accepts: an abstract interpreter of structured       *)
(* source.  It is the promise that lowering to basic blocks has to keep;   *)
(* Lowering.tla refines it.                                                *)
(*                                                                         *)
(* A body is the sequence of its statement tokens.  "ifelse" opens an if   *)
(* that has an else branch, "if" one that has none; "end" closes the       *)
(* innermost open block.  Data is abstracted away: "act" is any statement  *)
(* without control flow, and a condition may come out either way.          *)
(***************************************************************************)
EXTENDS Integers, Sequences, FiniteSets

VARIABLES prog,   \* the tokens parsed so far
          at      \* the event about to happen, or Parsing

flowVars == <<prog, at>>

Loops   == {"while", "for"}
Openers == {"if", "ifelse"} \cup Loops
Simple  == {"act", "break", "continue", "return"}
Ops     == Openers \cup Simple \cup {"else", "end"}

\* An event is the source position it comes from and what happens there.
EventKinds == {"act", "init", "cond", "inc", "ret", "exit", "parse", "repair"}
Event      == Nat \X EventKinds

Parsing == <<0, "parse">>
Exit    == <<0, "exit">>

-----------------------------------------------------------------------------
(* The block structure of a body. *)

\* Blocks opened minus blocks closed by the tokens i..j.
Balance(p, i, j) ==
    Cardinality({k \in i..j : p[k] \in Openers}) - Cardinality({k \in i..j : p[k] = "end"})

\* The "end" that closes the block whose first statement is at i + 1.
Closing(p, i) ==
    CHOOSE j \in (i + 1)..Len(p) :
        /\ Balance(p, i + 1, j) = -1
        /\ \A k \in (i + 1)..(j - 1) : Balance(p, i + 1, k) > -1

\* The statements still open after position i, innermost last.
OpenAt(p, i) ==
    {k \in 1..i : p[k] \in Openers /\ \A j \in k..i : Balance(p, k, j) > 0}

Innermost(S) == CHOOSE k \in S : \A j \in S : j <= k

LoopsAt(p, i) == {k \in OpenAt(p, i) : p[k] \in Loops}

\* The "else" of the if statement opened at i.
ElseOf(p, i) ==
    CHOOSE j \in (i + 1)..Closing(p, i) : p[j] = "else" /\ Balance(p, i + 1, j) = 0

HasElse(p, i) ==
    \E j \in (i + 1)..Len(p) :
        /\ p[j] = "else"
        /\ \A k \in (i + 1)..j : Balance(p, i + 1, k) >= 0
        /\ Balance(p, i + 1, j) = 0

-----------------------------------------------------------------------------
(* Where control goes. *)

\* Where one iteration of the loop opened at i continues.
NextIteration(p, i) == IF p[i] = "for" THEN <<i, "inc">> ELSE <<i, "cond">>

\* What happens first when control reaches position i, if s[j] does from j on.
Reaches(p, s, i) ==
    IF i = Len(p) + 1 THEN Exit ELSE
    CASE p[i] = "act"         -> <<i, "act">>
      [] p[i] = "return"      -> <<i, "ret">>
      [] p[i] = "for"         -> <<i, "init">>
      [] p[i] \in {"if", "ifelse", "while"} -> <<i, "cond">>
      [] p[i] = "else"        -> s[Closing(p, i) + 1]
      [] p[i] = "break"       -> s[Closing(p, Innermost(LoopsAt(p, i))) + 1]
      [] p[i] = "continue"    -> NextIteration(p, Innermost(LoopsAt(p, i)))
      [] p[i] = "end"         ->
            LET k == Innermost(OpenAt(p, i - 1)) IN
            IF p[k] \in Loops THEN NextIteration(p, k) ELSE s[i + 1]

\* The first event that happens when control reaches position i.
Settle(p) ==
    LET s[i \in 1..(Len(p) + 1)] == Reaches(p, s, i)
    IN  s

\* The events that may follow event e.
Successors(p, e) ==
    LET i == e[1]
        s == Settle(p)
    IN  CASE e[2] = "act"            -> {s[i + 1]}
          [] e[2] \in {"init", "inc"} -> {<<i, "cond">>}
          [] e[2] = "cond" /\ p[i] = "ifelse" -> {s[i + 1], s[ElseOf(p, i) + 1]}
          [] e[2] = "cond" /\ p[i] # "ifelse" -> {s[i + 1], s[Closing(p, i) + 1]}
          [] OTHER                   -> {}

-----------------------------------------------------------------------------

FlowInit == prog = <<>> /\ at = Parsing

\* The parser and the validator admit token op after prog.
Admits(p, op) ==
    LET open == OpenAt(p, Len(p)) IN
    CASE op \in {"break", "continue"} -> LoopsAt(p, Len(p)) # {}
      [] op = "else" -> /\ open # {}
                        /\ p[Innermost(open)] = "ifelse"
                        /\ ~HasElse(p, Innermost(open))
      [] op = "end"  -> /\ open # {}
                        /\ p[Innermost(open)] = "ifelse" => HasElse(p, Innermost(open))
      [] OTHER       -> op \in Ops

FlowParse(op) ==
    /\ at = Parsing
    /\ Admits(prog, op)
    /\ prog' = Append(prog, op)
    /\ UNCHANGED at

FlowStart ==
    /\ at = Parsing
    /\ OpenAt(prog, Len(prog)) = {}
    /\ at' = Settle(prog)[1]
    /\ UNCHANGED prog

FlowStep ==
    /\ at # Parsing
    /\ at' \in Successors(prog, at)
    /\ UNCHANGED prog

FlowNext == (\E op \in Ops : FlowParse(op)) \/ FlowStart \/ FlowStep

FlowSpec == FlowInit /\ [][FlowNext]_flowVars
=============================================================================
