------------------------ MODULE ProcessCaptureProofs ------------------------
(***************************************************************************)
(* Proofs about ProcessCapture: for pipes and reads of any size, any       *)
(* number of background processes and any output.                          *)
(***************************************************************************)
EXTENDS ProcessCapture, SequenceTheorems, TLAPS

USE CaptureAssumption

(* Reading from the front of a pipe. *)

LEMMA ReadSplits ==
    ASSUME NEW s \in Streams, pipe[s] \in Seq(Bytes)
    PROVE  /\ Taken(s) \in Seq(Bytes) /\ Unread(s) \in Seq(Bytes)
           /\ Taken(s) \o Unread(s) = pipe[s]
           /\ Len(Unread(s)) <= Len(pipe[s])
<1>. DEFINE p == pipe[s]
            n == IF Len(p) < Chunk THEN Len(p) ELSE Chunk
<1>1. p \in Seq(Bytes) /\ Len(p) \in Nat /\ n \in 0..Len(p)
  BY DEF n
<1>2. Taken(s) = SubSeq(p, 1, n)
  BY DEF Taken
<1>. HIDE DEF n, p
<1>3. Taken(s) \in Seq(Bytes) /\ Len(Taken(s)) = n
  BY <1>1, <1>2
<1>4. Unread(s) = SubSeq(p, n + 1, Len(p))
  BY <1>3 DEF Unread, p
<1>5. Unread(s) \in Seq(Bytes) /\ Len(Unread(s)) = Len(p) - n
  BY <1>1, <1>4
<1>6. SubSeq(p, 1, n) \o SubSeq(p, n + 1, Len(p)) = SubSeq(p, 1, Len(p))
  <2>1. /\ 1 \in 1..(Len(p) + 1) /\ n \in (1 - 1)..Len(p) /\ Len(p) \in n..Len(p)
    BY <1>1
  <2>. QED  BY <1>1, <2>1, ConcatAdjacentSubSeq, Zenon
<1>7. SubSeq(p, 1, Len(p)) = p
  BY <1>1, SubSeqFull
<1>8. Taken(s) \o Unread(s) = p
  BY <1>2, <1>4, <1>6, <1>7, Zenon
<1>9. Len(Unread(s)) <= Len(p)
  BY <1>1, <1>5
<1>10. p = pipe[s]
  BY DEF p
<1>. QED  BY <1>3, <1>5, <1>8, <1>9, <1>10, Zenon

LEMMA PrefixOfConcat ==
    ASSUME NEW S, NEW g \in Seq(S), NEW x \in Seq(S)
    PROVE  IsPrefix(g, g \o x)
<1>1. Len(g) \in Nat /\ Len(x) \in Nat /\ Len(g \o x) = Len(g) + Len(x)
  OBVIOUS
<1>2. CASE Len(g) = 0
  BY <1>1, <1>2, SubSeqEmpty DEF IsPrefix
<1>3. CASE Len(g) # 0
  BY <1>1, <1>3, SubSeqOfConcat1 DEF IsPrefix
<1>. QED  BY <1>2, <1>3

-----------------------------------------------------------------------------
(* Type correctness. *)

LEMMA InitType == Init => TypeOK
<1>. SUFFICES ASSUME Init PROVE TypeOK
  OBVIOUS
<1>1. untold \in BOOLEAN /\ spoiled \in BOOLEAN
  BY Zenon DEF Init
<1>2. /\ pc \in {"start", "fork", "close", "select", "stdout", "stderr", "wait", "done"}
      /\ ready \in SUBSET Streams
      /\ status \in {<<>>, SigPipe} \cup Statuses
  BY DEF Init
<1>3. /\ Tables
      /\ life \in [Procs -> {"unborn", "running", "gone"}]
      /\ want \in [Procs -> {<<>>} \cup Streams \X Bytes]
      /\ \A s \in Streams : Len(pipe[s]) <= Capacity
      /\ \A s \in Streams : \A p \in writers[s] \ {Parent} : life[p] = "running"
  BY DEF Init, Tables, Procs, Streams
<1>. QED  BY <1>1, <1>2, <1>3, Zenon DEF TypeOK

LEMMA RuntimeType == TypeOK /\ Runtime => TypeOK'
<1>. SUFFICES ASSUME TypeOK, Runtime PROVE TypeOK'
  OBVIOUS
<1>. USE DEF TypeOK, Tables, parentVars, procVars, Return
<1>1. CASE EmptyCommand
  BY <1>1 DEF EmptyCommand
<1>2. CASE CreatePipes
  BY <1>2 DEF CreatePipes
<1>3. CASE PipeFails
  BY <1>3 DEF PipeFails
<1>4. CASE Fork
  BY <1>4 DEF Fork, Procs
<1>5. CASE ForkFails
  BY <1>5 DEF ForkFails
<1>6. CASE CloseWriteEnds
  BY <1>6 DEF CloseWriteEnds
<1>7. CASE Select \/ SelectFails \/ LoopEnds
  BY <1>7 DEF Select, SelectFails, LoopEnds, Selected
<1>8. ASSUME NEW s \in Streams, NotReady(s) \/ ReadAgain(s) PROVE TypeOK'
  BY <1>8 DEF NotReady, ReadAgain, After
<1>9. ASSUME NEW s \in Streams, Read(s) PROVE TypeOK'
  <2>1. /\ Taken(s) \in Seq(Bytes) /\ Unread(s) \in Seq(Bytes)
        /\ Len(Unread(s)) <= Len(pipe[s])
    BY ReadSplits
  <2>. QED  BY <1>9, <2>1 DEF Read, After
<1>10. ASSUME NEW s \in Streams, ReadEnd(s) \/ ReadFails(s) PROVE TypeOK'
  BY <1>10 DEF ReadEnd, ReadFails, After
<1>11. CASE Wait \/ WaitFails
  BY <1>11 DEF Wait, WaitFails
<1>. QED  BY <1>1, <1>2, <1>3, <1>4, <1>5, <1>6, <1>7, <1>8, <1>9, <1>10, <1>11 DEF Runtime, Proceeds, Fails, Loop

LEMMA EndsType ==
    ASSUME TypeOK, NEW p \in Procs, NEW st \in Statuses \cup {SigPipe}, Ends(p, st)
    PROVE  TypeOK'
BY DEF Ends, TypeOK, Tables, parentVars

LEMMA ProcessType ==
    ASSUME TypeOK, NEW p \in Procs, Process(p)
    PROVE  TypeOK'
<1>. USE DEF parentVars, procVars
<1>1. ASSUME NEW s \in Streams, NEW b \in Bytes, StartsWrite(p, s, b) PROVE TypeOK'
  BY <1>1 DEF StartsWrite, TypeOK, Tables
<1>2. CASE Write(p)
  <2>. DEFINE s == want[p][1]
              b == want[p][2]
  <2>1. s \in Streams /\ b \in Bytes
    BY <1>2 DEF Write, TypeOK
  <2>2. /\ Len(pipe[s]) < Capacity
        /\ pipe' = [pipe EXCEPT ![s] = Append(@, b)]
        /\ sent' = [sent EXCEPT ![s] = Append(@, b)]
    BY <1>2 DEF Write
  <2>. HIDE DEF s, b
  <2>. QED  BY <1>2, <2>1, <2>2 DEF Write, TypeOK, Tables
<1>3. ASSUME NEW s \in Streams, Closes(p, s) PROVE TypeOK'
  BY <1>3 DEF Closes, TypeOK, Tables
<1>4. ASSUME NEW q \in Background, Starts(p, q) PROVE TypeOK'
  BY <1>4 DEF Starts, TypeOK, Tables, Procs
<1>5. CASE Exits(p) \/ Killed(p) \/ BrokenPipe(p)
  BY <1>5, EndsType DEF Exits, Killed, BrokenPipe
<1>. QED  BY <1>1, <1>2, <1>3, <1>4, <1>5 DEF Process

LEMMA NextType == TypeOK /\ [Next]_vars => TypeOK'
<1>. SUFFICES ASSUME TypeOK, [Next]_vars PROVE TypeOK'
  OBVIOUS
<1>1. CASE UNCHANGED vars \/ Over
  BY <1>1 DEF Over, vars, TypeOK, Tables
<1>. QED  BY <1>1, RuntimeType, ProcessType DEF Next

\* A pipe never holds more than its capacity and only running processes hold its
\* write end, for any command.
THEOREM TypeCorrect == Spec => []TypeOK
<1>. QED  BY InitType, NextType, PTL DEF Spec

-----------------------------------------------------------------------------
(* The inductive invariant. *)

\* Before the fork nothing has happened.
NeverRan == \A p \in Procs : life[p] = "unborn"

Idle ==
    /\ NeverRan
    /\ \A s \in Streams : got[s] = <<>> /\ pipe[s] = <<>> /\ sent[s] = <<>>

\* A stream is only given up once it is read to its end and nobody can write to it.
Sealed == \A s \in Streams : ~open[s] => got[s] = sent[s] /\ writers[s] = {}

Steady ==
    /\ pc \in {"start", "fork"} => Idle /\ ready = {}
    /\ pc = "start" => \A s \in Streams : ~open[s] /\ writers[s] = {}
    /\ pc = "fork" => \A s \in Streams : open[s]
    /\ \A s \in ready : open[s]
    /\ \A p \in Procs : want[p] # <<>> => p \in writers[want[p][1]]
    /\ status = <<>> <=> life[Command] # "gone"
    /\ result = <<>> <=> pc # "done"
    /\ ~spoiled => Sealed
    /\ ~spoiled /\ pc = "wait" => \A s \in Streams : ~open[s]
    /\ untold => pc = "done"
    /\ ~spoiled /\ pc = "done" =>
          NeverRan \/ ((status # <<>> \/ untold) /\ \A s \in Streams : ~open[s])

CaptureInv == TypeOK /\ Conserved /\ Steady

-----------------------------------------------------------------------------
(* No byte is lost. *)

LEMMA ReadKeeps ==
    ASSUME NEW g \in Seq(Bytes), NEW x \in Seq(Bytes), NEW y \in Seq(Bytes)
    PROVE  (g \o x) \o y = g \o (x \o y)
BY ConcatAssociative

LEMMA WriteKeeps ==
    ASSUME NEW g \in Seq(Bytes), NEW x \in Seq(Bytes), NEW b \in Bytes
    PROVE  Append(g \o x, b) = g \o Append(x, b)
<1>1. g \o x \in Seq(Bytes) /\ <<b>> \in Seq(Bytes)
  OBVIOUS
<1>2. Append(g \o x, b) = (g \o x) \o <<b>> /\ Append(x, b) = x \o <<b>>
  BY <1>1, AppendIsConcat
<1>. QED  BY <1>1, <1>2, ReadKeeps

\* A step that moves no byte and opens no stream keeps the bytes; closing an end
\* with bytes in the pipe leaves a prefix.
LEMMA CloseKeeps ==
    ASSUME TypeOK, Conserved, UNCHANGED <<got, pipe, sent>>,
           \A s \in Streams : open'[s] => open[s]
    PROVE  Conserved'
<1>. SUFFICES ASSUME NEW s \in Streams
     PROVE  /\ open'[s] => sent[s] = got[s] \o pipe[s]
            /\ ~open'[s] => IsPrefix(got[s], sent[s])
  BY DEF Conserved
<1>1. CASE ~open[s]
  BY <1>1 DEF Conserved
<1>2. CASE open[s]
  <2>1. sent[s] = got[s] \o pipe[s]
    BY <1>2 DEF Conserved
  <2>2. got[s] \in Seq(Bytes) /\ pipe[s] \in Seq(Bytes)
    BY DEF TypeOK, Tables
  <2>3. IsPrefix(got[s], got[s] \o pipe[s])
    BY <2>2, PrefixOfConcat
  <2>. QED  BY <2>1, <2>3
<1>. QED  BY <1>1, <1>2

\* While nothing has been written there is nothing to lose.
LEMMA IdleKeeps ==
    ASSUME Idle, UNCHANGED <<got, pipe, sent>>
    PROVE  Conserved'
<1>. SUFFICES ASSUME NEW s \in Streams
     PROVE  sent[s] = got[s] \o pipe[s] /\ IsPrefix(got[s], sent[s])
  BY DEF Conserved
<1>1. got[s] = <<>> /\ pipe[s] = <<>> /\ sent[s] = <<>>
  BY DEF Idle
<1>2. <<>> \in Seq(Bytes) /\ <<>> \o <<>> = <<>>
  OBVIOUS
<1>3. IsPrefix(<<>>, <<>> \o <<>>)
  BY <1>2, PrefixOfConcat
<1>. QED  BY <1>1, <1>2, <1>3

LEMMA InitConserved == Init => Conserved
<1>. SUFFICES ASSUME Init, NEW s \in Streams
     PROVE  sent[s] = got[s] \o pipe[s] /\ IsPrefix(got[s], sent[s])
  BY DEF Conserved
<1>1. got[s] = <<>> /\ pipe[s] = <<>> /\ sent[s] = <<>>
  BY DEF Init
<1>2. <<>> \in Seq(Bytes) /\ <<>> \o <<>> = <<>>
  OBVIOUS
<1>3. IsPrefix(<<>>, <<>> \o <<>>)
  BY <1>2, PrefixOfConcat
<1>. QED  BY <1>1, <1>2, <1>3

LEMMA RuntimeConserved == CaptureInv /\ Runtime => Conserved'
<1>. SUFFICES ASSUME CaptureInv, Runtime PROVE Conserved'
  OBVIOUS
<1>. USE DEF CaptureInv
<1>1. CASE EmptyCommand \/ CreatePipes \/ PipeFails \/ Fork \/ ForkFails
  <2>1. Idle /\ UNCHANGED <<got, pipe, sent>>
    BY <1>1 DEF EmptyCommand, CreatePipes, PipeFails, Fork, ForkFails, Steady, procVars
  <2>. QED  BY <2>1, IdleKeeps
<1>2. CASE CloseWriteEnds \/ Select \/ SelectFails \/ LoopEnds \/ Wait \/ WaitFails
  <2>1. UNCHANGED <<got, pipe, sent, open>>
    BY <1>2 DEF CloseWriteEnds, Select, SelectFails, LoopEnds, Wait, WaitFails, procVars
  <2>. QED  BY <2>1, CloseKeeps
<1>3. ASSUME NEW s \in Streams, NotReady(s) \/ ReadEnd(s) \/ ReadAgain(s) \/ ReadFails(s)
      PROVE  Conserved'
  <2>1. UNCHANGED <<got, pipe, sent>> /\ \A u \in Streams : open'[u] => open[u]
    BY <1>3 DEF NotReady, ReadEnd, ReadAgain, ReadFails, procVars, TypeOK, Tables
  <2>. QED  BY <2>1, CloseKeeps
<1>4. ASSUME NEW s \in Streams, Read(s) PROVE Conserved'
  <2>1. /\ Taken(s) \in Seq(Bytes) /\ Unread(s) \in Seq(Bytes)
        /\ Taken(s) \o Unread(s) = pipe[s]
    BY ReadSplits DEF TypeOK, Tables
  <2>2. open[s] /\ got[s] \in Seq(Bytes) /\ sent[s] = got[s] \o pipe[s]
    BY <1>4 DEF Read, Steady, Conserved, TypeOK, Tables
  <2>3. sent[s] = (got[s] \o Taken(s)) \o Unread(s)
    <3>1. /\ got[s] \in Seq(Bytes)
          /\ Taken(s) \in Seq(Bytes) /\ Unread(s) \in Seq(Bytes)
      BY <2>1, <2>2
    <3>2. (got[s] \o Taken(s)) \o Unread(s) = got[s] \o (Taken(s) \o Unread(s))
      BY <3>1, ReadKeeps, Zenon
    <3>. QED  BY <2>1, <2>2, <3>2, Zenon
  <2>4. /\ got'[s] = got[s] \o Taken(s) /\ pipe'[s] = Unread(s)
        /\ \A u \in Streams \ {s} : got'[u] = got[u] /\ pipe'[u] = pipe[u]
        /\ UNCHANGED <<open, sent>>
    BY <1>4 DEF Read, TypeOK, Tables, procVars
  <2>. QED  BY <2>2, <2>3, <2>4 DEF Conserved
<1>. QED  BY <1>1, <1>2, <1>3, <1>4 DEF Runtime, Proceeds, Fails, Loop

LEMMA ProcessConserved ==
    ASSUME CaptureInv, NEW p \in Procs, Process(p)
    PROVE  Conserved'
<1>. USE DEF CaptureInv
<1>1. CASE Write(p)
  <2>. DEFINE s == want[p][1]
              b == want[p][2]
  <2>1. s \in Streams /\ b \in Bytes
    BY <1>1 DEF Write, TypeOK
  <2>2. /\ open[s] /\ UNCHANGED <<open, got>>
        /\ pipe' = [pipe EXCEPT ![s] = Append(@, b)]
        /\ sent' = [sent EXCEPT ![s] = Append(@, b)]
    BY <1>1 DEF Write, parentVars
  <2>. HIDE DEF s, b
  <2>3. /\ got[s] \in Seq(Bytes) /\ pipe[s] \in Seq(Bytes)
        /\ sent[s] = got[s] \o pipe[s]
    BY <2>1, <2>2 DEF Conserved, TypeOK, Tables
  <2>4. Append(sent[s], b) = got[s] \o Append(pipe[s], b)
    <3>1. got[s] \in Seq(Bytes) /\ pipe[s] \in Seq(Bytes) /\ b \in Bytes
      BY <2>1, <2>3
    <3>2. Append(got[s] \o pipe[s], b) = got[s] \o Append(pipe[s], b)
      BY <3>1, WriteKeeps, Zenon
    <3>. QED  BY <2>3, <3>2, Zenon
  <2>5. /\ sent'[s] = Append(sent[s], b) /\ pipe'[s] = Append(pipe[s], b)
        /\ \A u \in Streams \ {s} : sent'[u] = sent[u] /\ pipe'[u] = pipe[u]
    BY <2>1, <2>2 DEF TypeOK, Tables
  <2>. QED  BY <2>2, <2>4, <2>5 DEF Conserved
<1>2. CASE ~Write(p)
  <2>1. UNCHANGED <<got, pipe, sent, open>>
    BY <1>2 DEF Process, StartsWrite, Closes, Starts, Exits, Killed, BrokenPipe, Ends,
                parentVars, procVars
  <2>. QED  BY <2>1, CloseKeeps
<1>. QED  BY <1>1, <1>2

-----------------------------------------------------------------------------
(* The phases of the call. *)

LEMMA InitSteady == Init => Steady
BY DEF Init, Steady, Idle, NeverRan, Sealed, Streams, Procs

\* What is left of a stream at its end: nothing, so it was read as written.
LEMMA EndIsComplete ==
    ASSUME TypeOK, Conserved, NEW s \in Streams, open[s], pipe[s] = <<>>
    PROVE  got[s] = sent[s]
<1>1. got[s] \in Seq(Bytes) /\ sent[s] = got[s] \o <<>>
  BY DEF TypeOK, Tables, Conserved
<1>. QED  BY <1>1

LEMMA RuntimeSteady == CaptureInv /\ Runtime => Steady'
<1>. SUFFICES ASSUME CaptureInv, Runtime PROVE Steady'
  OBVIOUS
<1>. USE DEF CaptureInv, Return, procVars, Idle, NeverRan, Sealed
<1>1. CASE EmptyCommand
  BY <1>1 DEF EmptyCommand, Steady, TypeOK, Tables, Service!Failed
<1>2. CASE CreatePipes
  BY <1>2 DEF CreatePipes, Steady, TypeOK, Tables
<1>3. CASE PipeFails
  <2>1. PICK made \in {{}, {"stdout"}} :
           /\ writers' = [s \in Streams |-> IF s \in made THEN {Parent} ELSE {}]
           /\ open' = [s \in Streams |-> s \in made]
    BY <1>3 DEF PipeFails
  <2>2. /\ pc = "start" /\ pc' = "done" /\ result' = Service!Failed
        /\ UNCHANGED <<ready, got, pipe, life, want, sent, status, untold, spoiled>>
    BY <1>3 DEF PipeFails
  <2>3. result' # <<>>
    BY <2>2 DEF Service!Failed
  <2>4. /\ NeverRan' /\ ready' = {}
        /\ \A s \in Streams : got[s] = sent[s]
    BY <2>2 DEF Steady
  <2>5. \A s \in Streams : ~open'[s] => writers'[s] = {}
    BY <2>1
  <2>6. \A q \in Procs : want[q] = <<>>
    BY <2>2 DEF Steady, TypeOK, Tables
  <2>. QED  BY <2>2, <2>3, <2>4, <2>5, <2>6 DEF Steady
<1>4. CASE Fork
  BY <1>4 DEF Fork, Steady, TypeOK, Tables, Procs
<1>5. CASE ForkFails
  BY <1>5 DEF ForkFails, Steady, TypeOK, Tables, Service!Failed
<1>6. CASE CloseWriteEnds
  BY <1>6 DEF CloseWriteEnds, Steady, TypeOK, Tables, Procs
<1>7. CASE Select \/ SelectFails \/ LoopEnds
  BY <1>7 DEF Select, SelectFails, LoopEnds, Selected, Steady, TypeOK, Tables
<1>8. ASSUME NEW s \in Streams, NotReady(s) \/ ReadAgain(s) PROVE Steady'
  <2>1. /\ pc \notin {"start", "fork", "done"} /\ pc' \in {"stderr", "select"}
        /\ ready' \subseteq ready
        /\ UNCHANGED <<open, got, pipe, writers, life, want, sent, status, untold, result, spoiled>>
    BY <1>8 DEF NotReady, ReadAgain, After, Streams
  <2>. QED  BY <2>1 DEF Steady
<1>9. ASSUME NEW s \in Streams, Read(s) PROVE Steady'
  BY <1>9 DEF Read, After, Steady, TypeOK, Tables, Streams
<1>10. ASSUME NEW s \in Streams, ReadEnd(s) PROVE Steady'
  <2>1. got[s] = sent[s]
    BY <1>10, EndIsComplete DEF ReadEnd, Steady
  <2>. QED  BY <1>10, <2>1 DEF ReadEnd, After, Steady, TypeOK, Tables, Streams
<1>11. ASSUME NEW s \in Streams, ReadFails(s) PROVE Steady'
  BY <1>11 DEF ReadFails, After, Steady, TypeOK, Tables, Streams
<1>12. CASE Wait \/ WaitFails
  <2>1. /\ pc = "wait" /\ pc' = "done" /\ result' # <<>>
        /\ status # <<>> \/ untold'
        /\ UNCHANGED <<ready, open, got, pipe, writers, life, want, sent, status, spoiled>>
    BY <1>12 DEF Wait, WaitFails, Service!Captured
  <2>. QED  BY <2>1 DEF Steady
<1>. QED
  BY <1>1, <1>2, <1>3, <1>4, <1>5, <1>6, <1>7, <1>8, <1>9, <1>10, <1>11, <1>12
     DEF Runtime, Proceeds, Fails, Loop

LEMMA EndsSteady ==
    ASSUME CaptureInv, NEW p \in Procs, life[p] = "running",
           NEW st \in Statuses \cup {SigPipe}, Ends(p, st)
    PROVE  Steady'
<1>1. st # <<>>
  <2>1. st \in [kind : {"exited", "signaled"}, n : Nat]
    BY DEF SigPipe
  <2>2. DOMAIN st = {"kind", "n"} /\ DOMAIN <<>> = {}
    BY <2>1
  <2>. QED  BY <2>2
<1>2. pc \notin {"start", "fork"}
  BY DEF CaptureInv, Steady, Idle, NeverRan
<1>. QED
  BY <1>1, <1>2 DEF CaptureInv, Ends, Steady, TypeOK, Tables, parentVars, NeverRan, Sealed, Procs

LEMMA ProcessSteady ==
    ASSUME CaptureInv, NEW p \in Procs, Process(p)
    PROVE  Steady'
<1>. USE DEF CaptureInv, parentVars, procVars, Idle, NeverRan, Sealed
<1>0. pc \notin {"start", "fork"}
  BY DEF Steady, Process, StartsWrite, Write, Closes, Starts, Exits, Killed, BrokenPipe
<1>1. ASSUME NEW s \in Streams, NEW b \in Bytes, StartsWrite(p, s, b) PROVE Steady'
  BY <1>0, <1>1 DEF StartsWrite, Steady, TypeOK, Tables
<1>2. CASE Write(p)
  <2>. DEFINE s == want[p][1]
              b == want[p][2]
  <2>1. s \in Streams /\ b \in Bytes
    BY <1>2 DEF Write, TypeOK
  <2>2. open[s] /\ sent' = [sent EXCEPT ![s] = Append(@, b)]
    BY <1>2 DEF Write
  <2>. HIDE DEF s, b
  <2>. QED  BY <1>0, <1>2, <2>1, <2>2 DEF Write, Steady, TypeOK, Tables
<1>3. ASSUME NEW s \in Streams, Closes(p, s) PROVE Steady'
  BY <1>0, <1>3 DEF Closes, Steady, TypeOK, Tables
<1>4. ASSUME NEW q \in Background, Starts(p, q) PROVE Steady'
  BY <1>0, <1>4 DEF Starts, Steady, TypeOK, Tables, Procs
<1>5. CASE Exits(p) \/ Killed(p) \/ BrokenPipe(p)
  BY <1>5, EndsSteady DEF Exits, Killed, BrokenPipe
<1>. QED  BY <1>1, <1>2, <1>3, <1>4, <1>5 DEF Process

LEMMA InitInv == Init => CaptureInv
BY InitType, InitConserved, InitSteady DEF CaptureInv

LEMMA NextInv == CaptureInv /\ [Next]_vars => CaptureInv'
<1>. SUFFICES ASSUME CaptureInv, [Next]_vars PROVE CaptureInv'
  OBVIOUS
<1>1. TypeOK'
  BY NextType DEF CaptureInv
<1>2. CASE UNCHANGED vars \/ Over
  <2>1. UNCHANGED vars
    BY <1>2 DEF Over
  <2>2. Conserved'
    BY <2>1, CloseKeeps DEF vars, CaptureInv
  <2>3. Steady'
    BY <2>1 DEF vars, CaptureInv, Steady, Idle, NeverRan, Sealed
  <2>. QED  BY <1>1, <2>2, <2>3 DEF CaptureInv
<1>3. CASE Runtime \/ \E p \in Procs : Process(p)
  BY <1>1, <1>3, RuntimeConserved, RuntimeSteady, ProcessConserved, ProcessSteady DEF CaptureInv
<1>. QED  BY <1>2, <1>3 DEF Next

LEMMA Invariance == Spec => []CaptureInv
<1>. QED  BY InitInv, NextInv, PTL DEF Spec

\* Every byte written to a stream being captured is in the builder or in the pipe,
\* in order, whatever fails; a stream given up holds a prefix of what was written.
THEOREM NoByteIsLost == Spec => []Conserved
<1>1. CaptureInv => Conserved
  BY DEF CaptureInv
<1>. QED  BY <1>1, Invariance, PTL

\* Unless an error of select or read gave a stream up, the call waits for the command only when it
\* has all of its output and nobody can write any more.
THEOREM CapturesAll == Spec => []Complete
<1>1. CaptureInv => Complete
  BY DEF CaptureInv, Steady, Sealed, Complete
<1>. QED  BY <1>1, Invariance, PTL

-----------------------------------------------------------------------------
(* ProcessCapture implements CaptureService. *)

LEMMA ServiceInits == Init => Service!ServiceInit
BY DEF Init, Service!ServiceInit

\* The steps that fail before the command runs.
LEMMA FailImplements ==
    ASSUME CaptureInv, pc \in {"start", "fork"}, result' = Service!Failed,
           UNCHANGED <<sent, status, untold>>
    PROVE  Service!Fail
<1>1. result = <<>> /\ status = <<>> /\ \A s \in Streams : sent[s] = <<>>
  BY DEF CaptureInv, Steady, Idle, NeverRan, Procs
<1>2. sent = [s \in Streams |-> <<>>]
  BY <1>1 DEF CaptureInv, TypeOK, Tables
<1>. QED  BY <1>1, <1>2 DEF Service!Fail

LEMMA RuntimeImplements ==
    ASSUME CaptureInv, Runtime, ~spoiled'
    PROVE  [Service!ServiceNext]_(Service!serviceVars)
<1>. USE DEF Return, procVars
<1>1. CASE EmptyCommand \/ PipeFails \/ ForkFails
  <2>1. Service!Fail
    BY <1>1, FailImplements DEF EmptyCommand, PipeFails, ForkFails
  <2>. QED  BY <2>1 DEF Service!ServiceNext
<1>2. CASE CreatePipes \/ Fork \/ CloseWriteEnds \/ Loop
  BY <1>2 DEF CreatePipes, Fork, CloseWriteEnds, Loop, Select, LoopEnds,
              NotReady, Read, ReadEnd, ReadAgain, Service!serviceVars
<1>3. CASE Wait \/ WaitFails
  <2>1. ~spoiled
    BY <1>3 DEF Wait, WaitFails
  <2>2. \A s \in Streams : got[s] = sent[s]
    BY <1>3, <2>1 DEF Wait, WaitFails, CaptureInv, Steady, Sealed
  <2>3. got = sent
    BY <2>2 DEF CaptureInv, TypeOK, Tables
  <2>4. result = <<>>
    BY <1>3 DEF Wait, WaitFails, CaptureInv, Steady
  <2>5. Service!Return \/ Service!ReturnUntold
    BY <1>3, <2>3, <2>4 DEF Wait, WaitFails, Service!Return, Service!ReturnUntold
  <2>. QED  BY <2>5 DEF Service!ServiceNext
<1>4. ~SelectFails /\ \A s \in Streams : ~ReadFails(s)
  BY DEF SelectFails, ReadFails
<1>. QED  BY <1>1, <1>2, <1>3, <1>4 DEF Runtime, Proceeds, Fails

LEMMA ProcessImplements ==
    ASSUME CaptureInv, NEW p \in Procs, Process(p), ~spoiled'
    PROVE  [Service!ServiceNext]_(Service!serviceVars)
<1>. USE DEF parentVars, procVars
<1>0. life[p] = "running" /\ ~spoiled
  BY DEF Process, StartsWrite, Write, Closes, Starts, Exits, Killed, BrokenPipe, Ends
<1>1. CASE Write(p)
  <2>. DEFINE s == want[p][1]
              b == want[p][2]
  <2>1. s \in Streams /\ b \in Bytes
    BY <1>1 DEF Write, CaptureInv, TypeOK
  <2>2. /\ open[s] /\ sent' = [sent EXCEPT ![s] = Append(@, b)]
        /\ UNCHANGED <<status, untold, result>>
    BY <1>1 DEF Write
  <2>. HIDE DEF s, b
  <2>3. result = <<>>
    BY <1>0, <2>1, <2>2 DEF CaptureInv, Steady, NeverRan
  <2>4. Service!Emit(s, b)
    BY <2>2, <2>3 DEF Service!Emit
  <2>. QED  BY <2>1, <2>4 DEF Service!ServiceNext
<1>2. ASSUME NEW st \in Statuses, Ends(p, st) PROVE [Service!ServiceNext]_(Service!serviceVars)
  <2>1. CASE p = Command
    <3>1. status = <<>> /\ (result = <<>> \/ untold)
      BY <1>0, <2>1 DEF CaptureInv, Steady, NeverRan
    <3>2. Service!End(st)
      BY <1>2, <2>1, <3>1 DEF Ends, Service!End
    <3>. QED  BY <3>2 DEF Service!ServiceNext
  <2>2. CASE p # Command
    BY <1>2, <2>2 DEF Ends, Service!serviceVars
  <2>. QED  BY <2>1, <2>2
<1>3. ~BrokenPipe(p)
  BY <1>0 DEF BrokenPipe, CaptureInv, Steady, Sealed, TypeOK
<1>4. CASE \/ \E s \in Streams, b \in Bytes : StartsWrite(p, s, b)
           \/ \E s \in Streams : Closes(p, s)
           \/ \E q \in Background : Starts(p, q)
  BY <1>4 DEF StartsWrite, Closes, Starts, Service!serviceVars
<1>5. CASE Exits(p) \/ Killed(p)
  BY <1>2, <1>5 DEF Exits, Killed
<1>. QED  BY <1>1, <1>3, <1>4, <1>5 DEF Process

LEMMA NextImplements ==
    ASSUME CaptureInv, [Next]_vars
    PROVE  [spoiled' \/ Service!ServiceNext]_(Service!serviceVars)
<1>1. CASE UNCHANGED vars \/ Over
  BY <1>1 DEF Over, vars, Service!serviceVars
<1>2. CASE spoiled'
  BY <1>2
<1>. QED  BY <1>1, <1>2, RuntimeImplements, ProcessImplements DEF Next

\* Until select or read fails the capture is the atomic one of CaptureService: whatever the command
\* does concurrently, the result is the whole of both outputs, each cut at its first NUL, with the
\* command's own exit code; or with the code 0 if the wait for the command failed.
THEOREM ImplementsService == Spec => ServiceSafety
<1>1. CaptureInv /\ [Next]_vars => [spoiled' \/ Service!ServiceNext]_(Service!serviceVars)
  BY NextImplements
<1>. QED  BY <1>1, ServiceInits, Invariance, PTL DEF Spec, ServiceSafety
=============================================================================
