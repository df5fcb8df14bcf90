--------------------------- MODULE ProcessCapture ---------------------------
(***************************************************************************)
(* adn_process_run_capture and adn_process_run_capture_args                *)
(* (libs/process/process.c): the runtime forks the command, reads its two  *)
(* output pipes through select until both reach end of file, and then      *)
(* waits for the command.  The command, and the processes it leaves in the *)
(* background with its output still open, run concurrently with the loop.  *)
(*                                                                         *)
(* A pipe is a bounded sequence of bytes; a process that writes to a full  *)
(* pipe blocks, and a pipe is at end of file once nobody holds its write   *)
(* end.                                                                    *)
(***************************************************************************)
EXTENDS Integers, Sequences, FiniteSets, SequencesExt

CONSTANTS
    Bytes, Nul,     \* what is written; Nul ends a C string
    Background,     \* processes the command may leave behind
    Capacity,       \* bytes a pipe holds
    Chunk,          \* bytes one read asks for: sizeof(buffer)
    MaxOut,         \* bound on the bytes written to one stream
    Statuses,       \* the wait statuses a command may end with
    Errors          \* which calls of the runtime may fail

Command == "command"
Procs   == {Command} \cup Background
Parent  == "parent"
Streams == {"stdout", "stderr"}

\* The write to a pipe that nobody reads.
SigPipe == [kind |-> "signaled", n |-> 13]

ASSUME CaptureAssumption ==
    /\ Command \notin Background /\ Parent \notin Procs
    /\ Capacity \in Nat \ {0} /\ Chunk \in Nat \ {0} /\ MaxOut \in Nat
    /\ Statuses \subseteq [kind : {"exited", "signaled"}, n : Nat]
    /\ Errors \subseteq {"pipe", "fork", "select", "read", "waitpid"}

VARIABLES
    pc,        \* where the runtime is
    ready,     \* the streams select reported readable, and not read yet
    open,      \* open[s]: the runtime's read end, stdout_open and stderr_open
    got,       \* got[s]: out_builder and err_builder
    pipe,      \* pipe[s]: the bytes in the pipe
    writers,   \* writers[s]: the processes that hold its write end
    life,      \* life[p]: "unborn", "running" or "gone"
    want,      \* want[p]: the write p is blocked in, or <<>>
    sent,      \* sent[s]: every byte written to s
    status,    \* the wait status of the command, or <<>>
    untold,    \* waitpid failed: the runtime does not know how the command ended
    result,    \* what the call returned, or <<>>
    spoiled    \* an error of select or read made the runtime give a stream up

parentVars == <<pc, ready, open, got, untold, result, spoiled>>
procVars   == <<life, want, sent, status>>
vars == <<pc, ready, open, got, pipe, writers, life, want, sent, status, untold, result, spoiled>>

Service == INSTANCE CaptureService

-----------------------------------------------------------------------------
(* The runtime. *)

Return(r) ==
    /\ pc' = "done"
    /\ result' = r

\* An empty command is refused before anything is opened.
EmptyCommand ==
    /\ pc = "start"
    /\ Return(Service!Failed)
    /\ UNCHANGED <<ready, open, got, pipe, writers, spoiled, procVars, untold>>

CreatePipes ==
    /\ pc = "start"
    /\ pc' = "fork"
    /\ writers' = [s \in Streams |-> {Parent}]
    /\ open' = [s \in Streams |-> TRUE]
    /\ UNCHANGED <<ready, got, pipe, result, spoiled, procVars, untold>>

\* When the second pipe call fails, the ends of the first stay open.
PipeFails ==
    /\ pc = "start" /\ "pipe" \in Errors
    /\ \E made \in {{}, {"stdout"}} :
          /\ writers' = [s \in Streams |-> IF s \in made THEN {Parent} ELSE {}]
          /\ open' = [s \in Streams |-> s \in made]
    /\ Return(Service!Failed)
    /\ UNCHANGED <<ready, got, pipe, spoiled, procVars, untold>>

\* Mutant: a fork that failed is taken for one that succeeded.
MutFork ==
    /\ pc = "fork"
    /\ pc' = "close"
    /\ writers' = [s \in Streams |-> writers[s] \cup {Command}]
    /\ UNCHANGED <<ready, open, got, pipe, result, spoiled, procVars, untold>>

Fork ==
    /\ pc = "fork"
    /\ pc' = "close"
    /\ life' = [life EXCEPT ![Command] = "running"]
    /\ writers' = [s \in Streams |-> writers[s] \cup {Command}]
    /\ UNCHANGED <<ready, open, got, pipe, want, sent, status, untold, result, spoiled>>

ForkFails ==
    /\ pc = "fork" /\ "fork" \in Errors
    /\ writers' = [s \in Streams |-> {}]
    /\ open' = [s \in Streams |-> FALSE]
    /\ Return(Service!Failed)
    /\ UNCHANGED <<ready, got, pipe, spoiled, procVars, untold>>

CloseWriteEnds ==
    /\ pc = "close"
    /\ pc' = "select"
    /\ writers' = [s \in Streams |-> writers[s] \ {Parent}]
    /\ UNCHANGED <<ready, open, got, pipe, result, spoiled, procVars, untold>>

\* Mutant: stderr is not looked at before stdout has reached its end.
MutSelected == IF open["stdout"] THEN {"stdout"} ELSE {"stderr"}

\* The streams handed to select.
Selected == {s \in Streams : open[s]}

\* A read of s would not block: there is a byte, or the end of the file.
Readable(s) == pipe[s] # <<>> \/ writers[s] = {}

Select ==
    /\ pc = "select" /\ \E s \in Streams : open[s]
    /\ ready' = {s \in Selected : Readable(s)}
    /\ ready' # {}
    /\ pc' = "stdout"
    /\ UNCHANGED <<open, got, pipe, writers, result, spoiled, procVars, untold>>

\* Any other error than EINTR leaves the loop, with the read ends open.
SelectFails ==
    /\ pc = "select" /\ "select" \in Errors /\ \E s \in Streams : open[s]
    /\ pc' = "wait"
    /\ spoiled' = TRUE
    /\ UNCHANGED <<ready, open, got, pipe, writers, result, procVars, untold>>

\* The loop has read both streams to their end.
LoopEnds ==
    /\ pc = "select" /\ \A s \in Streams : ~open[s]
    /\ pc' = "wait"
    /\ UNCHANGED <<ready, open, got, pipe, writers, result, spoiled, procVars, untold>>

\* stdout is served first, then stderr.
After(s) == IF s = "stdout" THEN "stderr" ELSE "select"

NotReady(s) ==
    /\ pc = s /\ s \notin ready
    /\ pc' = After(s)
    /\ UNCHANGED <<ready, open, got, pipe, writers, result, spoiled, procVars, untold>>

Taken(s)  == SubSeq(pipe[s], 1, IF Len(pipe[s]) < Chunk THEN Len(pipe[s]) ELSE Chunk)
Unread(s) == SubSeq(pipe[s], Len(Taken(s)) + 1, Len(pipe[s]))

\* Mutant: each read starts the builder again.
MutRead(s) ==
    /\ pc = s /\ s \in ready
    /\ pipe[s] # <<>>
    /\ got' = [got EXCEPT ![s] = Taken(s)]
    /\ pipe' = [pipe EXCEPT ![s] = Unread(s)]
    /\ ready' = ready \ {s}
    /\ pc' = After(s)
    /\ UNCHANGED <<open, writers, result, spoiled, procVars, untold>>

Read(s) ==
    /\ pc = s /\ s \in ready
    /\ pipe[s] # <<>>
    /\ got' = [got EXCEPT ![s] = @ \o Taken(s)]
    /\ pipe' = [pipe EXCEPT ![s] = Unread(s)]
    /\ ready' = ready \ {s}
    /\ pc' = After(s)
    /\ UNCHANGED <<open, writers, result, spoiled, procVars, untold>>

\* read returns 0.
ReadEnd(s) ==
    /\ pc = s /\ s \in ready
    /\ pipe[s] = <<>> /\ writers[s] = {}
    /\ open' = [open EXCEPT ![s] = FALSE]
    /\ ready' = ready \ {s}
    /\ pc' = After(s)
    /\ UNCHANGED <<got, pipe, writers, result, spoiled, procVars, untold>>

\* Mutant: EAGAIN is handled as the other errors are.
MutReadAgain(s) ==
    /\ pc = s /\ s \in ready
    /\ open' = [open EXCEPT ![s] = FALSE]
    /\ ready' = ready \ {s}
    /\ pc' = After(s)
    /\ UNCHANGED <<got, pipe, writers, result, spoiled, procVars, untold>>

\* EAGAIN or EINTR: nothing was read, the loop comes back to it.
ReadAgain(s) ==
    /\ pc = s /\ s \in ready
    /\ ready' = ready \ {s}
    /\ pc' = After(s)
    /\ UNCHANGED <<open, got, pipe, writers, result, spoiled, procVars, untold>>

\* Any other error closes the read end, whatever is left to read.
ReadFails(s) ==
    /\ pc = s /\ s \in ready /\ "read" \in Errors
    /\ open' = [open EXCEPT ![s] = FALSE]
    /\ ready' = ready \ {s}
    /\ pc' = After(s)
    /\ spoiled' = TRUE
    /\ UNCHANGED <<got, pipe, writers, result, procVars, untold>>

\* Mutant: the runtime only polls for the end of the command.
MutWait ==
    /\ pc = "wait"
    /\ Return(Service!Captured(IF status = <<>> THEN 0 ELSE Service!ResultCode(status), got))
    /\ UNCHANGED <<ready, open, got, pipe, writers, spoiled, procVars, untold>>

\* waitpid returns once the command has ended.
Wait ==
    /\ pc = "wait" /\ status # <<>>
    /\ Return(Service!Captured(Service!ResultCode(status), got))
    /\ UNCHANGED <<ready, open, got, pipe, writers, spoiled, procVars, untold>>

\* It may fail, interrupted by a signal while the command runs or because the system reaps
\* children by itself.  Nobody looks: status keeps the 0 it was initialized with.
WaitFails ==
    /\ pc = "wait" /\ "waitpid" \in Errors
    /\ Return(Service!Captured(0, got))
    /\ untold' = TRUE
    /\ UNCHANGED <<ready, open, got, pipe, writers, spoiled, procVars>>

-----------------------------------------------------------------------------
(* The command and its background processes. *)

StartsWrite(p, s, b) ==
    /\ life[p] = "running" /\ want[p] = <<>> /\ p \in writers[s]
    /\ Len(sent[s]) < MaxOut
    /\ want' = [want EXCEPT ![p] = <<s, b>>]
    /\ UNCHANGED <<parentVars, pipe, writers, life, sent, status>>

Write(p) ==
    /\ life[p] = "running" /\ want[p] # <<>>
    /\ LET s == want[p][1]
           b == want[p][2]
       IN  /\ open[s] /\ Len(pipe[s]) < Capacity
           /\ pipe' = [pipe EXCEPT ![s] = Append(@, b)]
           /\ sent' = [sent EXCEPT ![s] = Append(@, b)]
    /\ want' = [want EXCEPT ![p] = <<>>]
    /\ UNCHANGED <<parentVars, writers, life, status>>

\* p may close an output before it ends.
Closes(p, s) ==
    /\ life[p] = "running" /\ want[p] = <<>> /\ p \in writers[s]
    /\ writers' = [writers EXCEPT ![s] = @ \ {p}]
    /\ UNCHANGED <<parentVars, pipe, procVars>>

\* p starts q, which inherits its outputs.
Starts(p, q) ==
    /\ life[p] = "running" /\ want[p] = <<>> /\ life[q] = "unborn"
    /\ life' = [life EXCEPT ![q] = "running"]
    /\ writers' = [s \in Streams |-> IF p \in writers[s] THEN writers[s] \cup {q} ELSE writers[s]]
    /\ UNCHANGED <<parentVars, pipe, want, sent, status>>

Ends(p, st) ==
    /\ life' = [life EXCEPT ![p] = "gone"]
    /\ want' = [want EXCEPT ![p] = <<>>]
    /\ writers' = [s \in Streams |-> writers[s] \ {p}]
    /\ status' = IF p = Command THEN st ELSE status
    /\ UNCHANGED <<parentVars, pipe, sent>>

\* p exits, with status 127 when the command could not be executed.
Exits(p) ==
    /\ life[p] = "running" /\ want[p] = <<>>
    /\ \E st \in Statuses : st.kind = "exited" /\ Ends(p, st)

\* A signal ends p, even one that is blocked in a write.
Killed(p) ==
    /\ life[p] = "running"
    /\ \E st \in Statuses : st.kind = "signaled" /\ Ends(p, st)

BrokenPipe(p) ==
    /\ life[p] = "running" /\ want[p] # <<>> /\ ~open[want[p][1]]
    /\ Ends(p, SigPipe)

-----------------------------------------------------------------------------

Init ==
    /\ pc = "start"
    /\ ready = {}
    /\ open = [s \in Streams |-> FALSE]
    /\ got = [s \in Streams |-> <<>>]
    /\ pipe = [s \in Streams |-> <<>>]
    /\ writers = [s \in Streams |-> {}]
    /\ life = [p \in Procs |-> "unborn"]
    /\ want = [p \in Procs |-> <<>>]
    /\ sent = [s \in Streams |-> <<>>]
    /\ status = <<>>
    /\ untold = FALSE
    /\ result = <<>>
    /\ spoiled = FALSE

Loop ==
    \/ Select \/ LoopEnds
    \/ \E s \in Streams : NotReady(s) \/ Read(s) \/ ReadEnd(s) \/ ReadAgain(s)

Proceeds == EmptyCommand \/ CreatePipes \/ Fork \/ CloseWriteEnds \/ Loop \/ Wait

Fails == PipeFails \/ ForkFails \/ SelectFails \/ WaitFails \/ \E s \in Streams : ReadFails(s)

Runtime == Proceeds \/ Fails

Process(p) ==
    \/ \E s \in Streams, b \in Bytes : StartsWrite(p, s, b)
    \/ Write(p)
    \/ \E s \in Streams : Closes(p, s)
    \/ \E q \in Background : Starts(p, q)
    \/ Exits(p) \/ Killed(p) \/ BrokenPipe(p)

\* The call has returned and what the command started is gone.
Over == pc = "done" /\ (\A p \in Procs : life[p] # "running") /\ UNCHANGED vars

Next == Runtime \/ (\E p \in Procs : Process(p)) \/ Over

\* The runtime's thread is scheduled, read does not say EAGAIN for ever and nothing has to fail;
\* each process of the command is scheduled, and is a program that comes to its end once its
\* writes are taken.
Fairness ==
    /\ WF_vars(Proceeds)
    /\ SF_vars(\E s \in Streams : Read(s) \/ ReadEnd(s))
    /\ \A p \in Procs : WF_vars(Write(p) \/ Exits(p))

Spec == Init /\ [][Next]_vars /\ Fairness
-----------------------------------------------------------------------------
(* Properties. *)

Tables ==
    /\ open \in [Streams -> BOOLEAN]
    /\ got \in [Streams -> Seq(Bytes)]
    /\ pipe \in [Streams -> Seq(Bytes)]
    /\ writers \in [Streams -> SUBSET (Procs \cup {Parent})]
    /\ sent \in [Streams -> Seq(Bytes)]

\* A full pipe is never overrun, and only live processes hold its write end.
TypeOK ==
    /\ pc \in {"start", "fork", "close", "select", "stdout", "stderr", "wait", "done"}
    /\ ready \in SUBSET Streams
    /\ Tables
    /\ life \in [Procs -> {"unborn", "running", "gone"}]
    /\ want \in [Procs -> {<<>>} \cup Streams \X Bytes]
    /\ status \in {<<>>, SigPipe} \cup Statuses
    /\ untold \in BOOLEAN /\ spoiled \in BOOLEAN
    /\ \A s \in Streams : Len(pipe[s]) <= Capacity
    /\ \A s \in Streams : \A p \in writers[s] \ {Parent} : life[p] = "running"

\* No byte is lost, duplicated or reordered between the command and the builders:
\* what was read, followed by what is still in the pipe, is what was written.  A
\* stream given up after an error of read holds a prefix of it.
Conserved ==
    \A s \in Streams :
        /\ open[s] => sent[s] = got[s] \o pipe[s]
        /\ ~open[s] => IsPrefix(got[s], sent[s])

\* When the call waits for the command it has everything that will ever be written: nobody is
\* left that could write to a stream read to its end, unless an error gave a stream up.
Complete ==
    pc \in {"wait", "done"} /\ ~spoiled =>
        \A s \in Streams : ~open[s] => got[s] = sent[s] /\ writers[s] \subseteq {Parent}

\* The concurrent capture implements the atomic one until select or read fails: the result is the
\* command's exit code with its whole output; when the wait fails it is the whole output still, and
\* only then the code may be another one, 0.
ServiceSafety ==
    Service!ServiceInit /\ [][spoiled' \/ Service!ServiceNext]_(Service!serviceVars)

\* The call returns, however the command interleaves its two outputs and however much it writes to
\* either: neither side waits for the other for ever.  Behind an error of select the read ends stay
\* open and unread, and the call may wait for a command that waits for it.
Returns == <>(pc = "done" \/ spoiled)
=============================================================================
