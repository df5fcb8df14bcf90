--------------------------- MODULE CaptureService ---------------------------
(***************************************************************************)
(* What process.run_capture promises an ADAN program: the call returns     *)
(* once, after the command has ended and nobody can write to its output    *)
(* any more, with everything that was written to each stream, in order,    *)
(* and with the command's own exit code; or it fails before the command    *)
(* runs.  When the system does not tell how the command ended, the call    *)
(* returns with the whole output all the same, but takes the exit code for *)
(* 0.  ProcessCapture.tla implements it.                                   *)
(***************************************************************************)
EXTENDS Integers, Sequences

CONSTANTS Streams, Bytes, Nul, Statuses

VARIABLES
    sent,      \* sent[s]: what the command wrote to stream s
    status,    \* how the command ended, or <<>>
    untold,    \* the system did not tell how the command ended
    result     \* what the call returned, or <<>>

serviceVars == <<sent, status, untold, result>>

\* A C string ends at its first NUL.
CString(b) ==
    LET cut == {i \in 1..Len(b) : b[i] = Nul}
    IN  IF cut = {} THEN b
        ELSE SubSeq(b, 1, (CHOOSE i \in cut : \A j \in cut : i <= j) - 1)

\* The value of a wait status: the exit code, or 128 and the signal's number.
ResultCode(st) == IF st.kind = "exited" THEN st.n ELSE 128 + st.n

Captured(code, out) ==
    [code |-> code, ok |-> (code = 0), out |-> [s \in Streams |-> CString(out[s])]]

\* The message that a failed result holds under stderr is left out.
Failed == [code |-> -1, ok |-> FALSE, out |-> [s \in Streams |-> <<>>]]

ServiceInit ==
    /\ sent = [s \in Streams |-> <<>>]
    /\ status = <<>>
    /\ untold = FALSE
    /\ result = <<>>

\* The command, or a process it left in the background, writes a byte.
Emit(s, b) ==
    /\ result = <<>>
    /\ sent' = [sent EXCEPT ![s] = Append(@, b)]
    /\ UNCHANGED <<status, untold, result>>

\* Only a call that was not told returns before the command has ended.
End(st) ==
    /\ status = <<>> /\ (result = <<>> \/ untold)
    /\ status' = st
    /\ UNCHANGED <<sent, untold, result>>

Return ==
    /\ result = <<>> /\ status # <<>>
    /\ result' = Captured(ResultCode(status), sent)
    /\ UNCHANGED <<sent, status, untold>>

\* The code is 0 and the result is ok, however the command ended or will end.
ReturnUntold ==
    /\ result = <<>>
    /\ untold' = TRUE
    /\ result' = Captured(0, sent)
    /\ UNCHANGED <<sent, status>>

Fail ==
    /\ result = <<>> /\ status = <<>> /\ sent = [s \in Streams |-> <<>>]
    /\ result' = Failed
    /\ UNCHANGED <<sent, status, untold>>

ServiceNext ==
    \/ \E s \in Streams, b \in Bytes : Emit(s, b)
    \/ \E st \in Statuses : End(st)
    \/ Return \/ ReturnUntold
    \/ Fail

ServiceSpec == ServiceInit /\ [][ServiceNext]_serviceVars
=============================================================================
