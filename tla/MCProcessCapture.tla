-------------------------- MODULE MCProcessCapture --------------------------
(* Model-checking instance of ProcessCapture. *)
EXTENDS ProcessCapture

TwoBytes == {"x", "0"}

\* A failure (or a command that cannot be executed), and SIGTERM.
TwoStatuses ==
    {[kind |-> "exited", n |-> 127], [kind |-> "signaled", n |-> 15]}

AnyErrors == {"pipe", "fork", "select", "read", "waitpid"}
=============================================================================
