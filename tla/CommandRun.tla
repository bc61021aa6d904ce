----------------------------- MODULE CommandRun -----------------------------
(***************************************************************************)
(* execute_command() of src/agent/cmd_exec.c: a child process writes into  *)
(* a pipe while the parent polls the pipe, the child and the clock in      *)
(* turn.  Output is counted, in units of whatever size a read returns; the *)
(* clock counts polls of 100 ms.                                           *)
(*                                                                         *)
(* The kernel closes the files of a process before it can be waited for,   *)
(* and a C program may close its standard output earlier, so the end of    *)
(* the pipe is seen first: "closed" comes before "zombie".                 *)
(***************************************************************************)
EXTENDS Integers

CONSTANTS Allowed,   \* allowlist
          ExitCodes, \* what a command may exit with
          OutSize,   \* out_buf_size
          PipeSize,  \* what the pipe holds
          Timeout    \* timeout_sec, in polls

ASSUME CommandAssumption ==
    /\ ExitCodes \subseteq Nat
    /\ OutSize \in Nat /\ OutSize > 1
    /\ PipeSize \in Nat \ {0}
    /\ Timeout \in Nat

VARIABLES call,       \* where execute_command() is, "idle" outside of it
          child,      \* the process of the running or of the last call
          status,     \* its exit code once it has exited, -1 for a signal
          written,    \* what it wrote
          total_read, \* what the parent read of that
          clock,      \* polls since start
          res         \* the last ExecResult

commandVars == <<call, child, status, written, total_read, clock, res>>

CommandInit ==
    /\ call = "idle" /\ child = "none" /\ status = 0
    /\ written = 0 /\ total_read = 0 /\ clock = 0
    /\ res = [exit_code |-> -1, timed_out |-> FALSE, stdout_len |-> 0]

Result(code, late, len) ==
    [exit_code |-> code, timed_out |-> late, stdout_len |-> len]

\* Before the fork: no command, a command that is not allowed, no pipe or no
\* process.
Refuse(code) ==
    /\ call' = "idle" /\ child' = "none" /\ status' = 0
    /\ written' = 0 /\ total_read' = 0 /\ clock' = 0
    /\ res' = Result(code, FALSE, 0)
NoCommand == Refuse(-1)
Denied(name) == name \notin Allowed /\ Refuse(127)
NoProcess(name) == name \in Allowed /\ Refuse(-1)

Fork(name) ==
    /\ name \in Allowed
    /\ call' = "select" /\ child' = "running" /\ status' = 0
    /\ written' = 0 /\ total_read' = 0 /\ clock' = 0
    /\ UNCHANGED res

\* From argv on: execute_command() up to its loop.
Execute(name) ==
    /\ call = "idle"
    /\ Denied(name) \/ NoProcess(name) \/ Fork(name)
ExecuteNothing == call = "idle" /\ NoCommand

-----------------------------------------------------------------------------
\* The child, while the call lasts.

Pipe == written - total_read
Busy == call # "idle"

Write ==
    /\ Busy /\ child = "running" /\ Pipe < PipeSize
    /\ written' = written + 1
    /\ UNCHANGED <<call, child, status, total_read, clock, res>>
CloseOutput ==
    /\ Busy /\ child = "running"
    /\ child' = "closed"
    /\ UNCHANGED <<call, status, written, total_read, clock, res>>
\* It exits, the exec failed (127), or a signal killed it.
Die(code) ==
    /\ Busy /\ child = "closed"
    /\ child' = "zombie" /\ status' = code
    /\ UNCHANGED <<call, written, total_read, clock, res>>

-----------------------------------------------------------------------------
\* The loop.

\* An exit code is taken from a child that exited; status is 0 until
\* waitpid() stored one.
Return(reaped, late, len) ==
    /\ call' = "idle"
    /\ res' = Result(IF late THEN -1 ELSE IF reaped THEN status ELSE 0,
                     late, len)

\* Mutant: the time starts anew with every poll.
Later_Mut == clock' = 0
Later == clock' = IF clock < Timeout THEN clock + 1 ELSE clock

\* Output: read, and poll again unless the buffer is full.
Room == OutSize - 1 - total_read
ReadOutput ==
    /\ call = "select" /\ Pipe > 0
    /\ total_read' = total_read + IF Pipe < Room THEN Pipe ELSE Room
    /\ IF total_read' >= OutSize - 1
         THEN Return(FALSE, FALSE, total_read')
         ELSE UNCHANGED <<call, res>>
    /\ UNCHANGED clock \/ Later
    /\ UNCHANGED <<child, status, written>>
\* Mutant: the loop leaves when the child has closed its output, before
\* what is still in the pipe was read.
ReadEnd_Mut ==
    /\ call = "select" /\ child # "running"
    /\ Return(FALSE, FALSE, total_read)
    /\ UNCHANGED <<child, status, written, total_read, clock>>
ReadEnd ==
    /\ call = "select" /\ Pipe = 0 /\ child # "running"
    /\ Return(FALSE, FALSE, total_read)
    /\ UNCHANGED <<child, status, written, total_read, clock>>
\* 100 ms without output.
Quiet ==
    /\ call = "select" /\ Pipe = 0 /\ child = "running"
    /\ call' = "waitpid" /\ Later
    /\ UNCHANGED <<child, status, written, total_read, res>>
Reap ==
    /\ call = "waitpid" /\ child = "zombie"
    /\ Return(TRUE, FALSE, total_read)
    /\ child' = "reaped"
    /\ UNCHANGED <<status, written, total_read, clock>>
StillRunning ==
    /\ call = "waitpid" /\ child # "zombie"
    /\ call' = "timeout"
    /\ UNCHANGED <<child, status, written, total_read, clock, res>>
PollAgain ==
    /\ call = "timeout" /\ clock < Timeout
    /\ call' = "select"
    /\ UNCHANGED <<child, status, written, total_read, clock, res>>
\* A child that died since waitpid() keeps its status, and the call is
\* reported as timed out all the same.
KillChild ==
    /\ call = "timeout" /\ clock >= Timeout
    /\ child' = "reaped"
    /\ status' = IF child = "zombie" THEN status ELSE -1
    /\ Return(TRUE, TRUE, total_read)
    /\ UNCHANGED <<written, total_read, clock>>

ParentStep == \/ ReadOutput \/ ReadEnd \/ Quiet
              \/ Reap \/ StillRunning \/ PollAgain \/ KillChild
ChildStep == \/ Write
             \/ CloseOutput
             \/ \E code \in ExitCodes \union {-1} : Die(code)
InCall == ParentStep \/ ChildStep
=============================================================================
