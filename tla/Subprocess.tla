----------------------------- MODULE Subprocess -----------------------------
(***************************************************************************)
(* A process that the control plane starts, gives a request on stdin and   *)
(* reads until it ends.  The process is external: it reads, writes, closes *)
(* its stdout and exits when it likes, also never, and may leave behind a  *)
(* descendant that keeps its pipes open.                                   *)
(***************************************************************************)
EXTENDS Naturals, Sequences

CONSTANTS
    RequestSize,    \* units of the request
    PipeSize,       \* units a pipe and the buffers at its ends hold
    MaxLines        \* bound on the lines a process writes

VARIABLES
    child,      \* [pc, code, killed, unread, heirs] of the process
    stdout,     \* lines written and not yet read
    taken,      \* lines read
    stderr      \* [task, exceeded]: who reads it, was it too much

pipes == <<stdout, taken, stderr>>

Lines   == {"event", "result", "noise"}
NoChild == [pc |-> "none", code |-> 0, killed |-> FALSE, unread |-> 0, heirs |-> {}]

\* The end of the stream of a pipe: nobody holds its other end any more.
Eof(pipe) ==
    /\ pipe \notin child.heirs
    /\ \/ child.pc = "exited"
       \/ child.pc = "silent" /\ pipe = "stdout"

-----------------------------------------------------------------------------
Init ==
    /\ child = NoChild
    /\ stdout = <<>>
    /\ taken = <<>>
    /\ stderr = [task |-> "none", exceeded |-> FALSE]

Spawn == child' = [NoChild EXCEPT !.pc = "running", !.unread = RequestSize]

\* process.kill(), of a process whose end is not known.
Kill == child' = [child EXCEPT !.killed = @ \/ child.pc # "exited"]

\* The task that reads stderr is at the end of the pipe.
CollectStderr ==
    /\ stderr.task = "running" /\ Eof("stderr")
    /\ stderr' = [stderr EXCEPT !.task = "ended"]
    /\ UNCHANGED <<child, stdout, taken>>

ChildReads ==
    /\ child.pc # "exited" /\ child.unread > 0
    /\ child' = [child EXCEPT !.unread = @ - 1]
    /\ UNCHANGED <<stdout, taken, stderr>>

ChildWrites(line) ==
    /\ child.pc = "running"
    /\ Len(stdout) < PipeSize /\ Len(taken) + Len(stdout) < MaxLines
    /\ stdout' = Append(stdout, line)
    /\ UNCHANGED <<child, taken, stderr>>

ChildComplains ==
    /\ child.pc \in {"running", "silent"} /\ stderr.task = "running"
    /\ ~stderr.exceeded
    /\ stderr' = [stderr EXCEPT !.exceeded = TRUE]
    /\ UNCHANGED <<child, stdout, taken>>

\* It closes its stdout, or ends and leaves a descendant with its pipes.
ChildCloses ==
    /\ child.pc = "running"
    /\ child' = [child EXCEPT !.pc = "silent"]
    /\ UNCHANGED <<stdout, taken, stderr>>

ChildExits ==
    /\ child.pc \in {"running", "silent"}
    /\ \E code \in 0 .. 1, heirs \in {{}, {"stderr"}, {"stdout", "stderr"}} :
          /\ child.killed => code = 1
          /\ child.pc = "silent" => "stdout" \notin heirs
          /\ child' = [child EXCEPT !.pc = "exited", !.code = code, !.heirs = heirs]
    /\ UNCHANGED <<stdout, taken, stderr>>

HeirsExit ==
    /\ child.heirs # {}
    /\ child' = [child EXCEPT !.heirs = {}]
    /\ UNCHANGED <<stdout, taken, stderr>>

ProcessNext ==
    \/ ChildReads \/ ChildComplains \/ ChildCloses \/ ChildExits \/ HeirsExit
    \/ \E line \in Lines : ChildWrites(line)
=============================================================================
