--------------------------- MODULE CommandHarness ---------------------------
(***************************************************************************)
(* harness/command.py: CommandHarnessAdapter.execute and the subprocess it *)
(* talks to over three pipes.  The request goes to stdin, JSON lines come  *)
(* from stdout, and a task of its own collects stderr.                     *)
(*                                                                         *)
(* The caller may cancel the call wherever it suspends (the wait_for of an *)
(* attempt, the shutdown of the server).                                   *)
(***************************************************************************)
EXTENDS Subprocess

CONSTANTS
    MaxOutput,      \* max_output_bytes, in lines
    MaxCancels      \* bound on the cancellations of a call

VARIABLES
    call,       \* [pc, outcome, late, cancels] of execute; late: its deadline is over
    stored      \* the events the sink has stored, by their position in the output

own  == <<child, stdout, taken, stderr>>
vars == <<call, stored, child, stdout, taken, stderr>>

Idle == [pc |-> "idle", outcome |-> "none", late |-> FALSE, cancels |-> 0]

\* The awaits of the body of the try statement.
Suspended == {"drain", "read", "emit", "wait", "stderr"}

HasResult == \E i \in DOMAIN taken : taken[i] = "result"

-----------------------------------------------------------------------------
Goto(pc) == call' = [call EXCEPT !.pc = pc]

\* A bug: only a process that timed out is killed.
FinishGently(outcome) ==
    /\ call' = [call EXCEPT !.pc = "reap", !.outcome = outcome]
    /\ child' = [child EXCEPT !.killed = @ \/ outcome = "timeout"]

\* The finally clause up to process.wait().
Finish(outcome) ==
    /\ call' = [call EXCEPT !.pc = "reap", !.outcome = outcome]
    /\ Kill

Execute ==
    /\ call.pc = "idle"
    /\ \/ /\ Goto("drain")
          /\ Spawn
          /\ stderr' = [stderr EXCEPT !.task = "running"]
       \/ /\ call' = [call EXCEPT !.pc = "done", !.outcome = "error"]
          /\ UNCHANGED <<child, stderr>>
    /\ UNCHANGED <<stored, stdout, taken>>

\* stdin.drain() has no timeout, and stdout is not read meanwhile: a process
\* that writes before it reads can block both.
Drain ==
    /\ call.pc = "drain"
    /\ \/ /\ child.unread =< PipeSize \/ child.pc = "exited"
          /\ Goto("read")
          /\ UNCHANGED child
       \/ /\ child.pc = "exited"
          /\ Finish("error")
    /\ UNCHANGED <<stored, stdout, taken, stderr>>

\* A bug: an event after the result is let through.
BreaksLoosely(line) ==
    \/ Len(taken) >= MaxOutput
    \/ line = "noise"
    \/ line = "result" /\ HasResult

\* The output limit, a line that is no message, a message after the result.
Breaks(line) ==
    \/ Len(taken) >= MaxOutput
    \/ line = "noise"
    \/ HasResult

ReadLine ==
    /\ call.pc = "read" /\ ~call.late
    /\ stdout # <<>>
    /\ taken' = Append(taken, Head(stdout))
    /\ stdout' = Tail(stdout)
    /\ \/ /\ Breaks(Head(stdout))
          /\ Finish("error")
       \/ /\ ~Breaks(Head(stdout))
          /\ Goto(IF Head(stdout) = "event" THEN "emit" ELSE "read")
          /\ UNCHANGED child
    /\ UNCHANGED <<stored, stderr>>

\* The sink stores the event, or raises: a control signal, the budget.
Emit ==
    /\ call.pc = "emit"
    /\ \/ /\ Goto("read")
          /\ stored' = Append(stored, Len(taken))
          /\ UNCHANGED child
       \/ /\ Finish("signal")
          /\ UNCHANGED stored
    /\ UNCHANGED <<stdout, taken, stderr>>

ReadEof ==
    /\ call.pc = "read" /\ ~call.late
    /\ stdout = <<>> /\ Eof("stdout")
    /\ Goto("wait")
    /\ UNCHANGED <<stored, own>>

DeadlinePasses ==
    /\ call.pc \in {"read", "wait"} /\ call.late
    /\ Finish("timeout")
    /\ UNCHANGED <<stored, stdout, taken, stderr>>

WaitForExit ==
    /\ call.pc = "wait" /\ child.pc = "exited"
    /\ Goto("stderr")
    /\ UNCHANGED <<stored, own>>

\* await stderr_task (without a timeout), then the verdict on the process.
Conclude ==
    /\ call.pc = "stderr" /\ stderr.task = "ended"
    /\ Finish(IF stderr.exceeded \/ child.code # 0 \/ ~HasResult
              THEN "error" ELSE "result")
    /\ UNCHANGED <<stored, stdout, taken, stderr>>

\* The rest of the finally clause.
Reap ==
    /\ call.pc = "reap" /\ child.pc = "exited"
    /\ Goto("done")
    /\ stderr' = [stderr EXCEPT !.task = IF @ = "running" THEN "cancelled" ELSE @]
    /\ UNCHANGED <<stored, child, stdout, taken>>

\* A cancellation during the finally clause ends it where it waits.
Cancel ==
    /\ call.cancels < MaxCancels
    /\ \/ /\ call.pc \in Suspended
          /\ Kill
          /\ call' = [call EXCEPT !.pc = "reap", !.outcome = "cancelled",
                                  !.cancels = @ + 1]
       \/ /\ call.pc = "reap" /\ child.pc # "exited"
          /\ call' = [call EXCEPT !.pc = "done", !.outcome = "interrupted",
                                  !.cancels = @ + 1]
          /\ UNCHANGED child
    /\ UNCHANGED <<stored, stdout, taken, stderr>>

Expire ==
    /\ call.pc \notin {"idle", "done"} /\ ~call.late
    /\ call' = [call EXCEPT !.late = TRUE]
    /\ UNCHANGED <<stored, own>>

Running == Drain \/ ReadLine \/ Emit \/ ReadEof \/ DeadlinePasses \/ WaitForExit
           \/ Conclude \/ Reap

\* stderr_task and the process go on by themselves.
Beside(A) == A /\ UNCHANGED <<call, stored>>

Next == Execute \/ Running \/ Cancel \/ Expire
        \/ Beside(CollectStderr) \/ Beside(ProcessNext)

\* The event loop runs the call and its stderr task, time passes, wait_for
\* cancels an attempt that takes too long, and a killed process dies.
Fairness ==
    /\ WF_vars(Running)
    /\ WF_vars(Beside(CollectStderr))
    /\ WF_vars(Expire)
    /\ WF_vars(call.late /\ call.cancels = 0 /\ Cancel)
    /\ WF_vars(child.killed /\ Beside(ChildExits))

-----------------------------------------------------------------------------
(* A result is returned only of a process that kept the protocol           *)
(* (docs/harness-protocol.md): it exited with 0, wrote its events and then *)
(* one result and nothing after it, all of its output was read, and every  *)
(* event was stored, in order, before the result was accepted.             *)
ResultIsEarned ==
    call.outcome = "result" =>
        /\ child.pc = "exited" /\ child.code = 0
        /\ stdout = <<>> /\ Len(taken) =< MaxOutput
        /\ taken[Len(taken)] = "result"
        /\ stored = [i \in 1 .. Len(taken) - 1 |-> i]
=============================================================================
