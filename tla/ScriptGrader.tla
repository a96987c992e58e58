---------------------------- MODULE ScriptGrader -----------------------------
(***************************************************************************)
(* grading/script.py: ScriptGrader.evaluate, which gives a subprocess the  *)
(* output to grade and reads one JSON result.  All of it, the writing of   *)
(* the request included, is under one wait_for; it runs outside the        *)
(* wait_for of the attempt, so that this is the only deadline it has.      *)
(***************************************************************************)
EXTENDS Subprocess

CONSTANTS
    MaxOutput,      \* max_output_bytes, of stdout and of stderr
    MaxCancels      \* bound on the cancellations of a call

VARIABLE call       \* [pc, outcome, late, cancels] of evaluate

own  == <<child, stdout, taken, stderr>>
vars == <<call, child, stdout, taken, stderr>>

\* The readers are cancelled before control leaves _communicate_bounded; then
\* the finally clause of evaluate, up to process.wait().
Finish(outcome) ==
    /\ call' = [call EXCEPT !.pc = "reap", !.outcome = outcome]
    /\ stderr' = [stderr EXCEPT !.task = IF @ = "running" THEN "cancelled" ELSE @]
    /\ Kill

\* A context that has no JSON form raises between the start of the process and
\* the try that would kill it.
Evaluate ==
    /\ call.pc = "idle"
    /\ \/ /\ call' = [call EXCEPT !.pc = "drain"]
          /\ Spawn
       \/ /\ call' = [call EXCEPT !.pc = "done", !.outcome = "error"]
          /\ UNCHANGED child
       \/ /\ call' = [call EXCEPT !.pc = "done", !.outcome = "unsent"]
          /\ Spawn
    /\ UNCHANGED pipes

\* stdin.drain(), then a reader for each pipe; or the pipe is broken.
Drain ==
    /\ call.pc = "drain"
    /\ \/ /\ child.unread =< PipeSize \/ child.pc = "exited"
          /\ call' = [call EXCEPT !.pc = "gather"]
          /\ stderr' = [stderr EXCEPT !.task = "running"]
          /\ UNCHANGED child
       \/ /\ child.pc = "exited"
          /\ Finish("error")
    /\ UNCHANGED <<stdout, taken>>

\* A chunk of stdout; one too many ends the gather.
Read ==
    /\ call.pc = "gather" /\ stdout # <<>>
    /\ taken' = Append(taken, Head(stdout))
    /\ stdout' = Tail(stdout)
    /\ IF Len(taken) >= MaxOutput THEN Finish("error") ELSE UNCHANGED <<call, child, stderr>>

ErrorsExceed ==
    /\ call.pc = "gather" /\ stderr.exceeded
    /\ Finish("error")
    /\ UNCHANGED <<stdout, taken>>

\* A bug: the exit status is not looked at.
GatheredAnyStatus ==
    /\ call.pc = "gather"
    /\ stdout = <<>> /\ Eof("stdout")
    /\ stderr.task = "ended" /\ ~stderr.exceeded
    /\ child.pc = "exited"
    /\ Finish(IF taken = <<"result">> THEN "result" ELSE "error")
    /\ UNCHANGED <<stdout, taken>>

\* Both pipes are read and the process has exited: the exit status, and the
\* output as one JSON result.
Gathered ==
    /\ call.pc = "gather"
    /\ stdout = <<>> /\ Eof("stdout")
    /\ stderr.task = "ended" /\ ~stderr.exceeded
    /\ child.pc = "exited"
    /\ Finish(IF child.code = 0 /\ taken = <<"result">> THEN "result" ELSE "error")
    /\ UNCHANGED <<stdout, taken>>

\* A bug: the request is written before the wait_for.
TimesOutReading ==
    /\ call.pc = "gather" /\ call.late
    /\ Finish("timeout")
    /\ UNCHANGED <<stdout, taken>>

\* wait_for
TimesOut ==
    /\ call.pc \in {"drain", "gather"} /\ call.late
    /\ Finish("timeout")
    /\ UNCHANGED <<stdout, taken>>

\* The end of the finally clause.
Reap ==
    /\ call.pc = "reap" /\ child.pc = "exited"
    /\ call' = [call EXCEPT !.pc = "done"]
    /\ UNCHANGED own

\* The server shuts down; in the finally clause that ends the wait.
Cancel ==
    /\ call.cancels < MaxCancels
    /\ \/ /\ call.pc \in {"drain", "gather"}
          /\ call' = [call EXCEPT !.pc = "reap", !.outcome = "cancelled",
                                  !.cancels = @ + 1]
          /\ stderr' = [stderr EXCEPT !.task = IF @ = "running" THEN "cancelled" ELSE @]
          /\ Kill
       \/ /\ call.pc = "reap" /\ child.pc # "exited"
          /\ call' = [call EXCEPT !.pc = "done", !.outcome = "interrupted",
                                  !.cancels = @ + 1]
          /\ UNCHANGED <<child, stderr>>
    /\ UNCHANGED <<stdout, taken>>

Expire ==
    /\ call.pc \notin {"idle", "done"} /\ ~call.late
    /\ call' = [call EXCEPT !.late = TRUE]
    /\ UNCHANGED own

-----------------------------------------------------------------------------
Running == Drain \/ Read \/ ErrorsExceed \/ Gathered \/ TimesOut \/ Reap

\* The reader of stderr and the process go on by themselves.
Beside(A) == A /\ UNCHANGED call

Next == Evaluate \/ Running \/ Cancel \/ Expire
        \/ Beside(CollectStderr) \/ Beside(ProcessNext)

\* The event loop runs the call and its readers, time passes, and a killed
\* process dies.  Nobody has to cancel the call.
Fairness ==
    /\ WF_vars(Running)
    /\ WF_vars(Beside(CollectStderr))
    /\ WF_vars(Expire)
    /\ WF_vars(child.killed /\ Beside(ChildExits))

-----------------------------------------------------------------------------
(* A score is that of a grader that exited with 0, of all that it wrote,   *)
(* within the limits; whatever else happens is an error, which the engine  *)
(* takes as a failed grade.                                                *)
VerdictIsEarned ==
    call.outcome = "result" =>
        /\ child.pc = "exited" /\ child.code = 0 /\ ~child.killed
        /\ stdout = <<>> /\ taken = <<"result">>
        /\ ~stderr.exceeded
=============================================================================
