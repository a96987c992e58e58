----------------------------- MODULE DshHarness -----------------------------
(***************************************************************************)
(* harness/dsh.py: DeepSeekHarnessAdapter.execute, which runs the blocking *)
(* SDK in a worker thread.  The thread hands each notification to the      *)
(* event loop as an emit and blocks until it is stored; a cancelled call   *)
(* closes the runtime and waits for the thread.                            *)
(*                                                                         *)
(* The SDK is external: it notifies, passes an error of its callback on or *)
(* not, returns or raises when it likes, also never, and close() ends,     *)
(* raises or hangs.  A thread cannot be cancelled.                         *)
(***************************************************************************)
EXTENDS Naturals, Sequences

CONSTANTS
    MaxEvents,  \* bound on the notifications of an execution
    MaxCancels  \* bound on the cancellations of a call

VARIABLES
    call,       \* [pc, outcome, late, cancels] of execute
    stored,     \* the events the sink has stored, by their number
    sdk,        \* [owned, closable, closed]: whose SDK, has it a close(), did it end
    thread,     \* [pc, next]: the worker thread, its next notification
    flight,     \* emits scheduled on the loop that have not ended
    lost,       \* events whose emit raised
    waived      \* why the thread need not have ended: "" or what failed

own  == <<sdk, thread, flight, lost, waived>>
vars == <<call, stored, sdk, thread, flight, lost, waived>>

Active == thread.pc \in {"running", "blocked"}

-----------------------------------------------------------------------------
(* execute                                                                 *)

Init ==
    /\ sdk \in [owned : BOOLEAN, closable : BOOLEAN, closed : {FALSE}]
    /\ thread = [pc |-> "none", next |-> 1]
    /\ flight = {}
    /\ lost = {}
    /\ waived = ""

Finish(outcome) == call' = [call EXCEPT !.pc = "done", !.outcome = outcome]

\* The SDK may be missing, or the bundle ask for what it cannot do.
Execute ==
    /\ call.pc = "idle"
    /\ \/ /\ call' = [call EXCEPT !.pc = "run"]
          /\ thread' = [thread EXCEPT !.pc = "running"]
       \/ /\ sdk.owned
          /\ Finish("error")
          /\ UNCHANGED thread
    /\ UNCHANGED <<stored, sdk, flight, lost, waived>>

\* The finally clause of a call whose runtime is not closed yet.
End(outcome) ==
    call' = [call EXCEPT !.outcome = outcome,
                         !.pc = IF sdk.owned /\ sdk.closable THEN "final" ELSE "done"]

\* await shield(worker)
WorkerEnds ==
    /\ call.pc = "run" /\ ~Active
    /\ End(IF thread.pc = "returned" THEN "result" ELSE "error")
    /\ UNCHANGED <<stored, own>>

\* Cancelled while the SDK runs: close() is required.
CancelRun ==
    /\ call.pc = "run"
    /\ IF sdk.closable
       THEN /\ call' = [call EXCEPT !.pc = "close", !.cancels = @ + 1]
            /\ UNCHANGED waived
       ELSE /\ call' = [call EXCEPT !.pc = "done", !.outcome = "error",
                                    !.cancels = @ + 1]
            /\ waived' = "close"

\* A second cancellation: in close() the finally clause closes again, in the
\* wait for the worker it is not caught.
CancelAgain ==
    /\ call.pc \in {"close", "quiesce", "final"}
    /\ call' = [call EXCEPT !.outcome = "cancelled", !.cancels = @ + 1,
                            !.pc = IF call.pc = "close" /\ sdk.owned
                                   THEN "final" ELSE "done"]
    /\ waived' = IF waived = "" THEN "cancelled" ELSE waived

Cancel ==
    /\ call.cancels < MaxCancels
    /\ CancelRun \/ CancelAgain
    /\ UNCHANGED <<stored, sdk, thread, flight, lost>>

\* A bug: control returns when the runtime is closed.
CloseEndsAll ==
    /\ call.pc \in {"close", "final"}
    /\ sdk' = [sdk EXCEPT !.closed = TRUE]
    /\ call' = [call EXCEPT !.pc = "done",
                            !.outcome = IF @ = "none" THEN "cancelled" ELSE @]
    /\ UNCHANGED <<stored, thread, flight, lost, waived>>

CloseEnds ==
    /\ call.pc \in {"close", "final"}
    /\ sdk' = [sdk EXCEPT !.closed = TRUE]
    /\ call' = [call EXCEPT !.pc = IF call.pc = "close" THEN "quiesce" ELSE "done"]
    /\ UNCHANGED <<stored, thread, flight, lost, waived>>

\* close() raises or outlasts the shutdown timeout.  Its error replaces the
\* cancellation, or the result of an execution that succeeded.
CloseFails ==
    /\ call.pc \in {"close", "final"}
    /\ call' = [call EXCEPT !.outcome = "error",
                            !.pc = IF call.pc = "close" /\ sdk.owned
                                   THEN "final" ELSE "done"]
    /\ waived' = IF waived = "" THEN "close" ELSE waived
    /\ UNCHANGED <<stored, sdk, thread, flight, lost>>

Quiesce ==
    /\ call.pc = "quiesce" /\ ~Active
    /\ Finish("cancelled")
    /\ UNCHANGED <<stored, own>>

\* A bug: the wait for the worker has no timeout.
QuiesceForever ==
    /\ call.pc = "quiesce" /\ ~Active
    /\ Finish("cancelled")
    /\ UNCHANGED <<stored, own>>

\* The shutdown timeout: the task of the worker is cancelled, the thread is
\* not, and control returns.
QuiesceTimesOut ==
    /\ call.pc = "quiesce" /\ Active
    /\ Finish("cancelled")
    /\ waived' = "timeout"
    /\ UNCHANGED <<stored, sdk, thread, flight, lost>>

Expire ==
    /\ call.pc \notin {"idle", "done"} /\ ~call.late
    /\ call' = [call EXCEPT !.late = TRUE]
    /\ UNCHANGED <<stored, own>>

-----------------------------------------------------------------------------
(* The worker thread, and the emits it schedules                           *)

\* A bug: the callback does not wait for the emit.
NotifyAndGoOn ==
    /\ thread.pc = "running" /\ thread.next =< MaxEvents
    /\ flight' = flight \cup {thread.next}
    /\ thread' = [thread EXCEPT !.next = @ + 1]
    /\ UNCHANGED <<call, stored, sdk, lost, waived>>

\* on_notification: the emit is scheduled, the thread waits for its future.
Notify ==
    /\ thread.pc = "running" /\ thread.next =< MaxEvents
    /\ flight' = flight \cup {thread.next}
    /\ thread' = [thread EXCEPT !.pc = "blocked"]
    /\ UNCHANGED <<call, stored, sdk, lost, waived>>

\* The future of event e ends: the thread goes on if it still waits for it.
Released(e) ==
    IF thread = [pc |-> "blocked", next |-> e]
    THEN [pc |-> "running", next |-> e + 1]
    ELSE thread

EmitStores(e) ==
    /\ stored' = Append(stored, e)
    /\ flight' = flight \ {e}
    /\ thread' = Released(e)
    /\ UNCHANGED <<call, sdk, lost, waived>>

\* The error is raised in the callback; the SDK passes it on or goes on.
EmitRaises(e) ==
    /\ flight' = flight \ {e}
    /\ lost' = lost \cup {e}
    /\ \/ thread' = Released(e)
       \/ /\ Released(e) # thread
          /\ thread' = [Released(e) EXCEPT !.pc = "raised"]
    /\ UNCHANGED <<call, stored, sdk, waived>>

\* future.result(timeout) gives up, which does not stop the emit.  The wait
\* began after the attempt did, so the attempt has been cancelled by then.
NotifyTimesOut ==
    /\ thread.pc = "blocked"
    /\ call.late /\ call.cancels > 0
    /\ \E pc \in {"running", "raised"} :
          thread' = [pc |-> pc, next |-> thread.next + 1]
    /\ UNCHANGED <<call, stored, sdk, flight, lost, waived>>

ThreadEnds ==
    /\ thread.pc = "running"
    /\ \E pc \in {"returned", "raised"} : thread' = [thread EXCEPT !.pc = pc]
    /\ UNCHANGED <<call, stored, sdk, flight, lost, waived>>

-----------------------------------------------------------------------------
Running == WorkerEnds \/ CloseEnds \/ CloseFails \/ Quiesce \/ QuiesceTimesOut

Sdk == \/ Notify \/ NotifyTimesOut \/ ThreadEnds
       \/ \E e \in flight : EmitStores(e) \/ EmitRaises(e)

Next == Execute \/ Running \/ Cancel \/ Expire \/ Sdk

\* The event loop runs the call, whose waits for close() and for the worker
\* have a timeout; time passes and wait_for cancels an attempt that takes too
\* long.  Nothing is assumed of the SDK.
Fairness ==
    /\ WF_vars(Running)
    /\ WF_vars(Expire)
    /\ WF_vars(call.late /\ call.cancels = 0 /\ Cancel)

-----------------------------------------------------------------------------
(* "Backpressure preserves durable event order" (on_notification): when a  *)
(* result is returned the worker has returned, its emits have ended, and   *)
(* what it notified was stored in that order, except what the sink refused.*)
ResultIsDurable ==
    call.outcome = "result" =>
        /\ thread.pc = "returned"
        /\ flight = {}
        /\ \A i, j \in DOMAIN stored : i < j => stored[i] < stored[j]
        /\ {stored[i] : i \in DOMAIN stored} = 1 .. thread.next - 1 \ lost

(* "cancellation closes that runtime and waits for the worker thread to    *)
(* quiesce before control returns" (DeepSeekHarnessAdapter).  It is so     *)
(* unless the SDK cannot be closed, the thread outlasts the shutdown       *)
(* timeout or a second cancellation comes; an owned runtime is closed by   *)
(* every other end of a call.                                              *)
WorkerQuiet ==
    (call.pc = "done" /\ thread.pc # "none" /\ waived = "") =>
        /\ ~Active
        /\ call.cancels > 0 \/ (sdk.owned /\ sdk.closable) => sdk.closed
=============================================================================
