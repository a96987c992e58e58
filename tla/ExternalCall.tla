---------------------------- MODULE ExternalCall -----------------------------
(***************************************************************************)
(* The calls of the engine that leave the process: of the harness that a   *)
(* run names, through one of the two adapters of the repository, and of a  *)
(* script grader.  An adapter gets a sink for its events, ends once, and   *)
(* is cancelled by the attempt when it takes too long; a grader has its    *)
(* own deadline.                                                           *)
(***************************************************************************)
EXTENDS Naturals, Sequences

CONSTANTS
    RequestSize, PipeSize, MaxLines, MaxOutput, \* of a subprocess
    MaxEvents,                                  \* of the DSH harness
    MaxCancels

ASSUME SizeAssumption ==
    {RequestSize, PipeSize, MaxLines, MaxOutput, MaxEvents, MaxCancels} \subseteq Nat

VARIABLES
    callee,                                     \* who is called
    call, stored,                               \* the call and what its sink stored
    child, stdout, taken, stderr,               \* of a subprocess
    sdk, thread, flight, lost, waived           \* of the DSH harness

C == INSTANCE CommandHarness
G == INSTANCE ScriptGrader
D == INSTANCE DshHarness

processVars == <<child, stdout, taken, stderr>>
dshVars     == <<sdk, thread, flight, lost, waived>>
vars        == <<callee, call, stored, processVars, dshVars>>

\* (No SDK takes part in the other calls.)
Init ==
    /\ callee \in {"command", "dsh", "script"}
    /\ call = C!Idle
    /\ stored = <<>>
    /\ C!Init
    /\ D!Init
    /\ callee # "dsh" => sdk.owned /\ sdk.closable 

CommandStep == callee = "command" /\ C!Next /\ UNCHANGED <<callee, dshVars>>
ScriptStep  == callee = "script" /\ G!Next /\ UNCHANGED <<callee, stored, dshVars>>
DshStep     == callee = "dsh" /\ D!Next /\ UNCHANGED <<callee, processVars>>

Next == CommandStep \/ ScriptStep \/ DshStep

Spec == Init /\ [][Next]_vars

FairSpec ==
    /\ Spec
    /\ callee = "command" => C!Fairness
    /\ callee = "script" => G!Fairness
    /\ callee = "dsh" => D!Fairness

-----------------------------------------------------------------------------
(* What a subprocess answers counts only if it has kept the protocol (see  *)
(* the two modules): nothing after the result, all of it read, exit 0.     *)
ResultIsEarned ==
    /\ callee = "command" => C!ResultIsEarned
    /\ callee = "script" => G!VerdictIsEarned

(* However a call ends, its process is dead and nobody reads its pipes any *)
(* more; a cancellation that hits the clean-up cuts it short, but not      *)
(* before the process was killed.  (The one way out that the code leaves   *)
(* uncovered is that of a grader whose context cannot be serialised: its   *)
(* process has started and nobody ends it.)                                *)
ProcessReaped ==
    (callee # "dsh" /\ call.pc = "done" /\ call.outcome # "unsent") =>
        /\ child.pc \in {"none", "exited"} \/ child.killed
        /\ call.outcome # "interrupted" =>
              child.pc \in {"none", "exited"} /\ stderr.task # "running"

(* The properties of the DSH adapter (see its module).                     *)
ResultIsDurable == callee = "dsh" => D!ResultIsDurable
WorkerQuiet     == callee = "dsh" => D!WorkerQuiet

(* Every call ends, whatever the process or the SDK does: a full stdin     *)
(* pipe, a descendant that keeps a pipe open, a sink that does not answer, *)
(* a thread that never returns.  A harness ends because the wait_for of    *)
(* the attempt cancels it (its drain of stdin and its wait for stderr have *)
(* no timeout of their own), a grader by its own timeout.                  *)
EveryCallEnds == (call.pc # "idle") ~> (call.pc = "done")
=============================================================================
