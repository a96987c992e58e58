-------------------------- MODULE ExternalCallProofs -------------------------
(***************************************************************************)
(* The safety properties of ExternalCall.tla, for any sizes of requests,   *)
(* pipes and outputs, any number of lines and events, and any number of    *)
(* cancellations.  The invariant has one part for each callee.             *)
(***************************************************************************)
EXTENDS ExternalCall, TLAPS

Pcs == {"idle", "drain", "read", "emit", "wait", "stderr", "reap", "gather", "run",
        "close", "quiesce", "final", "done"}
Outcomes == {"none", "result", "error", "signal", "timeout", "cancelled", "interrupted",
             "unsent"}

Calls    == [pc : Pcs, outcome : Outcomes, late : BOOLEAN, cancels : Nat]
Children == [pc : {"none", "running", "silent", "exited"}, code : Nat, killed : BOOLEAN,
             unread : Nat, heirs : SUBSET {"stdout", "stderr"}]
Readers  == [task : {"none", "running", "ended", "cancelled"}, exceeded : BOOLEAN]

ProcessTypes ==
    /\ call \in Calls
    /\ child \in Children
    /\ stderr \in Readers
    /\ stdout \in Seq(C!Lines)
    /\ taken \in Seq(C!Lines)

\* The process of a call that is not over.
Started ==
    /\ call.pc = "idle" => child.pc = "none" /\ stderr.task = "none"
    /\ call.pc = "idle" => call.outcome = "none"
    /\ call.pc \notin {"idle", "done"} => child.pc # "none"
    /\ call.pc = "reap" => child.pc = "exited" \/ child.killed
    /\ call.pc \notin {"idle", "reap", "done"} => call.outcome = "none"

-----------------------------------------------------------------------------
(* What the callers and the process do to a call, a process and a reader.  *)
LEMMA CallGoesOn ==
    ASSUME NEW q \in Calls, NEW p \in Pcs
    PROVE  LET r == [q EXCEPT !.pc = p]
           IN r \in Calls /\ r.pc = p /\ r.outcome = q.outcome /\ r.cancels = q.cancels
  BY DEF Calls

LEMMA CallEnds ==
    ASSUME call \in Calls, NEW p \in Pcs, NEW o \in Outcomes,
           call' = [call EXCEPT !.pc = p, !.outcome = o]
    PROVE  /\ call' \in Calls /\ call'.pc = p /\ call'.outcome = o
           /\ call'.cancels = call.cancels
  BY DEF Calls

LEMMA CallIsCancelled ==
    ASSUME call \in Calls, NEW p \in Pcs, NEW o \in Outcomes,
           call' = [call EXCEPT !.pc = p, !.outcome = o, !.cancels = @ + 1]
    PROVE  /\ call' \in Calls /\ call'.pc = p /\ call'.outcome = o
           /\ call'.cancels = call.cancels + 1
<1>1. call.cancels \in Nat /\ call.cancels + 1 \in Nat /\ DOMAIN call = DOMAIN call'
  BY DEF Calls
<1>2. call' = [pc |-> p, outcome |-> o, late |-> call.late, cancels |-> call.cancels + 1]
  BY DEF Calls
<1> QED
  BY <1>1, <1>2 DEF Calls

LEMMA CallIsLate ==
    ASSUME NEW q \in Calls
    PROVE  LET r == [q EXCEPT !.late = TRUE]
           IN r \in Calls /\ r.pc = q.pc /\ r.outcome = q.outcome /\ r.cancels = q.cancels
  BY DEF Calls

LEMMA ChildIsKilled ==
    ASSUME child \in Children, C!Kill
    PROVE  /\ child' \in Children
           /\ child'.pc = child.pc /\ child'.code = child.code
           /\ child.pc = "exited" \/ child'.killed
           /\ child.pc = "exited" => child'.killed = child.killed
  BY DEF C!Kill, Children

LEMMA ChildIsSpawned ==
    ASSUME C!Spawn
    PROVE  child' \in Children /\ child'.pc = "running"
  BY SizeAssumption DEF C!Spawn, C!NoChild, Children

LEMMA ReaderEnds ==
    ASSUME stderr \in Readers,
           stderr' = [stderr EXCEPT !.task = IF @ = "running" THEN "cancelled" ELSE @]
    PROVE  /\ stderr' \in Readers /\ stderr'.task # "running"
           /\ stderr'.exceeded = stderr.exceeded
  BY DEF Readers

(* What goes on beside a call: nothing is taken from the process, an end   *)
(* is an end, and a reader that is not there does not come.                *)
LEMMA BesideKeeps ==
    ASSUME ProcessTypes, C!CollectStderr \/ C!ProcessNext
    PROVE  /\ child' \in Children /\ stderr' \in Readers
           /\ stdout' \in Seq(C!Lines) /\ taken' = taken
           /\ child.pc \in {"silent", "exited"} =>
                 stdout' = stdout /\ child'.pc \in {"silent", "exited"}
           /\ child.pc = "exited" => child'.pc = "exited" /\ child'.code = child.code
           /\ child.pc = "none" <=> child'.pc = "none"
           /\ child'.killed = child.killed
           /\ stderr.task # "running" => stderr' = stderr
           /\ child.pc = "exited" => stderr'.exceeded = stderr.exceeded
<1> USE DEF ProcessTypes
<1>1. CASE C!CollectStderr
  BY <1>1 DEF C!CollectStderr, Readers
<1>2. CASE C!ChildReads
  <2>1. /\ child' = [child EXCEPT !.unread = child.unread - 1] /\ child.unread > 0
        /\ stdout' = stdout /\ taken' = taken /\ stderr' = stderr
    BY <1>2 DEF C!ChildReads
  <2>2. child.unread \in Nat
    BY DEF Children
  <2>3. child.unread - 1 \in Nat
    BY <2>1, <2>2
  <2>4. child' \in Children
    BY <2>1, <2>3 DEF Children
  <2>5. child'.pc = child.pc /\ child'.code = child.code /\ child'.killed = child.killed
    BY <2>1 DEF Children
  <2> QED
    BY <2>1, <2>4, <2>5
<1>3. CASE C!ChildComplains
  <2>1. /\ child' = child /\ stdout' = stdout /\ taken' = taken
        /\ stderr.task = "running" /\ child.pc # "exited"
        /\ stderr' = [stderr EXCEPT !.exceeded = TRUE]
    BY <1>3 DEF C!ChildComplains
  <2>2. stderr' \in Readers
    BY <2>1 DEF Readers
  <2> QED
    BY <2>1, <2>2
<1>4. CASE C!ChildCloses
  BY <1>4 DEF C!ChildCloses, Children
<1>5. CASE C!ChildExits
  <2>1. PICK code \in 0 .. 1, heirs \in {{}, {"stderr"}, {"stdout", "stderr"}} :
           child' = [child EXCEPT !.pc = "exited", !.code = code, !.heirs = heirs]
    BY <1>5 DEF C!ChildExits
  <2>2. code \in Nat /\ heirs \in SUBSET {"stdout", "stderr"}
    OBVIOUS
  <2>3. /\ child' \in Children /\ child'.pc = "exited" /\ child'.killed = child.killed
    BY <2>1, <2>2 DEF Children
  <2> QED
    BY <1>5, <2>3 DEF C!ChildExits
<1>6. CASE C!HeirsExit
  BY <1>6 DEF C!HeirsExit, Children
<1>7. ASSUME NEW line \in C!Lines, C!ChildWrites(line)
      PROVE  /\ child' = child /\ stderr' = stderr /\ taken' = taken
             /\ child.pc = "running" /\ stdout' \in Seq(C!Lines)
  BY <1>7 DEF C!ChildWrites
<1> QED
  BY <1>1, <1>2, <1>3, <1>4, <1>5, <1>6, <1>7 DEF C!ProcessNext

-----------------------------------------------------------------------------
(* The command harness                                                     *)

\* A call that has kept the protocol so far: the lines taken are events, at
\* most the last one is a result, and the sink has what came before.
Kept(n) ==
    /\ Len(taken) =< MaxOutput
    /\ \A i \in 1 .. Len(taken) :
          taken[i] = "event" \/ (taken[i] = "result" /\ i = Len(taken))
    /\ stored = [i \in 1 .. n |-> i]

CommandInv ==
    /\ ProcessTypes
    /\ Started
    /\ call.pc \in {"idle", "drain"} => taken = <<>> /\ stored = <<>>
    /\ call.pc \in {"read", "wait", "stderr"} =>
          Kept(IF C!HasResult THEN Len(taken) - 1 ELSE Len(taken))
    /\ call.pc = "emit" => Len(taken) > 0 /\ ~C!HasResult /\ Kept(Len(taken) - 1)
    /\ call.pc \in {"wait", "stderr"} => stdout = <<>> /\ child.pc \in {"silent", "exited"}
    /\ call.pc = "stderr" => child.pc = "exited"
    /\ call.outcome = "result" => C!ResultIsEarned /\ call.pc \in {"reap", "done"}
    /\ callee = "command"
    /\ ProcessReaped

(* Every way into the clean-up: the call has an outcome other than a       *)
(* result, and its process is dead or killed.                              *)
LEMMA CommandFinishes ==
    ASSUME CommandInv, NEW o \in Outcomes \ {"none", "result"},
           C!Finish(o), call.pc \notin {"idle", "done"},
           stdout' \in Seq(C!Lines), taken' \in Seq(C!Lines), stderr' = stderr,
           callee' = callee
    PROVE  CommandInv'
<1>1. child' \in Children /\ child'.pc = child.pc /\ (child.pc = "exited" \/ child'.killed)
  BY ChildIsKilled DEF CommandInv, ProcessTypes, C!Finish
<1>2. call' \in Calls /\ call'.pc = "reap" /\ call'.outcome = o
  <2>1. call \in Calls /\ "reap" \in Pcs /\ o \in Outcomes
    BY DEF CommandInv, ProcessTypes, Pcs
  <2>2. call' = [call EXCEPT !.pc = "reap", !.outcome = o]
    BY DEF C!Finish
  <2> QED
    BY <2>1, <2>2, CallEnds
<1>3. child.pc # "none"
  BY DEF CommandInv, Started
<1>4. ProcessTypes'
  BY <1>1, <1>2 DEF CommandInv, ProcessTypes
<1> QED
  BY <1>1, <1>2, <1>3, <1>4 DEF CommandInv, Started, ProcessReaped

(* A line that does not break the protocol.                                *)
LEMMA LineIsTaken ==
    ASSUME CommandInv, C!ReadLine, ~C!Breaks(Head(stdout))
    PROVE  /\ taken' \in Seq(C!Lines) /\ stdout' \in Seq(C!Lines)
           /\ ~C!HasResult
           /\ Len(taken') = Len(taken) + 1
           /\ taken'[Len(taken')] = Head(stdout)
           /\ C!HasResult' <=> Head(stdout) = "result"
           /\ Kept(Len(taken) - 1)'
<1>1. /\ stdout \in Seq(C!Lines) /\ stdout # <<>> /\ taken \in Seq(C!Lines)
      /\ taken' = Append(taken, Head(stdout)) /\ stdout' = Tail(stdout)
      /\ call.pc = "read" /\ stored' = stored
  BY DEF CommandInv, ProcessTypes, C!ReadLine
<1>2. ~C!HasResult /\ Head(stdout) # "noise" /\ Len(taken) < MaxOutput
  BY <1>1, SizeAssumption DEF C!Breaks
<1>3. Head(stdout) \in {"event", "result"}
  BY <1>1, <1>2 DEF C!Lines
<1>4. Kept(Len(taken))
  BY <1>1, <1>2 DEF CommandInv
<1>5. /\ taken' \in Seq(C!Lines) /\ Len(taken') = Len(taken) + 1
      /\ taken'[Len(taken) + 1] = Head(stdout)
      /\ \A i \in 1 .. Len(taken) : taken'[i] = taken[i]
      /\ stdout' \in Seq(C!Lines)
      /\ DOMAIN taken' = 1 .. Len(taken) + 1 /\ DOMAIN taken = 1 .. Len(taken)
  BY <1>1
<1>6. \A i \in 1 .. Len(taken) : taken[i] = "event"
  BY <1>2, <1>4, <1>5 DEF Kept, C!HasResult
<1>7. C!HasResult' <=> Head(stdout) = "result"
  <2>1. Len(taken) \in Nat
    BY <1>1
  <2> QED
    BY <2>1, <1>5, <1>6 DEF C!HasResult
<1>8. Kept(Len(taken) - 1)'
  <2>1. Len(taken) \in Nat
    BY <1>1
  <2>2. stored = [i \in 1 .. Len(taken) |-> i]
    BY <1>4 DEF Kept
  <2>3. \A i \in 1 .. Len(taken') :
           taken'[i] = "event" \/ (taken'[i] = "result" /\ i = Len(taken'))
    BY <1>3, <1>5, <1>6, <2>1
  <2> QED
    BY <1>1, <1>2, <1>5, <2>1, <2>2, <2>3, SizeAssumption DEF Kept
<1> QED
  BY <1>1, <1>2, <1>5, <1>7, <1>8

LEMMA CommandGoesOn ==
    ASSUME CommandInv, NEW p \in Pcs, C!Goto(p)
    PROVE  /\ call' \in Calls /\ call'.pc = p
           /\ call'.outcome = call.outcome /\ call'.cancels = call.cancels
  BY CallGoesOn DEF CommandInv, ProcessTypes, C!Goto

LEMMA CommandDrains ==
    ASSUME CommandInv, C!Drain, callee' = callee
    PROVE  CommandInv'
<1> USE DEF CommandInv
<1>1. /\ call.pc = "drain" /\ stored' = stored /\ stdout' = stdout /\ taken' = taken
      /\ stderr' = stderr /\ taken = <<>> /\ stored = <<>>
      /\ call.outcome = "none" /\ child.pc # "none"
  BY DEF C!Drain, Started
<1>2. CASE C!Goto("read") /\ child' = child
  <2>1. call' \in Calls /\ call'.pc = "read" /\ call'.outcome = "none"
    BY <1>1, <1>2, CommandGoesOn DEF Pcs
  <2>2. Kept(IF C!HasResult THEN Len(taken) - 1 ELSE Len(taken))'
    <3>1. taken' = <<>> /\ stored' = <<>> /\ Len(taken') = 0
      BY <1>1
    <3>2. ~C!HasResult'
      BY <3>1 DEF C!HasResult
    <3>3. stored' = [i \in 1 .. 0 |-> i]
      BY <3>1
    <3> QED
      BY <3>1, <3>2, <3>3, SizeAssumption DEF Kept
  <2> QED
    BY <1>1, <1>2, <2>1, <2>2 DEF ProcessTypes, Started, ProcessReaped
<1>3. CASE C!Finish("error")
  <2>1. "error" \in Outcomes \ {"none", "result"}
    BY DEF Outcomes
  <2> QED
    BY <1>1, <1>3, <2>1, CommandFinishes DEF ProcessTypes
<1> QED
  BY <1>2, <1>3 DEF C!Drain

LEMMA CommandReads ==
    ASSUME CommandInv, C!ReadLine, callee' = callee
    PROVE  CommandInv'
<1> USE DEF CommandInv
<1>1. /\ call.pc = "read" /\ stored' = stored /\ stderr' = stderr
      /\ call.outcome = "none" /\ child.pc # "none"
      /\ stdout \in Seq(C!Lines) /\ stdout # <<>> /\ taken \in Seq(C!Lines)
      /\ taken' = Append(taken, Head(stdout)) /\ stdout' = Tail(stdout)
  BY DEF C!ReadLine, Started, ProcessTypes
<1>2. taken' \in Seq(C!Lines) /\ stdout' \in Seq(C!Lines)
  BY <1>1
<1>3. CASE C!Breaks(Head(stdout))
  <2>1. "error" \in Outcomes \ {"none", "result"}
    BY DEF Outcomes
  <2> QED
    BY <1>1, <1>2, <1>3, <2>1, CommandFinishes DEF C!ReadLine
<1>4. CASE ~C!Breaks(Head(stdout))
  <2> DEFINE p == IF Head(stdout) = "event" THEN "emit" ELSE "read"
  <2>1. C!Goto(p) /\ child' = child /\ p \in Pcs
    BY <1>4 DEF C!ReadLine, Pcs
  <2>2. call' \in Calls /\ call'.pc = p /\ call'.outcome = "none"
    BY <1>1, <2>1, CommandGoesOn
  <2>3. /\ C!HasResult' <=> Head(stdout) = "result"
        /\ Kept(Len(taken) - 1)'
        /\ Len(taken') > 0
    BY <1>1, <1>4, LineIsTaken
  <2>4. CASE Head(stdout) = "event"
    BY <1>1, <1>2, <2>1, <2>2, <2>3, <2>4 DEF ProcessTypes, Started, ProcessReaped
  <2>5. CASE Head(stdout) # "event"
    <3>1. Head(stdout) = "result"
      <4>1. Head(stdout) \in C!Lines /\ Head(stdout) # "noise"
        BY <1>1, <1>4 DEF C!Breaks
      <4> QED
        BY <2>5, <4>1 DEF C!Lines
    <3>2. Kept(IF C!HasResult THEN Len(taken) - 1 ELSE Len(taken))'
      BY <2>3, <3>1
    <3> QED
      BY <1>1, <1>2, <2>1, <2>2, <2>5, <3>2 DEF ProcessTypes, Started, ProcessReaped
  <2> QED
    BY <2>4, <2>5
<1> QED
  BY <1>3, <1>4

(* The sink has the event that was taken last.                             *)
LEMMA CommandEmits ==
    ASSUME CommandInv, C!Emit, callee' = callee
    PROVE  CommandInv'
<1> USE DEF CommandInv
<1>1. /\ call.pc = "emit" /\ stdout' = stdout /\ taken' = taken /\ stderr' = stderr
      /\ call.outcome = "none" /\ child.pc # "none"
      /\ Len(taken) > 0 /\ ~C!HasResult /\ Kept(Len(taken) - 1)
  BY DEF C!Emit, Started
<1>2. CASE C!Goto("read") /\ stored' = Append(stored, Len(taken)) /\ child' = child
  <2>1. call' \in Calls /\ call'.pc = "read" /\ call'.outcome = "none"
    BY <1>1, <1>2, CommandGoesOn DEF Pcs
  <2>2. ~C!HasResult'
    BY <1>1 DEF C!HasResult
  <2>3. stored' = [i \in 1 .. Len(taken) |-> i]
    <3>1. stored = [i \in 1 .. Len(taken) - 1 |-> i] /\ Len(taken) \in Nat \ {0}
      BY <1>1 DEF Kept, ProcessTypes
    <3> QED
      BY <1>2, <3>1
  <2>4. Kept(IF C!HasResult THEN Len(taken) - 1 ELSE Len(taken))'
    BY <1>1, <2>2, <2>3 DEF Kept
  <2> QED
    BY <1>1, <1>2, <2>1, <2>4 DEF ProcessTypes, Started, ProcessReaped
<1>3. CASE C!Finish("signal")
  <2>1. "signal" \in Outcomes \ {"none", "result"}
    BY DEF Outcomes
  <2> QED
    BY <1>1, <1>3, <2>1, CommandFinishes DEF ProcessTypes
<1> QED
  BY <1>2, <1>3 DEF C!Emit

LEMMA CommandWaits ==
    ASSUME CommandInv, C!ReadEof \/ C!WaitForExit \/ C!DeadlinePasses, callee' = callee
    PROVE  CommandInv'
<1> USE DEF CommandInv
<1>1. CASE C!ReadEof \/ C!WaitForExit
  <2>1. PICK p \in {"wait", "stderr"} :
           /\ C!Goto(p)
           /\ p = "stderr" => child.pc = "exited"
    BY <1>1 DEF C!ReadEof, C!WaitForExit
  <2>2. /\ call.pc \in {"read", "wait"} /\ call.outcome = "none"
        /\ stored' = stored /\ child' = child /\ stdout' = stdout /\ taken' = taken
        /\ stderr' = stderr
        /\ stdout = <<>> /\ child.pc \in {"silent", "exited"}
    BY <1>1 DEF C!ReadEof, C!WaitForExit, C!own, C!Eof, Started
  <2>3. call' \in Calls /\ call'.pc = p /\ call'.outcome = "none"
    BY <2>1, <2>2, CommandGoesOn DEF Pcs
  <2>4. Kept(IF C!HasResult THEN Len(taken) - 1 ELSE Len(taken))'
    BY <2>2 DEF Kept, C!HasResult
  <2> QED
    BY <2>1, <2>2, <2>3, <2>4 DEF ProcessTypes, Started, ProcessReaped
<1>2. CASE C!DeadlinePasses
  <2>1. "timeout" \in Outcomes \ {"none", "result"}
    BY DEF Outcomes
  <2> QED
    BY <1>2, <2>1, CommandFinishes DEF C!DeadlinePasses, ProcessTypes
<1> QED
  BY <1>1, <1>2

(* A result is returned only now.                                          *)
LEMMA CommandConcludes ==
    ASSUME CommandInv, C!Conclude, callee' = callee
    PROVE  CommandInv'
<1> USE DEF CommandInv
<1> DEFINE o == IF stderr.exceeded \/ child.code # 0 \/ ~C!HasResult THEN "error" ELSE "result"
<1>1. /\ call.pc = "stderr" /\ stored' = stored /\ stdout' = stdout /\ taken' = taken
      /\ stderr' = stderr /\ C!Finish(o) /\ child.pc = "exited" /\ stdout = <<>>
      /\ Kept(IF C!HasResult THEN Len(taken) - 1 ELSE Len(taken))
  BY DEF C!Conclude
<1>2. o \in {"error", "result"} /\ (o = "result" => child.code = 0 /\ C!HasResult)
  OBVIOUS
<1> HIDE DEF o
<1>3. CASE o = "error"
  <2>1. "error" \in Outcomes \ {"none", "result"}
    BY DEF Outcomes
  <2> QED
    BY <1>1, <1>3, <2>1, CommandFinishes DEF ProcessTypes
<1>4. CASE o = "result"
  <2>1. call' \in Calls /\ call'.pc = "reap" /\ call'.outcome = "result"
    <3>1. "reap" \in Pcs /\ "result" \in Outcomes /\ call \in Calls
      BY DEF Pcs, Outcomes, ProcessTypes
    <3>2. call' = [call EXCEPT !.pc = "reap", !.outcome = "result"]
      BY <1>1, <1>4 DEF C!Finish
    <3> QED
      BY <3>1, <3>2, CallEnds
  <2>2. child' \in Children /\ child'.pc = "exited" /\ child'.code = 0
    BY <1>1, <1>2, <1>4, ChildIsKilled DEF ProcessTypes, C!Finish
  <2>3. /\ taken[Len(taken)] = "result" /\ Len(taken) =< MaxOutput
        /\ stored = [i \in 1 .. Len(taken) - 1 |-> i]
    BY <1>1, <1>2, <1>4 DEF Kept, C!HasResult, ProcessTypes
  <2>4. C!ResultIsEarned'
    BY <1>1, <2>1, <2>2, <2>3 DEF C!ResultIsEarned
  <2> QED
    BY <1>1, <2>1, <2>2, <2>4 DEF ProcessTypes, Started, ProcessReaped
<1> QED
  BY <1>2, <1>3, <1>4

(* Steps that leave output and sink alone: a result stays earned.          *)
LEMMA EarnedStaysEarned ==
    ASSUME CommandInv, taken' = taken, stored' = stored,
           call'.outcome = "result" => call.outcome = "result",
           child.pc = "exited" =>
               child'.pc = "exited" /\ child'.code = child.code /\ stdout' = stdout
    PROVE  C!ResultIsEarned'
  BY DEF CommandInv, C!ResultIsEarned

LEMMA CommandReaps ==
    ASSUME CommandInv, C!Reap, callee' = callee
    PROVE  CommandInv'
<1> USE DEF CommandInv
<1>1. /\ call.pc = "reap" /\ child.pc = "exited" /\ C!Goto("done")
      /\ stored' = stored /\ child' = child /\ stdout' = stdout /\ taken' = taken
      /\ stderr' = [stderr EXCEPT !.task = IF @ = "running" THEN "cancelled" ELSE @]
  BY DEF C!Reap
<1>2. call' \in Calls /\ call'.pc = "done" /\ call'.outcome = call.outcome
  BY <1>1, CommandGoesOn DEF Pcs
<1>3. stderr' \in Readers /\ stderr'.task # "running"
  BY <1>1, ReaderEnds DEF ProcessTypes
<1>4. C!ResultIsEarned'
  BY <1>1, <1>2, EarnedStaysEarned
<1> QED
  BY <1>1, <1>2, <1>3, <1>4 DEF ProcessTypes, Started, ProcessReaped

LEMMA CommandIsCancelled ==
    ASSUME CommandInv, C!Cancel, callee' = callee
    PROVE  CommandInv'
<1> USE DEF CommandInv
<1>1. /\ stored' = stored /\ stdout' = stdout /\ taken' = taken /\ stderr' = stderr
      /\ call \in Calls /\ child \in Children
  BY DEF C!Cancel, ProcessTypes
<1>2. call.cancels + 1 \in Nat
  BY <1>1 DEF Calls
<1>3. CASE /\ call.pc \in C!Suspended /\ C!Kill
           /\ call' = [call EXCEPT !.pc = "reap", !.outcome = "cancelled", !.cancels = @ + 1]
  <2>1. "reap" \in Pcs /\ "cancelled" \in Outcomes
    BY DEF Pcs, Outcomes
  <2>2. call' \in Calls /\ call'.pc = "reap" /\ call'.outcome = "cancelled"
    BY <1>1, <1>2, <1>3, <2>1, CallIsCancelled
  <2>3. /\ child' \in Children /\ child'.pc = child.pc
        /\ child.pc = "exited" \/ child'.killed
    BY <1>1, <1>3, ChildIsKilled
  <2>4. child.pc # "none"
    BY <1>3 DEF C!Suspended, Started
  <2> QED
    BY <1>1, <2>2, <2>3, <2>4 DEF ProcessTypes, Started, ProcessReaped
<1>4. CASE /\ call.pc = "reap" /\ child.pc # "exited" /\ child' = child
           /\ call' = [call EXCEPT !.pc = "done", !.outcome = "interrupted",
                                   !.cancels = @ + 1]
  <2>1. "done" \in Pcs /\ "interrupted" \in Outcomes
    BY DEF Pcs, Outcomes
  <2>2. call' \in Calls /\ call'.pc = "done" /\ call'.outcome = "interrupted"
    BY <1>1, <1>2, <1>4, <2>1, CallIsCancelled
  <2>3. child.killed
    BY <1>4 DEF Started
  <2> QED
    BY <1>1, <1>4, <2>2, <2>3 DEF ProcessTypes, Started, ProcessReaped
<1> QED
  BY <1>3, <1>4 DEF C!Cancel

LEMMA CommandStarts ==
    ASSUME CommandInv, C!Execute, callee' = callee
    PROVE  CommandInv'
<1> USE DEF CommandInv
<1>1. /\ call.pc = "idle" /\ call \in Calls /\ call.outcome = "none"
      /\ stored' = stored /\ stdout' = stdout /\ taken' = taken
      /\ taken = <<>> /\ stored = <<>> /\ child.pc = "none" /\ stderr.task = "none"
  BY DEF C!Execute, ProcessTypes, Started
<1>2. CASE C!Goto("drain") /\ C!Spawn /\ stderr' = [stderr EXCEPT !.task = "running"]
  <2>1. call' \in Calls /\ call'.pc = "drain" /\ call'.outcome = "none"
    BY <1>1, <1>2, CommandGoesOn DEF Pcs
  <2>2. child' \in Children /\ child'.pc = "running"
    BY <1>2, ChildIsSpawned
  <2>3. stderr' \in Readers
    BY <1>2 DEF ProcessTypes, Readers
  <2> QED
    BY <1>1, <2>1, <2>2, <2>3 DEF ProcessTypes, Started, ProcessReaped
<1>3. CASE /\ call' = [call EXCEPT !.pc = "done", !.outcome = "error"]
           /\ child' = child /\ stderr' = stderr
  <2>1. "done" \in Pcs /\ "error" \in Outcomes
    BY DEF Pcs, Outcomes
  <2>2. call' \in Calls /\ call'.pc = "done" /\ call'.outcome = "error"
    BY <1>1, <1>3, <2>1, CallEnds
  <2> QED
    BY <1>1, <1>3, <2>2 DEF ProcessTypes, Started, ProcessReaped
<1> QED
  BY <1>2, <1>3 DEF C!Execute

LEMMA CommandIsBeside ==
    ASSUME CommandInv, C!Expire \/ C!Beside(C!CollectStderr) \/ C!Beside(C!ProcessNext),
           callee' = callee
    PROVE  CommandInv'
<1> USE DEF CommandInv
<1>1. CASE C!Expire
  <2>1. /\ stored' = stored /\ child' = child /\ stdout' = stdout /\ taken' = taken
        /\ stderr' = stderr
    BY <1>1 DEF C!Expire, C!own
  <2>2. call' \in Calls /\ call'.pc = call.pc /\ call'.outcome = call.outcome
    BY <1>1, CallIsLate DEF C!Expire, ProcessTypes
  <2>3. C!ResultIsEarned'
    BY <2>1, <2>2, EarnedStaysEarned
  <2> QED
    BY <2>1, <2>2, <2>3
       DEF ProcessTypes, Started, ProcessReaped, Kept, C!HasResult
<1>2. CASE C!Beside(C!CollectStderr) \/ C!Beside(C!ProcessNext)
  <2>1. call' = call /\ stored' = stored /\ (C!CollectStderr \/ C!ProcessNext)
    BY <1>2 DEF C!Beside
  <2>2. /\ child' \in Children /\ stderr' \in Readers
        /\ stdout' \in Seq(C!Lines) /\ taken' = taken
        /\ child.pc \in {"silent", "exited"} =>
              stdout' = stdout /\ child'.pc \in {"silent", "exited"}
        /\ child.pc = "exited" => child'.pc = "exited" /\ child'.code = child.code
        /\ child.pc = "none" <=> child'.pc = "none"
        /\ child'.killed = child.killed
        /\ stderr.task # "running" => stderr' = stderr
    BY <2>1, BesideKeeps
  <2>3. C!ResultIsEarned'
    BY <2>1, <2>2, EarnedStaysEarned
  <2>4. ProcessTypes' /\ Started'
    BY <2>1, <2>2 DEF ProcessTypes, Started
  <2>5. ProcessReaped'
    BY <2>1, <2>2 DEF ProcessReaped
  <2> QED
    BY <2>1, <2>2, <2>3, <2>4, <2>5 DEF Kept, C!HasResult
<1> QED
  BY <1>1, <1>2

LEMMA CommandKeeps ==
    ASSUME CommandInv, CommandStep
    PROVE  CommandInv'
  BY CommandStarts, CommandDrains, CommandReads, CommandEmits, CommandWaits,
     CommandConcludes, CommandReaps, CommandIsCancelled, CommandIsBeside
     DEF CommandStep, C!Next, C!Running

-----------------------------------------------------------------------------
(* The script grader                                                       *)

\* A grader that nobody has killed is listened to until it has a verdict.
ScriptInv ==
    /\ ProcessTypes
    /\ Started
    /\ call.pc \in {"idle", "drain"} => stderr.task = "none" /\ taken = <<>>
    /\ call.pc \in {"reap", "done"} => stderr.task # "running"
    /\ call.pc \notin {"reap", "done"} => ~child.killed
    /\ call.outcome = "result" => G!VerdictIsEarned /\ call.pc \in {"reap", "done"}
    /\ callee = "script"
    /\ ProcessReaped

LEMMA ScriptFinishes ==
    ASSUME ScriptInv, NEW o \in Outcomes \ {"none", "result"},
           G!Finish(o), call.pc \notin {"idle", "done"},
           stdout' \in Seq(C!Lines), taken' \in Seq(C!Lines), callee' = callee
    PROVE  ScriptInv'
<1>1. child' \in Children /\ child'.pc = child.pc /\ (child.pc = "exited" \/ child'.killed)
  BY ChildIsKilled DEF ScriptInv, ProcessTypes, G!Finish, G!Kill, C!Kill
<1>2. call' \in Calls /\ call'.pc = "reap" /\ call'.outcome = o
  <2>1. call \in Calls /\ "reap" \in Pcs /\ o \in Outcomes
    BY DEF ScriptInv, ProcessTypes, Pcs
  <2>2. call' = [call EXCEPT !.pc = "reap", !.outcome = o]
    BY DEF G!Finish
  <2> QED
    BY <2>1, <2>2, CallEnds
<1>3. stderr' \in Readers /\ stderr'.task # "running"
  BY ReaderEnds DEF ScriptInv, ProcessTypes, G!Finish
<1>4. child.pc # "none"
  BY DEF ScriptInv, Started
<1>5. ProcessTypes'
  BY <1>1, <1>2, <1>3 DEF ScriptInv, ProcessTypes
<1> QED
  BY <1>1, <1>2, <1>3, <1>4, <1>5 DEF ScriptInv, Started, ProcessReaped

LEMMA ScriptStarts ==
    ASSUME ScriptInv, G!Evaluate, callee' = callee
    PROVE  ScriptInv'
<1> USE DEF ScriptInv
<1>1. /\ call.pc = "idle" /\ call \in Calls /\ call.outcome = "none"
      /\ stdout' = stdout /\ taken' = taken /\ stderr' = stderr
      /\ taken = <<>> /\ child.pc = "none" /\ stderr.task = "none"
  BY DEF G!Evaluate, G!pipes, ProcessTypes, Started
<1>2. CASE call' = [call EXCEPT !.pc = "drain"] /\ G!Spawn
  <2>1. call' \in Calls /\ call'.pc = "drain" /\ call'.outcome = "none"
    BY <1>1, <1>2, CallGoesOn DEF Pcs
  <2>2. child' \in Children /\ child'.pc = "running" /\ ~child'.killed
    BY <1>2, SizeAssumption DEF G!Spawn, G!NoChild, Children
  <2> QED
    BY <1>1, <2>1, <2>2 DEF ProcessTypes, Started, ProcessReaped
<1>3. CASE call' = [call EXCEPT !.pc = "done", !.outcome = "error"] /\ child' = child
  <2>1. "done" \in Pcs /\ "error" \in Outcomes
    BY DEF Pcs, Outcomes
  <2>2. call' \in Calls /\ call'.pc = "done" /\ call'.outcome = "error"
    BY <1>1, <1>3, <2>1, CallEnds
  <2> QED
    BY <1>1, <1>3, <2>2 DEF ProcessTypes, Started, ProcessReaped
<1>4. CASE call' = [call EXCEPT !.pc = "done", !.outcome = "unsent"] /\ G!Spawn
  <2>1. "done" \in Pcs /\ "unsent" \in Outcomes
    BY DEF Pcs, Outcomes
  <2>2. call' \in Calls /\ call'.pc = "done" /\ call'.outcome = "unsent"
    BY <1>1, <1>4, <2>1, CallEnds
  <2>3. child' \in Children
    BY <1>4, SizeAssumption DEF G!Spawn, G!NoChild, Children
  <2> QED
    BY <1>1, <2>2, <2>3 DEF ProcessTypes, Started, ProcessReaped
<1> QED
  BY <1>2, <1>3, <1>4 DEF G!Evaluate

LEMMA ScriptDrains ==
    ASSUME ScriptInv, G!Drain, callee' = callee
    PROVE  ScriptInv'
<1> USE DEF ScriptInv
<1>1. /\ call.pc = "drain" /\ stdout' = stdout /\ taken' = taken
      /\ call \in Calls /\ call.outcome = "none" /\ child.pc # "none" /\ ~child.killed
  BY DEF G!Drain, ProcessTypes, Started
<1>2. CASE /\ call' = [call EXCEPT !.pc = "gather"] /\ child' = child
           /\ stderr' = [stderr EXCEPT !.task = "running"]
  <2>1. call' \in Calls /\ call'.pc = "gather" /\ call'.outcome = "none"
    BY <1>1, <1>2, CallGoesOn DEF Pcs
  <2>2. stderr' \in Readers
    BY <1>2 DEF ProcessTypes, Readers
  <2> QED
    BY <1>1, <1>2, <2>1, <2>2 DEF ProcessTypes, Started, ProcessReaped
<1>3. CASE G!Finish("error")
  <2>1. "error" \in Outcomes \ {"none", "result"}
    BY DEF Outcomes
  <2> QED
    BY <1>1, <1>3, <2>1, ScriptFinishes DEF ProcessTypes
<1> QED
  BY <1>2, <1>3 DEF G!Drain

LEMMA ScriptReads ==
    ASSUME ScriptInv, G!Read, callee' = callee
    PROVE  ScriptInv'
<1> USE DEF ScriptInv
<1>1. /\ call.pc = "gather" /\ stdout \in Seq(C!Lines) /\ stdout # <<>>
      /\ taken \in Seq(C!Lines)
      /\ taken' = Append(taken, Head(stdout)) /\ stdout' = Tail(stdout)
      /\ G!Finish("error") \/ (call' = call /\ child' = child /\ stderr' = stderr)
  BY DEF G!Read, ProcessTypes
<1>2. taken' \in Seq(C!Lines) /\ stdout' \in Seq(C!Lines)
  BY <1>1
<1>3. CASE G!Finish("error")
  <2>1. "error" \in Outcomes \ {"none", "result"}
    BY DEF Outcomes
  <2> QED
    BY <1>1, <1>2, <1>3, <2>1, ScriptFinishes
<1>4. CASE call' = call /\ child' = child /\ stderr' = stderr
  BY <1>1, <1>2, <1>4 DEF ProcessTypes, Started, ProcessReaped
<1> QED
  BY <1>1, <1>3, <1>4

LEMMA ScriptFails ==
    ASSUME ScriptInv, G!ErrorsExceed \/ G!TimesOut, callee' = callee
    PROVE  ScriptInv'
<1>1. PICK o \in {"error", "timeout"} : G!Finish(o)
  BY DEF G!ErrorsExceed, G!TimesOut
<1>2. o \in Outcomes \ {"none", "result"}
  BY DEF Outcomes
<1> QED
  BY <1>1, <1>2, ScriptFinishes DEF G!ErrorsExceed, G!TimesOut, ScriptInv, ProcessTypes

(* A verdict is taken only now.                                            *)
LEMMA ScriptConcludes ==
    ASSUME ScriptInv, G!Gathered, callee' = callee
    PROVE  ScriptInv'
<1> USE DEF ScriptInv
<1> DEFINE o == IF child.code = 0 /\ taken = <<"result">> THEN "result" ELSE "error"
<1>1. /\ call.pc = "gather" /\ stdout' = stdout /\ taken' = taken /\ stdout = <<>>
      /\ stderr.task = "ended" /\ ~stderr.exceeded /\ child.pc = "exited" /\ G!Finish(o)
  BY DEF G!Gathered
<1>2. o \in {"error", "result"} /\ (o = "result" => child.code = 0 /\ taken = <<"result">>)
  OBVIOUS
<1> HIDE DEF o
<1>3. CASE o = "error"
  <2>1. "error" \in Outcomes \ {"none", "result"}
    BY DEF Outcomes
  <2> QED
    BY <1>1, <1>3, <2>1, ScriptFinishes DEF ProcessTypes
<1>4. CASE o = "result"
  <2>1. call' \in Calls /\ call'.pc = "reap" /\ call'.outcome = "result"
    <3>1. "reap" \in Pcs /\ "result" \in Outcomes /\ call \in Calls
      BY DEF Pcs, Outcomes, ProcessTypes
    <3>2. call' = [call EXCEPT !.pc = "reap", !.outcome = "result"]
      BY <1>1, <1>4 DEF G!Finish
    <3> QED
      BY <3>1, <3>2, CallEnds
  <2>2. /\ child' \in Children /\ child'.pc = "exited" /\ child'.code = 0
        /\ ~child'.killed
    BY <1>1, <1>2, <1>4, ChildIsKilled DEF ProcessTypes, G!Finish, G!Kill, C!Kill
  <2>3. stderr' \in Readers /\ stderr'.task # "running" /\ ~stderr'.exceeded
    BY <1>1, ReaderEnds DEF ProcessTypes, G!Finish
  <2>4. G!VerdictIsEarned'
    BY <1>1, <1>2, <1>4, <2>2, <2>3 DEF G!VerdictIsEarned
  <2> QED
    BY <1>1, <2>1, <2>2, <2>3, <2>4 DEF ProcessTypes, Started, ProcessReaped
<1> QED
  BY <1>2, <1>3, <1>4

LEMMA VerdictStaysEarned ==
    ASSUME ScriptInv, taken' = taken,
           call'.outcome = "result" => call.outcome = "result",
           child.pc = "exited" =>
               /\ child'.pc = "exited" /\ child'.code = child.code
               /\ child'.killed = child.killed
               /\ stdout' = stdout /\ stderr'.exceeded = stderr.exceeded
    PROVE  G!VerdictIsEarned'
  BY DEF ScriptInv, G!VerdictIsEarned

LEMMA ScriptReaps ==
    ASSUME ScriptInv, G!Reap, callee' = callee
    PROVE  ScriptInv'
<1> USE DEF ScriptInv
<1>1. /\ call.pc = "reap" /\ child.pc = "exited" /\ call' = [call EXCEPT !.pc = "done"]
      /\ child' = child /\ stdout' = stdout /\ taken' = taken /\ stderr' = stderr
  BY DEF G!Reap, G!own
<1>2. call' \in Calls /\ call'.pc = "done" /\ call'.outcome = call.outcome
  BY <1>1, CallGoesOn DEF Pcs, ProcessTypes
<1>3. G!VerdictIsEarned'
  BY <1>1, <1>2, VerdictStaysEarned
<1> QED
  BY <1>1, <1>2, <1>3 DEF ProcessTypes, Started, ProcessReaped

LEMMA ScriptIsCancelled ==
    ASSUME ScriptInv, G!Cancel, callee' = callee
    PROVE  ScriptInv'
<1> USE DEF ScriptInv
<1>1. stdout' = stdout /\ taken' = taken /\ call \in Calls /\ child \in Children
  BY DEF G!Cancel, ProcessTypes
<1>2. CASE /\ call.pc \in {"drain", "gather"} /\ G!Kill
           /\ call' = [call EXCEPT !.pc = "reap", !.outcome = "cancelled", !.cancels = @ + 1]
           /\ stderr' = [stderr EXCEPT !.task = IF @ = "running" THEN "cancelled" ELSE @]
  <2>1. "reap" \in Pcs /\ "cancelled" \in Outcomes
    BY DEF Pcs, Outcomes
  <2>2. call' \in Calls /\ call'.pc = "reap" /\ call'.outcome = "cancelled"
    BY <1>1, <1>2, <2>1, CallIsCancelled
  <2>3. /\ child' \in Children /\ child'.pc = child.pc
        /\ child.pc = "exited" \/ child'.killed
    BY <1>1, <1>2, ChildIsKilled DEF G!Kill, C!Kill
  <2>4. stderr' \in Readers /\ stderr'.task # "running"
    BY <1>2, ReaderEnds DEF ProcessTypes
  <2>5. child.pc # "none"
    BY <1>2 DEF Started
  <2> QED
    BY <1>1, <2>2, <2>3, <2>4, <2>5 DEF ProcessTypes, Started, ProcessReaped
<1>3. CASE /\ call.pc = "reap" /\ child.pc # "exited" /\ child' = child /\ stderr' = stderr
           /\ call' = [call EXCEPT !.pc = "done", !.outcome = "interrupted",
                                   !.cancels = @ + 1]
  <2>1. "done" \in Pcs /\ "interrupted" \in Outcomes
    BY DEF Pcs, Outcomes
  <2>2. call' \in Calls /\ call'.pc = "done" /\ call'.outcome = "interrupted"
    BY <1>1, <1>3, <2>1, CallIsCancelled
  <2>3. child.killed
    BY <1>3 DEF Started
  <2> QED
    BY <1>1, <1>3, <2>2, <2>3 DEF ProcessTypes, Started, ProcessReaped
<1> QED
  BY <1>2, <1>3 DEF G!Cancel

LEMMA ScriptIsBeside ==
    ASSUME ScriptInv, G!Expire \/ G!Beside(G!CollectStderr) \/ G!Beside(G!ProcessNext),
           callee' = callee
    PROVE  ScriptInv'
<1> USE DEF ScriptInv
<1>1. CASE G!Expire
  <2>1. child' = child /\ stdout' = stdout /\ taken' = taken /\ stderr' = stderr
    BY <1>1 DEF G!Expire, G!own
  <2>2. call' \in Calls /\ call'.pc = call.pc /\ call'.outcome = call.outcome
    BY <1>1, CallIsLate DEF G!Expire, ProcessTypes
  <2>3. G!VerdictIsEarned'
    BY <2>1, <2>2, VerdictStaysEarned
  <2> QED
    BY <2>1, <2>2, <2>3 DEF ProcessTypes, Started, ProcessReaped
<1>2. CASE G!Beside(G!CollectStderr) \/ G!Beside(G!ProcessNext)
  <2>1. call' = call /\ (C!CollectStderr \/ C!ProcessNext)
    <3>1. G!CollectStderr => C!CollectStderr
      BY DEF G!CollectStderr, C!CollectStderr, G!Eof, C!Eof
    <3>2. G!ProcessNext => C!ProcessNext
      BY DEF G!ProcessNext, C!ProcessNext, G!ChildReads, C!ChildReads,
             G!ChildComplains, C!ChildComplains, G!ChildCloses, C!ChildCloses,
             G!ChildExits, C!ChildExits, G!HeirsExit, C!HeirsExit,
             G!ChildWrites, C!ChildWrites, G!Lines, C!Lines
    <3> QED
      BY <1>2, <3>1, <3>2 DEF G!Beside
  <2>2. /\ child' \in Children /\ stderr' \in Readers
        /\ stdout' \in Seq(C!Lines) /\ taken' = taken
        /\ child.pc \in {"silent", "exited"} =>
              stdout' = stdout /\ child'.pc \in {"silent", "exited"}
        /\ child.pc = "exited" => child'.pc = "exited" /\ child'.code = child.code
        /\ child.pc = "none" <=> child'.pc = "none"
        /\ child'.killed = child.killed
        /\ stderr.task # "running" => stderr' = stderr
        /\ child.pc = "exited" => stderr'.exceeded = stderr.exceeded
    BY <2>1, BesideKeeps
  <2>3. G!VerdictIsEarned'
    BY <2>1, <2>2, VerdictStaysEarned
  <2>4. ProcessTypes' /\ Started'
    BY <2>1, <2>2 DEF ProcessTypes, Started
  <2>5. ProcessReaped'
    BY <2>1, <2>2 DEF ProcessReaped
  <2> QED
    BY <2>1, <2>2, <2>3, <2>4, <2>5
<1> QED
  BY <1>1, <1>2

LEMMA ScriptKeeps ==
    ASSUME ScriptInv, ScriptStep
    PROVE  ScriptInv'
  BY ScriptStarts, ScriptDrains, ScriptReads, ScriptFails, ScriptConcludes, ScriptReaps,
     ScriptIsCancelled, ScriptIsBeside
     DEF ScriptStep, G!Next, G!Running

-----------------------------------------------------------------------------
(* The DSH harness                                                         *)

Threads == [pc : {"none", "running", "blocked", "returned", "raised"}, next : Nat \ {0}]
Sdks    == [owned : BOOLEAN, closable : BOOLEAN, closed : BOOLEAN]

DshTypes ==
    /\ call \in Calls
    /\ sdk \in Sdks
    /\ thread \in Threads
    /\ flight \in SUBSET Nat
    /\ stored \in Seq(Nat)

Increasing(s) == \A i, j \in DOMAIN s : i < j => s[i] < s[j]
Members(s)    == {s[i] : i \in DOMAIN s}

\* Until a cancellation at most the emit the thread waits for is in flight,
\* and the sink has the others, but those it refused.
Backpressure ==
    /\ flight = IF thread.pc = "blocked" THEN {thread.next} ELSE {}
    /\ lost \subseteq 1 .. thread.next - 1
    /\ Increasing(stored)
    /\ Members(stored) = 1 .. thread.next - 1 \ lost

\* How far the runtime is closed.
Closing ==
    /\ call.pc \in Pcs \ {"drain", "read", "emit", "wait", "stderr", "reap", "gather"}
    /\ call.pc \in {"idle", "run"} => call.cancels = 0
    /\ call.pc \in {"idle", "run", "close", "quiesce"} => call.outcome = "none"
    /\ call.pc = "quiesce" => sdk.closed
    /\ call.pc = "final" => ~D!Active \/ waived # ""
    /\ call.pc = "idle" => thread.pc = "none"
    /\ call.pc \in {"run", "close", "quiesce", "final"} => thread.pc # "none"

DshInv ==
    /\ DshTypes
    /\ Closing
    /\ call.cancels = 0 => Backpressure
    /\ call.outcome = "result" => call.cancels = 0 /\ thread.pc = "returned"
    /\ callee = "dsh"
    /\ D!WorkerQuiet

LEMMA SdkCloses ==
    ASSUME sdk \in Sdks, sdk' = [sdk EXCEPT !.closed = TRUE]
    PROVE  sdk' \in Sdks /\ sdk'.closed /\ sdk'.owned = sdk.owned
  BY DEF Sdks

LEMMA ThreadMoves ==
    ASSUME thread \in Threads, NEW p \in {"running", "blocked", "returned", "raised"},
           thread' = [thread EXCEPT !.pc = p]
    PROVE  thread' \in Threads /\ thread'.pc = p /\ thread'.next = thread.next
  BY DEF Threads

(* One more event is stored.                                               *)
LEMMA StoredInOrder ==
    ASSUME stored \in Seq(Nat), NEW n \in Nat \ {0}, lost \subseteq 1 .. n - 1,
           Increasing(stored), Members(stored) = 1 .. n - 1 \ lost
    PROVE  Increasing(Append(stored, n)) /\ Members(Append(stored, n)) = 1 .. n \ lost
<1> DEFINE t == Append(stored, n)
<1>1. /\ Len(stored) \in Nat /\ DOMAIN stored = 1 .. Len(stored)
      /\ DOMAIN t = 1 .. Len(stored) + 1 /\ t[Len(stored) + 1] = n
      /\ \A i \in 1 .. Len(stored) : t[i] = stored[i] /\ stored[i] \in Nat
  OBVIOUS
<1> HIDE DEF t
<1>2. \A i \in DOMAIN stored : stored[i] \in 1 .. n - 1 \ lost
  BY DEF Members
<1>3. Increasing(t)
  <2> SUFFICES ASSUME NEW i \in DOMAIN t, NEW j \in DOMAIN t, i < j
               PROVE  t[i] < t[j]
    BY DEF Increasing
  <2>1. i \in 1 .. Len(stored) /\ t[i] = stored[i] /\ stored[i] \in 1 .. n - 1
    BY <1>1, <1>2
  <2>2. CASE j = Len(stored) + 1
    BY <1>1, <2>1, <2>2
  <2>3. CASE j # Len(stored) + 1
    <3>1. j \in 1 .. Len(stored) /\ t[j] = stored[j]
      BY <1>1, <2>3
    <3> QED
      BY <1>1, <2>1, <3>1 DEF Increasing
  <2> QED
    BY <2>2, <2>3
<1>4. Members(t) = 1 .. n \ lost
  <2>1. ASSUME NEW e \in Members(t)
        PROVE  e \in 1 .. n \ lost
    <3>1. PICK i \in DOMAIN t : e = t[i]
      BY <2>1 DEF Members
    <3>2. CASE i = Len(stored) + 1
      BY <1>1, <3>1, <3>2
    <3>3. CASE i # Len(stored) + 1
      <4>1. i \in 1 .. Len(stored) /\ e = stored[i]
        BY <1>1, <3>1, <3>3
      <4> QED
        BY <1>1, <1>2, <4>1
    <3> QED
      BY <3>2, <3>3
  <2>2. ASSUME NEW e \in 1 .. n \ lost
        PROVE  e \in Members(t)
    <3>1. CASE e = n
      BY <1>1, <3>1 DEF Members
    <3>2. CASE e # n
      <4>1. e \in Members(stored)
        BY <2>2, <3>2
      <4>2. PICK i \in 1 .. Len(stored) : e = stored[i]
        BY <1>1, <4>1 DEF Members
      <4> QED
        BY <1>1, <4>2 DEF Members
    <3> QED
      BY <3>1, <3>2
  <2> QED
    BY <2>1, <2>2
<1> QED
  BY <1>3, <1>4 DEF t

(* Steps of execute leave the thread, its emits and the sink alone.        *)
LEMMA CallStepKeeps ==
    ASSUME DshInv, thread' = thread, flight' = flight, lost' = lost, stored' = stored
    PROVE  /\ Backpressure' <=> Backpressure
           /\ D!Active' <=> D!Active
  BY DEF Backpressure, D!Active, Increasing, Members

LEMMA DshStarts ==
    ASSUME DshInv, D!Execute, callee' = callee
    PROVE  DshInv'
<1> USE DEF DshInv
<1>1. /\ call.pc = "idle" /\ call \in Calls /\ call.outcome = "none" /\ call.cancels = 0
      /\ stored' = stored /\ sdk' = sdk /\ flight' = flight /\ lost' = lost
      /\ waived' = waived /\ thread.pc = "none" /\ thread \in Threads /\ Backpressure
  BY DEF D!Execute, DshTypes, Closing
<1>2. CASE /\ call' = [call EXCEPT !.pc = "run"]
           /\ thread' = [thread EXCEPT !.pc = "running"]
  <2>1. call' \in Calls /\ call'.pc = "run" /\ call'.outcome = "none" /\ call'.cancels = 0
    BY <1>1, <1>2, CallGoesOn DEF Pcs
  <2>2. thread' \in Threads /\ thread'.pc = "running" /\ thread'.next = thread.next
    BY <1>1, <1>2, ThreadMoves
  <2>3. Backpressure'
    BY <1>1, <2>2 DEF Backpressure, Increasing, Members
  <2> QED
    BY <1>1, <2>1, <2>2, <2>3 DEF DshTypes, Closing, D!WorkerQuiet, Pcs
<1>3. CASE D!Finish("error") /\ thread' = thread
  <2>1. call' \in Calls /\ call'.pc = "done" /\ call'.outcome = "error"
        /\ call'.cancels = call.cancels
    <3>1. "done" \in Pcs /\ "error" \in Outcomes
      BY DEF Pcs, Outcomes
    <3> QED
      BY <1>1, <1>3, <3>1, CallEnds DEF D!Finish
  <2>2. Backpressure'
    BY <1>1, <1>3, CallStepKeeps
  <2> QED
    BY <1>1, <1>3, <2>1, <2>2 DEF DshTypes, Closing, D!WorkerQuiet, Pcs
<1> QED
  BY <1>2, <1>3 DEF D!Execute

(* The thread has ended before a cancellation: what it returned is the     *)
(* outcome.                                                                *)
LEMMA DshWorkerEnds ==
    ASSUME DshInv, D!WorkerEnds, callee' = callee
    PROVE  DshInv'
<1> USE DEF DshInv
<1> DEFINE o == IF thread.pc = "returned" THEN "result" ELSE "error"
           p == IF sdk.owned /\ sdk.closable THEN "final" ELSE "done"
<1>1. /\ call.pc = "run" /\ ~D!Active /\ call \in Calls /\ call.cancels = 0
      /\ stored' = stored /\ sdk' = sdk /\ thread' = thread /\ flight' = flight
      /\ lost' = lost /\ waived' = waived /\ thread.pc # "none"
  BY DEF D!WorkerEnds, D!own, DshTypes, Closing
<1>2. call' = [call EXCEPT !.pc = p, !.outcome = o]
  BY DEF D!WorkerEnds, D!End, DshTypes, Calls
<1>3. CASE p = "final"
  <2>1. /\ call' \in Calls /\ call'.pc = "final" /\ call'.outcome = o
        /\ call'.cancels = 0
    BY <1>1, <1>2, <1>3 DEF Calls, Pcs, Outcomes
  <2> QED
    BY <1>1, <2>1, CallStepKeeps DEF DshTypes, Closing, D!WorkerQuiet, Pcs
<1>4. CASE p = "done" /\ ~(sdk.owned /\ sdk.closable)
  <2>1. /\ call' \in Calls /\ call'.pc = "done" /\ call'.outcome = o
        /\ call'.cancels = 0
    BY <1>1, <1>2, <1>4 DEF Calls, Pcs, Outcomes
  <2>2. ~D!Active'
    BY <1>1, CallStepKeeps
  <2>3. D!WorkerQuiet'
    <3>1. ~(call'.cancels > 0)
      BY <2>1
    <3>2. ~(sdk'.owned /\ sdk'.closable)
      BY <1>1, <1>4
    <3> QED
      BY <2>2, <3>1, <3>2, Zenon DEF D!WorkerQuiet
  <2>4. Closing'
    BY <1>1, <2>1 DEF Closing, Pcs
  <2> QED
    BY <1>1, <2>1, <2>3, <2>4, CallStepKeeps DEF DshTypes
<1> QED
  BY <1>3, <1>4

LEMMA DshIsCancelled ==
    ASSUME DshInv, D!Cancel, callee' = callee
    PROVE  DshInv'
<1> USE DEF DshInv
<1>1. /\ stored' = stored /\ sdk' = sdk /\ thread' = thread /\ flight' = flight
      /\ lost' = lost /\ call \in Calls
  BY DEF D!Cancel, DshTypes
<1>2. call.cancels \in Nat
  BY <1>1 DEF Calls
<1>3. CASE D!CancelRun
  <2>1. call.pc = "run" /\ call.outcome = "none" /\ thread.pc # "none"
    BY <1>3 DEF D!CancelRun, Closing
  <2>2. CASE sdk.closable
    <3>1. /\ call' = [call EXCEPT !.pc = "close", !.outcome = "none", !.cancels = @ + 1]
          /\ waived' = waived
      BY <1>1, <1>3, <2>1, <2>2 DEF D!CancelRun, Calls
    <3>2. "close" \in Pcs /\ "none" \in Outcomes
      BY DEF Pcs, Outcomes
    <3>3. /\ call' \in Calls /\ call'.pc = "close" /\ call'.outcome = "none"
          /\ call'.cancels = call.cancels + 1
      BY <1>1, <3>1, <3>2, CallIsCancelled
    <3> QED
      BY <1>1, <1>2, <2>1, <3>1, <3>3 DEF DshTypes, Closing, D!WorkerQuiet, Pcs
  <2>3. CASE ~sdk.closable
    <3>1. /\ call' = [call EXCEPT !.pc = "done", !.outcome = "error", !.cancels = @ + 1]
          /\ waived' = "close"
      BY <1>3, <2>3 DEF D!CancelRun
    <3>2. "done" \in Pcs /\ "error" \in Outcomes
      BY DEF Pcs, Outcomes
    <3>3. /\ call' \in Calls /\ call'.pc = "done" /\ call'.outcome = "error"
          /\ call'.cancels = call.cancels + 1
      BY <1>1, <3>1, <3>2, CallIsCancelled
    <3>4. D!WorkerQuiet' /\ Closing'
      BY <3>1, <3>3 DEF Closing, D!WorkerQuiet, Pcs
    <3> QED
      BY <1>1, <1>2, <3>3, <3>4 DEF DshTypes
  <2> QED
    BY <2>2, <2>3
<1>4. CASE D!CancelAgain
  <2>1. PICK p \in {"final", "done"} :
           call' = [call EXCEPT !.pc = p, !.outcome = "cancelled", !.cancels = @ + 1]
    <3>1. CASE call.pc = "close" /\ sdk.owned
      BY <1>1, <1>4, <3>1 DEF D!CancelAgain, Calls
    <3>2. CASE ~(call.pc = "close" /\ sdk.owned)
      BY <1>1, <1>4, <3>2 DEF D!CancelAgain, Calls
    <3> QED
      BY <3>1, <3>2
  <2>2. waived' # "" /\ thread.pc # "none"
    BY <1>4 DEF D!CancelAgain, Closing
  <2>3. p \in Pcs /\ "cancelled" \in Outcomes
    BY DEF Pcs, Outcomes
  <2>4. /\ call' \in Calls /\ call'.pc = p /\ call'.outcome = "cancelled"
        /\ call'.cancels = call.cancels + 1
    BY <1>1, <2>1, <2>3, CallIsCancelled
  <2>5. D!WorkerQuiet' /\ Closing'
    BY <1>1, <2>2, <2>4 DEF Closing, D!WorkerQuiet, Pcs
  <2> QED
    BY <1>1, <1>2, <2>4, <2>5 DEF DshTypes
<1> QED
  BY <1>3, <1>4 DEF D!Cancel

LEMMA DshCloses ==
    ASSUME DshInv, D!CloseEnds \/ D!CloseFails, callee' = callee
    PROVE  DshInv'
<1> USE DEF DshInv
<1>1. /\ stored' = stored /\ thread' = thread /\ flight' = flight
      /\ lost' = lost /\ call \in Calls /\ sdk \in Sdks
      /\ call.pc \in {"close", "final"} /\ thread.pc # "none"
  BY DEF D!CloseEnds, D!CloseFails, DshTypes, Closing
<1>2. CASE D!CloseEnds
  <2>1. sdk' \in Sdks /\ sdk'.closed /\ waived' = waived
    BY <1>1, <1>2, SdkCloses DEF D!CloseEnds
  <2>2. CASE call.pc = "close"
    <3>1. call' = [call EXCEPT !.pc = "quiesce"] /\ call.outcome = "none"
      BY <1>2, <2>2 DEF D!CloseEnds, Closing
    <3>2. /\ call' \in Calls /\ call'.pc = "quiesce" /\ call'.outcome = "none"
          /\ call'.cancels = call.cancels
      BY <1>1, <3>1, CallGoesOn DEF Pcs
    <3> QED
      BY <1>1, <2>1, <3>2, CallStepKeeps DEF DshTypes, Closing, D!WorkerQuiet, Pcs
  <2>3. CASE call.pc = "final"
    <3>1. call' = [call EXCEPT !.pc = "done"]
      BY <1>2, <2>3 DEF D!CloseEnds
    <3>2. /\ call' \in Calls /\ call'.pc = "done" /\ call'.outcome = call.outcome
          /\ call'.cancels = call.cancels
      BY <1>1, <3>1, CallGoesOn DEF Pcs
    <3>3. ~D!Active' \/ waived' # ""
      BY <1>1, <2>1, <2>3, CallStepKeeps DEF Closing
    <3> QED
      BY <1>1, <2>1, <3>2, <3>3, CallStepKeeps DEF DshTypes, Closing, D!WorkerQuiet, Pcs
  <2> QED
    BY <1>1, <2>2, <2>3
<1>3. CASE D!CloseFails
  <2>1. PICK p \in {"final", "done"} : call' = [call EXCEPT !.pc = p, !.outcome = "error"]
    <3>1. CASE call.pc = "close" /\ sdk.owned
      BY <1>1, <1>3, <3>1 DEF D!CloseFails, Calls
    <3>2. CASE ~(call.pc = "close" /\ sdk.owned)
      BY <1>1, <1>3, <3>2 DEF D!CloseFails, Calls
    <3> QED
      BY <3>1, <3>2
  <2>2. waived' # "" /\ sdk' = sdk
    BY <1>3 DEF D!CloseFails
  <2>3. p \in Pcs /\ "error" \in Outcomes
    BY DEF Pcs, Outcomes
  <2>4. /\ call' \in Calls /\ call'.pc = p /\ call'.outcome = "error"
        /\ call'.cancels = call.cancels
    BY <1>1, <2>1, <2>3, CallEnds
  <2> QED
    BY <1>1, <2>2, <2>4, CallStepKeeps DEF DshTypes, Closing, D!WorkerQuiet, Pcs
<1> QED
  BY <1>2, <1>3

LEMMA DshQuiesces ==
    ASSUME DshInv, D!Quiesce \/ D!QuiesceTimesOut, callee' = callee
    PROVE  DshInv'
<1> USE DEF DshInv
<1>1. /\ stored' = stored /\ thread' = thread /\ flight' = flight /\ sdk' = sdk
      /\ lost' = lost /\ call \in Calls /\ call.pc = "quiesce" /\ sdk.closed
      /\ call' = [call EXCEPT !.pc = "done", !.outcome = "cancelled"]
      /\ waived' # "" \/ ~D!Active
  BY DEF D!Quiesce, D!QuiesceTimesOut, D!own, D!Finish, DshTypes, Closing
<1>2. "done" \in Pcs /\ "cancelled" \in Outcomes
  BY DEF Pcs, Outcomes
<1>3. /\ call' \in Calls /\ call'.pc = "done" /\ call'.outcome = "cancelled"
      /\ call'.cancels = call.cancels
  BY <1>1, <1>2, CallEnds
<1> QED
  BY <1>1, <1>3, CallStepKeeps DEF DshTypes, Closing, D!WorkerQuiet, Pcs

LEMMA DshExpires ==
    ASSUME DshInv, D!Expire, callee' = callee
    PROVE  DshInv'
<1> USE DEF DshInv
<1>1. /\ stored' = stored /\ thread' = thread /\ flight' = flight /\ sdk' = sdk
      /\ lost' = lost /\ waived' = waived
  BY DEF D!Expire, D!own
<1>2. /\ call' \in Calls /\ call'.pc = call.pc /\ call'.outcome = call.outcome
      /\ call'.cancels = call.cancels
  BY CallIsLate DEF D!Expire, DshTypes
<1> QED
  BY <1>1, <1>2, CallStepKeeps DEF DshTypes, Closing, D!WorkerQuiet

(* Whatever the thread does, what a cancellation left to be done is the    *)
(* same, if it does not come back to life.                                 *)
LEMMA ThreadStepKeeps ==
    ASSUME DshInv, call' = call, sdk' = sdk, waived' = waived, callee' = callee,
           thread' \in Threads, flight' \in SUBSET Nat, stored' \in Seq(Nat),
           D!Active' => D!Active,
           thread.pc = "none" <=> thread'.pc = "none",
           thread.pc = "returned" => thread'.pc = "returned",
           call.cancels = 0 => Backpressure'
    PROVE  DshInv'
  BY DEF DshInv, DshTypes, Closing, D!WorkerQuiet

LEMMA DshNotifies ==
    ASSUME DshInv, D!Notify, callee' = callee
    PROVE  DshInv'
<1>1. /\ thread.pc = "running" /\ thread \in Threads /\ flight' = flight \cup {thread.next}
      /\ thread' = [thread EXCEPT !.pc = "blocked"]
      /\ call' = call /\ stored' = stored /\ sdk' = sdk /\ lost' = lost /\ waived' = waived
  BY DEF D!Notify, DshInv, DshTypes
<1>2. thread' \in Threads /\ thread'.pc = "blocked" /\ thread'.next = thread.next
  BY <1>1, ThreadMoves
<1>3. flight' \in SUBSET Nat /\ stored' \in Seq(Nat) /\ D!Active
  BY <1>1 DEF DshInv, DshTypes, Threads, D!Active
<1>4. call.cancels = 0 => Backpressure'
  BY <1>1, <1>2 DEF DshInv, Backpressure, Increasing, Members
<1> QED
  BY <1>1, <1>2, <1>3, <1>4, ThreadStepKeeps

LEMMA DshThreadEnds ==
    ASSUME DshInv, D!ThreadEnds, callee' = callee
    PROVE  DshInv'
<1>1. PICK p \in {"returned", "raised"} : thread' = [thread EXCEPT !.pc = p]
  BY DEF D!ThreadEnds
<1>2. /\ thread.pc = "running" /\ thread \in Threads
      /\ call' = call /\ stored' = stored /\ sdk' = sdk /\ lost' = lost /\ waived' = waived
      /\ flight' = flight
  BY DEF D!ThreadEnds, DshInv, DshTypes
<1>3. thread' \in Threads /\ thread'.pc = p /\ thread'.next = thread.next
  BY <1>1, <1>2, ThreadMoves
<1>4. flight' \in SUBSET Nat /\ stored' \in Seq(Nat) /\ ~D!Active'
  BY <1>2, <1>3 DEF DshInv, DshTypes, D!Active
<1>5. call.cancels = 0 => Backpressure'
  BY <1>2, <1>3 DEF DshInv, Backpressure, Increasing, Members
<1> QED
  BY <1>2, <1>3, <1>4, <1>5, ThreadStepKeeps

(* Only after a cancellation.                                              *)
LEMMA DshNotifyTimesOut ==
    ASSUME DshInv, D!NotifyTimesOut, callee' = callee
    PROVE  DshInv'
<1>1. PICK p \in {"running", "raised"} : thread' = [pc |-> p, next |-> thread.next + 1]
  BY DEF D!NotifyTimesOut
<1>2. /\ thread.pc = "blocked" /\ thread \in Threads /\ call.cancels > 0
      /\ call' = call /\ stored' = stored /\ sdk' = sdk /\ lost' = lost /\ waived' = waived
      /\ flight' = flight /\ call.cancels \in Nat
  BY DEF D!NotifyTimesOut, DshInv, DshTypes, Calls
<1>3. thread' \in Threads /\ thread'.pc = p
  BY <1>1, <1>2 DEF Threads
<1>4. flight' \in SUBSET Nat /\ stored' \in Seq(Nat) /\ D!Active
  BY <1>2 DEF DshInv, DshTypes, D!Active
<1> QED
  BY <1>2, <1>3, <1>4, ThreadStepKeeps

(* The end of an emit wakes up the thread, or nobody.                      *)
LEMMA ThreadIsReleased ==
    ASSUME thread \in Threads, NEW e \in Nat
    PROVE  \/ D!Released(e) = thread
           \/ /\ thread.pc = "blocked" /\ thread.next = e
              /\ D!Released(e) = [pc |-> "running", next |-> e + 1]
  BY DEF Threads, D!Released

LEMMA BlockedIsReleased ==
    ASSUME DshInv, NEW e \in flight, call.cancels = 0
    PROVE  /\ thread.pc = "blocked" /\ e = thread.next
           /\ D!Released(e) = [pc |-> "running", next |-> e + 1]
  BY DEF DshInv, DshTypes, Threads, Backpressure, D!Released

LEMMA DshEmitStores ==
    ASSUME DshInv, NEW e \in flight, D!EmitStores(e), callee' = callee
    PROVE  DshInv'
<1>1. /\ stored' = Append(stored, e) /\ flight' = flight \ {e} /\ thread' = D!Released(e)
      /\ call' = call /\ sdk' = sdk /\ lost' = lost /\ waived' = waived
      /\ e \in Nat /\ thread \in Threads /\ stored \in Seq(Nat)
  BY DEF D!EmitStores, DshInv, DshTypes
<1>2. \/ thread' = thread
      \/ thread.pc = "blocked" /\ thread' = [pc |-> "running", next |-> e + 1]
  BY <1>1, ThreadIsReleased
<1>3. /\ thread' \in Threads
      /\ D!Active' => D!Active
      /\ thread.pc = "none" <=> thread'.pc = "none"
      /\ thread.pc = "returned" => thread'.pc = "returned"
  BY <1>1, <1>2 DEF Threads, D!Active
<1>4. flight' \in SUBSET Nat /\ stored' \in Seq(Nat)
  BY <1>1 DEF DshInv, DshTypes
<1>5. call.cancels = 0 => Backpressure'
  <2> SUFFICES ASSUME call.cancels = 0 PROVE Backpressure'
    OBVIOUS
  <2>1. e = thread.next /\ thread.pc = "blocked"
        /\ thread' = [pc |-> "running", next |-> e + 1]
    BY <1>1, BlockedIsReleased
  <2>2. Backpressure /\ e \in Nat \ {0}
    BY <1>1, <2>1 DEF DshInv, Threads
  <2>3. /\ Increasing(Append(stored, e)) /\ Members(Append(stored, e)) = 1 .. e \ lost
    <3>1. /\ lost \subseteq 1 .. e - 1
          /\ Increasing(stored) /\ Members(stored) = 1 .. e - 1 \ lost
      BY <2>1, <2>2 DEF Backpressure
    <3> QED
      BY <1>1, <2>2, <3>1, StoredInOrder
  <2>4. flight' = {}
    BY <1>1, <2>1, <2>2 DEF Backpressure
  <2>5. thread'.pc = "running" /\ thread'.next - 1 = e /\ lost' \subseteq 1 .. e
    BY <1>1, <2>1, <2>2 DEF Backpressure
  <2>6. Increasing(stored') /\ Members(stored') = 1 .. e \ lost'
    BY <1>1, <2>3
  <2> QED
    BY <2>4, <2>5, <2>6 DEF Backpressure, Increasing, Members
<1> QED
  BY <1>1, <1>3, <1>4, <1>5, ThreadStepKeeps

LEMMA DshEmitRaises ==
    ASSUME DshInv, NEW e \in flight, D!EmitRaises(e), callee' = callee
    PROVE  DshInv'
<1>1. /\ flight' = flight \ {e} /\ lost' = lost \cup {e}
      /\ call' = call /\ sdk' = sdk /\ stored' = stored /\ waived' = waived
      /\ e \in Nat /\ thread \in Threads /\ stored \in Seq(Nat)
  BY DEF D!EmitRaises, DshInv, DshTypes
<1>2. \/ thread' = thread
      \/ /\ thread.pc = "blocked" /\ thread.next = e
         /\ \E p \in {"running", "raised"} : thread' = [pc |-> p, next |-> e + 1]
  BY <1>1, ThreadIsReleased DEF D!EmitRaises
<1>3. /\ thread' \in Threads
      /\ D!Active' => D!Active
      /\ thread.pc = "none" <=> thread'.pc = "none"
      /\ thread.pc = "returned" => thread'.pc = "returned"
  BY <1>1, <1>2 DEF Threads, D!Active
<1>4. flight' \in SUBSET Nat /\ stored' \in Seq(Nat)
  BY <1>1 DEF DshInv, DshTypes
<1>5. call.cancels = 0 => Backpressure'
  <2> SUFFICES ASSUME call.cancels = 0 PROVE Backpressure'
    OBVIOUS
  <2>1. /\ e = thread.next /\ thread.pc = "blocked"
        /\ D!Released(e) = [pc |-> "running", next |-> e + 1]
    BY BlockedIsReleased
  <2>2. PICK p \in {"running", "raised"} : thread' = [pc |-> p, next |-> e + 1]
    BY <2>1 DEF D!EmitRaises
  <2>3. Backpressure /\ e \in Nat \ {0}
    BY <1>1, <2>1 DEF DshInv, Threads
  <2>4. flight' = {} /\ thread'.pc = p /\ thread'.next - 1 = e /\ lost' \subseteq 1 .. e
    <3>1. lost \subseteq 1 .. e - 1 /\ flight = {e}
      BY <2>1, <2>3 DEF Backpressure
    <3>2. thread'.pc = p /\ thread'.next = e + 1
      BY <2>2
    <3> QED
      BY <1>1, <2>3, <3>1, <3>2
  <2>5. Members(stored) = 1 .. e \ lost'
    BY <1>1, <2>1, <2>3 DEF Backpressure
  <2>6. Increasing(stored') /\ Members(stored') = 1 .. e \ lost'
    BY <1>1, <2>3, <2>5 DEF Backpressure
  <2> QED
    BY <2>4, <2>6 DEF Backpressure, Increasing, Members
<1> QED
  BY <1>1, <1>3, <1>4, <1>5, ThreadStepKeeps

LEMMA DshKeeps ==
    ASSUME DshInv, DshStep
    PROVE  DshInv'
  BY DshStarts, DshWorkerEnds, DshIsCancelled, DshCloses, DshQuiesces, DshExpires,
     DshNotifies, DshThreadEnds, DshNotifyTimesOut, DshEmitStores, DshEmitRaises
     DEF DshStep, D!Next, D!Running, D!Sdk

-----------------------------------------------------------------------------
(* The three together                                                      *)

IInv == CommandInv \/ ScriptInv \/ DshInv

LEMMA InitHolds == Init => IInv
<1> SUFFICES ASSUME Init PROVE IInv
  OBVIOUS
<1>1. /\ callee \in {"command", "dsh", "script"} /\ stored = <<>>
      /\ call = [pc |-> "idle", outcome |-> "none", late |-> FALSE, cancels |-> 0]
      /\ child = [pc |-> "none", code |-> 0, killed |-> FALSE, unread |-> 0, heirs |-> {}]
      /\ stdout = <<>> /\ taken = <<>> /\ stderr = [task |-> "none", exceeded |-> FALSE]
  BY DEF Init, C!Idle, C!Init, C!NoChild
<1>2. call \in Calls /\ child \in Children /\ stderr \in Readers
  BY <1>1 DEF Calls, Pcs, Outcomes, Children, Readers
<1>3. ProcessTypes /\ Started
  BY <1>1, <1>2 DEF ProcessTypes, Started
<1>4. CASE callee = "command"
  BY <1>1, <1>3, <1>4 DEF IInv, CommandInv, ProcessReaped
<1>5. CASE callee = "script"
  BY <1>1, <1>3, <1>5 DEF IInv, ScriptInv, ProcessReaped
<1>6. CASE callee = "dsh"
  <2>1. /\ sdk \in Sdks /\ thread = [pc |-> "none", next |-> 1] /\ flight = {} /\ lost = {}
    BY DEF Init, D!Init, Sdks
  <2>2. Backpressure
    <3>1. Increasing(<<>>) /\ Members(<<>>) = {}
      BY DEF Increasing, Members
    <3> QED
      BY <1>1, <2>1, <3>1 DEF Backpressure
  <2>3. DshTypes
    BY <1>1, <1>2, <2>1 DEF DshTypes, Threads
  <2>4. Closing /\ D!WorkerQuiet
    BY <1>1, <2>1 DEF Closing, Pcs, D!WorkerQuiet
  <2> QED
    BY <1>1, <1>6, <2>2, <2>3, <2>4 DEF IInv, DshInv
<1> QED
  BY <1>1, <1>4, <1>5, <1>6

LEMMA NextKeeps == IInv /\ [Next]_vars => IInv'
<1> SUFFICES ASSUME IInv, [Next]_vars PROVE IInv'
  OBVIOUS
<1>1. CASE CommandStep
  <2>1. CommandInv
    BY <1>1 DEF CommandStep, IInv, ScriptInv, DshInv
  <2> QED
    BY <1>1, <2>1, CommandKeeps DEF IInv
<1>2. CASE ScriptStep
  <2>1. ScriptInv
    BY <1>2 DEF ScriptStep, IInv, CommandInv, DshInv
  <2> QED
    BY <1>2, <2>1, ScriptKeeps DEF IInv
<1>3. CASE DshStep
  <2>1. DshInv
    BY <1>3 DEF DshStep, IInv, CommandInv, ScriptInv
  <2> QED
    BY <1>3, <2>1, DshKeeps DEF IInv
<1>4. CASE UNCHANGED vars
  <2>1. /\ callee' = callee /\ call' = call /\ stored' = stored /\ child' = child
        /\ stdout' = stdout /\ taken' = taken /\ stderr' = stderr /\ sdk' = sdk
        /\ thread' = thread /\ flight' = flight /\ lost' = lost /\ waived' = waived
    BY <1>4 DEF vars, processVars, dshVars
  <2>2. CASE CommandInv
    BY <2>1, <2>2 DEF IInv, CommandInv, ProcessTypes, Started, Kept, C!HasResult,
                      C!ResultIsEarned, ProcessReaped
  <2>3. CASE ScriptInv
    BY <2>1, <2>3 DEF IInv, ScriptInv, ProcessTypes, Started, G!VerdictIsEarned,
                      ProcessReaped
  <2>4. CASE DshInv
    BY <2>1, <2>4 DEF IInv, DshInv, DshTypes, Closing, Backpressure, Increasing, Members,
                      D!Active, D!WorkerQuiet
  <2> QED
    BY <2>2, <2>3, <2>4 DEF IInv
<1> QED
  BY <1>1, <1>2, <1>3, <1>4 DEF Next

(* IInv is an invariant: what a call has read, stored, killed and closed   *)
(* so far is what its place in execute or evaluate says.                   *)
THEOREM CallInvariance == Spec => []IInv
  BY InitHolds, NextKeeps, PTL DEF Spec

(* A result of the command harness, and a verdict of a script grader, is   *)
(* that of a process that exited with 0 and kept the protocol; the harness *)
(* had all events stored, in order, before it accepted the result.         *)
THEOREM SubprocessResultIsEarned == Spec => []ResultIsEarned
<1>1. IInv => ResultIsEarned
  BY DEF IInv, CommandInv, ScriptInv, DshInv, ResultIsEarned, C!ResultIsEarned,
         G!VerdictIsEarned
<1> QED
  BY <1>1, CallInvariance, PTL

(* However a call of a subprocess ends, the process is dead, or was killed *)
(* before a cancellation cut the clean-up short, and nobody reads stderr   *)
(* (unless the request of a grader could not be serialised).               *)
THEOREM SubprocessIsReaped == Spec => []ProcessReaped
<1>1. IInv => ProcessReaped
  BY DEF IInv, CommandInv, ScriptInv, DshInv, ProcessReaped
<1> QED
  BY <1>1, CallInvariance, PTL

(* A result of the DSH harness is returned when its thread has returned    *)
(* and what it notified is stored in that order, but for what was refused. *)
THEOREM DshResultIsDurable == Spec => []ResultIsDurable
<1>1. IInv => ResultIsDurable
  <2>1. DshInv => D!ResultIsDurable
    BY DEF DshInv, Backpressure, Increasing, Members, D!ResultIsDurable
  <2> QED
    BY <2>1 DEF IInv, CommandInv, ScriptInv, ResultIsDurable
<1> QED
  BY <1>1, CallInvariance, PTL

(* When control returns from the DSH harness its thread has ended and an   *)
(* owned or cancelled runtime is closed, or one of the named reasons holds *)
(* why it could not.                                                       *)
THEOREM DshWorkerIsQuiet == Spec => []WorkerQuiet
<1>1. IInv => WorkerQuiet
  BY DEF IInv, CommandInv, ScriptInv, DshInv, WorkerQuiet
<1> QED
  BY <1>1, CallInvariance, PTL
=============================================================================
