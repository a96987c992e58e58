------------------------------ MODULE RunStream ------------------------------
(***************************************************************************)
(* What infrastructure/event_store.py promises its callers about ONE run   *)
(* stream: append(expected_version, events) is a compare-and-append.  It   *)
(* takes effect in one instant or not at all, it takes effect only if the  *)
(* stream still has the expected version, and it reports a conflict only   *)
(* if the stream no longer has it.                                         *)
(*                                                                         *)
(* EventStore.tla is the implementation; it is shown to refine this.       *)
(***************************************************************************)
EXTENDS Naturals, Sequences

CONSTANTS
    Writers,    \* concurrent callers of append
    Events,     \* what a batch is made of
    Batches,    \* the batches a caller may pass, none of them empty
    MaxLength   \* no append is invoked that could exceed this length

VARIABLES
    stream,     \* the committed events, in order
    call        \* call[w]: the append call of writer w

vars == <<stream, call>>

Outcomes == {"ok", "conflict", "error"}
NoBatch  == <<>>
Idle     == [phase |-> "idle", expected |-> 0, batch |-> NoBatch]

-----------------------------------------------------------------------------
Init ==
    /\ stream = <<>>
    /\ call = [w \in Writers |-> Idle]

\* A caller passes a version it read some time ago, and at least one event.
Invoke(w, v, b) ==
    /\ call[w].phase = "idle"
    /\ v + Len(b) =< MaxLength
    /\ v =< Len(stream)
    /\ call' = [call EXCEPT ![w] = [phase |-> "open", expected |-> v, batch |-> b]]
    /\ UNCHANGED stream

Finish(w, outcome) ==
    /\ call[w].phase = "open"
    /\ call' = [call EXCEPT ![w].phase = outcome]

Commit(w) ==
    /\ call[w].expected = Len(stream)
    /\ Finish(w, "ok")
    /\ stream' = stream \o call[w].batch

Conflict(w) ==
    /\ call[w].expected # Len(stream)
    /\ Finish(w, "conflict")
    /\ UNCHANGED stream

\* The database refuses for a reason of its own; nothing is written.
Fail(w) ==
    /\ Finish(w, "error")
    /\ UNCHANGED stream

Return(w) ==
    /\ call[w].phase \in Outcomes
    /\ call' = [call EXCEPT ![w] = Idle]
    /\ UNCHANGED stream

\* The callers in P die; what they committed stays.
Lose(P) ==
    /\ call' = [w \in Writers |-> IF w \in P THEN Idle ELSE call[w]]
    /\ UNCHANGED stream

Next ==
    \/ \E w \in Writers :
          \/ \E v \in 0 .. MaxLength, b \in Batches : Invoke(w, v, b)
          \/ Commit(w) \/ Conflict(w) \/ Fail(w) \/ Return(w)
    \/ \E P \in SUBSET Writers : Lose(P)

Spec == Init /\ [][Next]_vars
=============================================================================
