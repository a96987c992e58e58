-------------------------- MODULE ObservationPolicy --------------------------
(***************************************************************************)
(* application/observer.py: ObservationPolicy.should_review, asked by emit *)
(* for every event of an attempt with the events observed so far.          *)
(***************************************************************************)
EXTENDS Naturals, FiniteSets

CONSTANTS
    AfterToolErrors,    \* a review every so many tool errors; 0: none
    EveryModelCalls,    \* a review every so many model calls; 0: none
    OnAgentComplete     \* a review when the agent has completed

ASSUME ObservationAssumption == AfterToolErrors \in Nat /\ EveryModelCalls \in Nat

\* What an event is for the policy.
EventKinds == {"tool_error", "model_call", "agent_complete", "other"}

\* A bug: counted from the second on.
ShouldReviewLate(events, current) ==
    LET count == Cardinality({i \in DOMAIN events : events[i] = current}) - 1 IN
    CASE current = "tool_error"     -> AfterToolErrors > 0 /\ count % AfterToolErrors = 0
      [] current = "model_call"     -> EveryModelCalls > 0 /\ count % EveryModelCalls = 0
      [] current = "agent_complete" -> OnAgentComplete
      [] OTHER -> FALSE

\* events ends with current: emit appends before it asks.
ShouldReview(events, current) ==
    LET count == Cardinality({i \in DOMAIN events : events[i] = current}) IN
    CASE current = "tool_error"     -> AfterToolErrors > 0 /\ count % AfterToolErrors = 0
      [] current = "model_call"     -> EveryModelCalls > 0 /\ count % EveryModelCalls = 0
      [] current = "agent_complete" -> OnAgentComplete
      [] OTHER -> FALSE
=============================================================================
