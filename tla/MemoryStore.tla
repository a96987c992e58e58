---------------------------- MODULE MemoryStore -----------------------------
(***************************************************************************)
(* infrastructure/memory_store.py and the memory endpoints of api/app.py:  *)
(* the memories of Agent versions, their review, and the memories that an  *)
(* attempt of a run is given.                                              *)
(*                                                                         *)
(* There is no lock, and a session reads without opening a transaction:    *)
(* set_status suspends between the row it reads and the row it writes.     *)
(***************************************************************************)
CONSTANTS
    Memories,   \* ids of memories
    Versions,   \* ids of Agent versions
    Agents,     \* names of agents
    Owner,      \* Owner[v]: the agent version v belongs to
    Runs,       \* runs a memory may name as its source
    VersionOf,  \* VersionOf[run]: the version a run executes
    Reviewers,  \* concurrent requests that set a status
    None

VARIABLES
    row,    \* table agent_memories: None or [agent, version, status]
    review, \* review[r]: [pc, memory, target] of request r
    given   \* the memories an attempt was last given: [version, memories]

vars == <<row, review, given>>

Statuses == {"experimental", "approved", "rejected"}
NoReview == [pc |-> "idle", memory |-> None, target |-> None]

-----------------------------------------------------------------------------
Init ==
    /\ row = [m \in Memories |-> None]
    /\ review = [r \in Reviewers |-> NoReview]
    /\ given = None

\* create_memory: the version is one of the agent, the source run executed
\* that version, and the memory begins as experimental.
Write(m, agent, v, source) ==
    /\ row[m] = None
    /\ Owner[v] = agent
    /\ source # None => VersionOf[source] = v
    /\ row' = [row EXCEPT ![m] = [agent |-> agent, version |-> v,
                                  status |-> "experimental"]]
    /\ UNCHANGED <<review, given>>

\* set_memory_status: a memory can only be approved or rejected.
AskStatus(r, m, target) ==
    /\ review[r].pc = "idle"
    /\ target # "experimental"
    /\ review' = [review EXCEPT ![r] = [NoReview EXCEPT !.pc = "read",
                                                        !.memory = m,
                                                        !.target = target]]
    /\ UNCHANGED <<row, given>>

\* set_status up to the commit: an unknown memory and a rejected one are
\* refused, and a status that is already there is not written again.
ReadStatus(r) ==
    /\ review[r].pc = "read"
    /\ LET m       == review[r].memory
           refused == \/ row[m] = None
                      \/ row[m].status = "rejected"
                      \/ row[m].status = review[r].target
       IN review' = [review EXCEPT ![r] =
              IF refused THEN NoReview ELSE [@ EXCEPT !.pc = "write"]]
    /\ UNCHANGED <<row, given>>

\* The commit updates the row by its id alone, or fails.
CommitStatus(r) ==
    /\ review[r].pc = "write"
    /\ \/ row' = [row EXCEPT ![review[r].memory].status = review[r].target]
       \/ UNCHANGED row
    /\ review' = [review EXCEPT ![r] = NoReview]
    /\ UNCHANGED given

\* (Kinds, tags and the limit only narrow what is found.)
\* for_context, as _load_memories calls it with the memory policy of a bundle.
ForContext(agent, v, experimental) ==
    {m \in Memories :
        /\ row[m] # None
        /\ row[m].agent = agent
        /\ row[m].version = v
        /\ \/ row[m].status = "approved"
           \/ experimental /\ row[m].status = "experimental"}

LoadMemories(v, experimental) ==
    /\ given' = [version |-> v, memories |-> ForContext(Owner[v], v, experimental)]
    /\ UNCHANGED <<row, review>>

Next ==
    \/ \E m \in Memories, agent \in Agents, v \in Versions, source \in Runs \cup {None} :
          Write(m, agent, v, source)
    \/ \E r \in Reviewers :
          \/ \E m \in Memories, target \in Statuses : AskStatus(r, m, target)
          \/ ReadStatus(r) \/ CommitStatus(r)
    \/ \E v \in Versions, experimental \in BOOLEAN : LoadMemories(v, experimental)

Spec == Init /\ [][Next]_vars

-----------------------------------------------------------------------------
(* The error of set_status: "Rejected memory cannot be reactivated".  Two  *)
(* reviews that have both read an experimental memory refute it.           *)
RejectedStaysRejected ==
    [][\A m \in Memories : row[m] # None /\ row[m].status = "rejected"
          => row'[m].status = "rejected"]_row
=============================================================================
