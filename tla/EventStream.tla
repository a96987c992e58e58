---------------------------- MODULE EventStream -----------------------------
(***************************************************************************)
(* api/app.py: how clients read the stream of ONE run while it is written. *)
(* GET /events answers with a page after a sequence number; the generator  *)
(* of GET /events/stream sends page after page, a heartbeat when there is  *)
(* nothing new, and stream.end once the run is terminal.                   *)
(*                                                                         *)
(* The generator suspends at every query and every chunk, and its client   *)
(* may be gone at each of them.  A client comes back with the sequence     *)
(* number of the last event it has received.                               *)
(***************************************************************************)
EXTENDS Integers, Sequences

CONSTANTS
    Streamers,  \* clients of /events/stream
    Pollers,    \* clients of /events
    PageLimit,  \* events in a page (100 in the generator)
    MaxLength   \* bound on the length of the stream

ASSUME PageAssumption ==
    PageLimit \in Nat \ {0} /\ MaxLength \in Nat /\ Streamers \cap Pollers = {}

VARIABLES
    log,    \* the committed events of the run, by what they do to its status
    conn,   \* conn[c]: the request of client c
    got     \* got[c]: sequence numbers client c has received, in order

vars == <<log, conn, got>>

Clients == Streamers \cup Pollers

\* "open" sets a status that is not terminal, "close" one that is, and
\* "other" none: run.started; run.succeeded; agent.event.
Kinds == {"open", "close", "other"}
Steps == {"away", "load", "send", "snapshot", "end", "ended"}

\* length: of the stream when the last page was loaded (only observed).
Away  == [pc |-> "away", cursor |-> 0, page |-> <<>>, length |-> 0]

TypeOK ==
    /\ log \in Seq(Kinds)
    /\ conn \in [Clients -> [pc : Steps, cursor : Nat, page : Seq(Nat \ {0}), length : Nat]]
    /\ got \in [Clients -> Seq(Nat \ {0})]

\* The status of engine.get_run: what the last event that sets one has set.
IsTerminal ==
    \E i \in DOMAIN log :
        log[i] = "close" /\ \A j \in DOMAIN log : j > i => log[j] = "other"

Lesser(m, n) == IF m =< n THEN m ELSE n

\* A bug: the query compares with >=.
LoadInclusive(after) ==
    [i \in 1 .. Lesser(PageLimit, Len(log) - after + 1) |-> after + i - 1]

\* event_store.load: sequence > after_sequence, in order, at most the limit.
Load(after) == [i \in 1 .. Lesser(PageLimit, Len(log) - after) |-> after + i]

\* What the client passes as after_sequence.
Received(c) == IF got[c] = <<>> THEN 0 ELSE got[c][Len(got[c])]

-----------------------------------------------------------------------------
Init ==
    /\ log = <<>>
    /\ conn = [c \in Clients |-> Away]
    /\ got = [c \in Clients |-> <<>>]

\* The engine, a request or a detached emit appends.  run.created comes
\* first; nothing forbids an event after a terminal one.
Write(kind) ==
    /\ Len(log) < MaxLength
    /\ log = <<>> => kind = "open"
    /\ log' = Append(log, kind)
    /\ UNCHANGED <<conn, got>>

\* A run without events is a 404.
Connect(c) ==
    /\ conn[c].pc \in {"away", "ended"}
    /\ log # <<>>
    /\ conn' = [conn EXCEPT ![c] = [Away EXCEPT !.pc = "load", !.cursor = Received(c)]]
    /\ UNCHANGED <<log, got>>

\* An empty page of a poller is its answer.
LoadPage(c) ==
    /\ conn[c].pc = "load"
    /\ LET page == Load(conn[c].cursor) IN
       conn' = [conn EXCEPT
           ![c].page = page,
           ![c].length = Len(log),
           ![c].pc = IF page # <<>> THEN "send"
                     ELSE IF c \in Streamers THEN "snapshot" ELSE "ended"]
    /\ UNCHANGED <<log, got>>

\* A bug: the status is looked at after every page, not after an empty one.
SendAndLook(c) ==
    /\ conn[c].pc = "send" /\ c \in Streamers
    /\ got' = [got EXCEPT ![c] = Append(@, Head(conn[c].page))]
    /\ conn' = [conn EXCEPT
           ![c].cursor = Head(conn[c].page),
           ![c].page = Tail(@),
           ![c].pc = IF Tail(conn[c].page) = <<>> THEN "snapshot" ELSE "send"]
    /\ UNCHANGED log

\* One chunk; the cursor follows it, and a full page is followed by the next.
SendEvent(c) ==
    /\ conn[c].pc = "send" /\ c \in Streamers
    /\ got' = [got EXCEPT ![c] = Append(@, Head(conn[c].page))]
    /\ conn' = [conn EXCEPT
           ![c].cursor = Head(conn[c].page),
           ![c].page = Tail(@),
           ![c].pc = IF Tail(conn[c].page) = <<>> THEN "load" ELSE "send"]
    /\ UNCHANGED log

\* The answer of /events: all of the page, and next_after_sequence.
AnswerPage(c) ==
    /\ conn[c].pc = "send" /\ c \in Pollers
    /\ got' = [got EXCEPT ![c] = @ \o conn[c].page]
    /\ conn' = [conn EXCEPT ![c].cursor = conn[c].page[Len(conn[c].page)],
                            ![c].page = <<>>,
                            ![c].pc = "ended"]
    /\ UNCHANGED log

\* A bug: a heartbeat that is the last thing the generator does.
TakeOnlySnapshot(c) ==
    /\ conn[c].pc = "snapshot"
    /\ IsTerminal
    /\ conn' = [conn EXCEPT ![c].pc = "end"]
    /\ UNCHANGED <<log, got>>

\* The run is replayed in a query of its own; a heartbeat is sent otherwise.
TakeSnapshot(c) ==
    /\ conn[c].pc = "snapshot"
    /\ conn' = [conn EXCEPT ![c].pc = IF IsTerminal THEN "end" ELSE "load"]
    /\ UNCHANGED <<log, got>>

\* stream.end, with last_sequence = cursor.
SendEnd(c) ==
    /\ conn[c].pc = "end"
    /\ conn' = [conn EXCEPT ![c].pc = "ended"]
    /\ UNCHANGED <<log, got>>

\* The client goes away; what was not sent is not received.
Disconnect(c) ==
    /\ conn[c].pc \notin {"away", "ended"}
    /\ conn' = [conn EXCEPT ![c] = Away]
    /\ UNCHANGED <<log, got>>

Serve(c) ==
    LoadPage(c) \/ SendEvent(c) \/ AnswerPage(c) \/ TakeSnapshot(c) \/ SendEnd(c)

Next ==
    \/ \E kind \in Kinds : Write(kind)
    \/ \E c \in Clients : Connect(c) \/ Serve(c) \/ Disconnect(c)

Spec == Init /\ [][Next]_vars

\* The event loop runs the generator of every open connection.  Nothing is
\* assumed of the clients or of the run.
FairSpec == Spec /\ \A c \in Clients : WF_vars(Serve(c))

-----------------------------------------------------------------------------
(* What a client has received, over all its pages and connections, is the  *)
(* stream from its beginning: no event is missing, none comes twice, none  *)
(* out of order, although it is cut off and comes back at any point while  *)
(* the stream grows.                                                       *)
NothingSkipped == \A c \in Clients : \A i \in DOMAIN got[c] : got[c][i] = i

(* stream.end is sent only of a run that has been terminal, and only after *)
(* a page came back empty: every event committed by then has been sent.    *)
(* (One committed between that page and the snapshot is not: last_sequence *)
(* can be smaller than that of the terminal event itself.)                 *)
EndedRunIsRead ==
    \A c \in Streamers :
        conn[c].pc \in {"end", "ended"} =>
            /\ \E i \in DOMAIN log : log[i] = "close"
            /\ conn[c].cursor = Received(c)
            /\ conn[c].cursor >= conn[c].length

(* A client that stays connected receives every event that is committed or *)
(* is told the end, and is told the end of a run that stays terminal.      *)
Connected(c) == conn[c].pc \notin {"away", "ended"}
StreamAdvances ==
    \A c \in Streamers :
        /\ \A n \in 1 .. MaxLength :
              (Connected(c) /\ Len(log) >= n) ~> (~Connected(c) \/ Len(got[c]) >= n)
        /\ (Connected(c) /\ IsTerminal) ~> (~Connected(c) \/ ~IsTerminal)
=============================================================================
