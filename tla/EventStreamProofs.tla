-------------------------- MODULE EventStreamProofs --------------------------
(***************************************************************************)
(* The invariants of EventStream.tla, for any number of clients and any    *)
(* size of a page.                                                         *)
(***************************************************************************)
EXTENDS EventStream, SequenceTheorems, TLAPS

(* What a request holds: its cursor counts what its client has, its page   *)
(* is what follows the cursor, and both lie within the stream.             *)
RequestOK(c) ==
    /\ Len(got[c]) =< Len(log)
    /\ conn[c].pc # "away" => conn[c].cursor = Len(got[c])
    /\ conn[c].pc = "away" => conn[c].page = <<>>
    /\ \A i \in DOMAIN conn[c].page : conn[c].page[i] = conn[c].cursor + i
    /\ conn[c].page # <<>> => conn[c].cursor + Len(conn[c].page) =< Len(log)
    /\ conn[c].pc = "send" <=> conn[c].page # <<>>

(* A streamer that is past an empty page has what was there, and the end   *)
(* is told only of a run that was terminal.                                *)
ReadToTheEnd(c) ==
    /\ conn[c].pc \in {"snapshot", "end", "ended"} => conn[c].cursor >= conn[c].length
    /\ conn[c].pc \in {"end", "ended"} => \E i \in DOMAIN log : log[i] = "close"

IInv ==
    /\ TypeOK
    /\ NothingSkipped
    /\ \A c \in Clients : RequestOK(c)
    /\ \A c \in Streamers : ReadToTheEnd(c)

-----------------------------------------------------------------------------
(* A page is a sequence of what follows the cursor, within the stream; it  *)
(* is empty only if nothing follows.                                       *)
LEMMA PageOfLoad ==
    ASSUME NEW after \in Nat, TypeOK, after =< Len(log)
    PROVE  /\ Load(after) \in Seq(Nat \ {0})
           /\ \A i \in DOMAIN Load(after) : Load(after)[i] = after + i
           /\ after + Len(Load(after)) =< Len(log)
           /\ Load(after) = <<>> => after >= Len(log)
<1> DEFINE m == Lesser(PageLimit, Len(log) - after)
<1>1. /\ m \in Nat
      /\ after + m =< Len(log)
      /\ m = 0 => after >= Len(log)
  <2>1. Len(log) \in Nat /\ PageLimit \in Nat \ {0}
    BY PageAssumption DEF TypeOK
  <2> QED
    BY <2>1 DEF Lesser
<1>2. Load(after) = [i \in 1 .. m |-> after + i]
  BY DEF Load
<1> HIDE DEF m
<1>3. \A i \in 1 .. m : after + i \in Nat \ {0}
  BY <1>1
<1>4. Load(after) \in Seq(Nat \ {0}) /\ Len(Load(after)) = m
  BY <1>1, <1>2, <1>3
<1> QED
  BY <1>1, <1>2, <1>4

(* A request with a new cursor, page and program counter.                  *)
LEMMA NewRequest ==
    ASSUME NEW q \in [pc : Steps, cursor : Nat, page : Seq(Nat \ {0}), length : Nat],
           NEW n \in Nat, NEW p \in Seq(Nat \ {0}), NEW s \in Steps
    PROVE  [q EXCEPT !.cursor = n, !.page = p, !.pc = s] \in
               [pc : Steps, cursor : Nat, page : Seq(Nat \ {0}), length : Nat]
  OBVIOUS

(* The last number a client has received counts what it has received.      *)
LEMMA ReceivedIsCount ==
    ASSUME IInv, NEW c \in Clients
    PROVE  Received(c) = Len(got[c])
<1>1. got[c] \in Seq(Nat \ {0})
  BY DEF IInv, TypeOK
<1>2. CASE got[c] = <<>>
  BY <1>2 DEF Received
<1>3. CASE got[c] # <<>>
  BY <1>1, <1>3 DEF Received, IInv, NothingSkipped
<1> QED
  BY <1>2, <1>3

(* Only a step of the run changes the stream, and it makes it longer.      *)
LEMMA WriteKeeps ==
    ASSUME IInv, NEW kind \in Kinds, Write(kind)
    PROVE  IInv'
<1> USE DEF Write
<1>1. /\ log' \in Seq(Kinds) /\ Len(log') = Len(log) + 1
      /\ \A i \in DOMAIN log : i \in DOMAIN log' /\ log'[i] = log[i]
  BY DEF IInv, TypeOK
<1>2. TypeOK' /\ NothingSkipped'
  BY <1>1 DEF IInv, TypeOK, NothingSkipped
<1>3. ASSUME NEW c \in Clients PROVE RequestOK(c)'
  <2>1. /\ Len(got[c]) \in Nat /\ conn[c].cursor \in Nat
        /\ conn[c].page \in Seq(Nat \ {0}) /\ Len(log) \in Nat
    BY DEF IInv, TypeOK
  <2> QED
    BY <1>1, <2>1 DEF IInv, RequestOK
<1>4. ASSUME NEW c \in Streamers PROVE ReadToTheEnd(c)'
  BY <1>1 DEF IInv, ReadToTheEnd
<1> QED
  BY <1>2, <1>3, <1>4 DEF IInv

(* The shape of every other step: the stream stays, and one client moves   *)
(* to a request r and has then received g.                                 *)
LEMMA ClientStep ==
    ASSUME IInv, NEW c \in Clients, NEW r, NEW g,
           log' = log,
           conn' = [conn EXCEPT ![c] = r],
           got' = [got EXCEPT ![c] = g],
           r \in [pc : Steps, cursor : Nat, page : Seq(Nat \ {0}), length : Nat],
           g \in Seq(Nat \ {0}),
           \A i \in DOMAIN g : g[i] = i,
           Len(g) =< Len(log),
           r.pc # "away" => r.cursor = Len(g),
           r.pc = "away" => r.page = <<>>,
           \A i \in DOMAIN r.page : r.page[i] = r.cursor + i,
           r.page # <<>> => r.cursor + Len(r.page) =< Len(log),
           r.pc = "send" <=> r.page # <<>>,
           c \in Streamers =>
              /\ r.pc \in {"snapshot", "end", "ended"} => r.cursor >= r.length
              /\ r.pc \in {"end", "ended"} => \E i \in DOMAIN log : log[i] = "close"
    PROVE  IInv'
<1>1. /\ conn \in [Clients -> [pc : Steps, cursor : Nat, page : Seq(Nat \ {0}), length : Nat]]
      /\ got \in [Clients -> Seq(Nat \ {0})]
  BY DEF IInv, TypeOK
<1>2. conn'[c] = r /\ got'[c] = g
  BY <1>1
<1>3. \A d \in Clients : d # c => conn'[d] = conn[d] /\ got'[d] = got[d]
  BY <1>1
<1>4. TypeOK'
  BY <1>1 DEF IInv, TypeOK
<1>5. NothingSkipped'
  BY <1>2, <1>3 DEF IInv, NothingSkipped
<1>6. ASSUME NEW d \in Clients PROVE RequestOK(d)'
  <2>1. CASE d = c
    BY <2>1, <1>2 DEF RequestOK
  <2>2. CASE d # c
    BY <2>2, <1>3 DEF IInv, RequestOK
  <2> QED
    BY <2>1, <2>2
<1>7. ASSUME NEW d \in Streamers PROVE ReadToTheEnd(d)'
  <2>1. CASE d = c
    BY <2>1, <1>2 DEF ReadToTheEnd
  <2>2. CASE d # c
    BY <2>2, <1>3 DEF IInv, ReadToTheEnd, Clients
  <2> QED
    BY <2>1, <2>2
<1> QED
  BY <1>4, <1>5, <1>6, <1>7 DEF IInv

-----------------------------------------------------------------------------
LEMMA ConnectKeeps ==
    ASSUME IInv, NEW c \in Clients, Connect(c)
    PROVE  IInv'
<1> DEFINE r == [Away EXCEPT !.pc = "load", !.cursor = Received(c)]
<1>1. got[c] \in Seq(Nat \ {0}) /\ got' = [got EXCEPT ![c] = got[c]]
  BY DEF IInv, TypeOK, Connect
<1>2. Received(c) = Len(got[c]) /\ Len(got[c]) \in Nat
  BY <1>1, ReceivedIsCount
<1>3. log' = log /\ conn' = [conn EXCEPT ![c] = r]
  BY DEF Connect
<1>4. r \in [pc : Steps, cursor : Nat, page : Seq(Nat \ {0}), length : Nat]
  <2>1. Away \in [pc : Steps, cursor : Nat, page : Seq(Nat \ {0}), length : Nat]
    BY DEF Away, Steps
  <2>2. "load" \in Steps
    BY DEF Steps
  <2> HIDE DEF Away
  <2> QED
    BY <1>2, <2>1, <2>2
<1>5. (\A i \in DOMAIN got[c] : got[c][i] = i) /\ Len(got[c]) =< Len(log)
  BY DEF IInv, NothingSkipped, RequestOK
<1>6. /\ r.pc = "load" /\ r.cursor = Len(got[c]) /\ r.page = <<>>
      /\ \A i \in DOMAIN r.page : r.page[i] = r.cursor + i
  BY <1>2 DEF Away
<1> HIDE DEF r
<1> QED
  BY <1>1, <1>3, <1>4, <1>5, <1>6, ClientStep

LEMMA LoadPageKeeps ==
    ASSUME IInv, NEW c \in Clients, LoadPage(c)
    PROVE  IInv'
<1> DEFINE page == Load(conn[c].cursor)
           r == [pc |-> IF page # <<>> THEN "send"
                        ELSE IF c \in Streamers THEN "snapshot" ELSE "ended",
                 cursor |-> conn[c].cursor, page |-> page, length |-> Len(log)]
<1>1. /\ conn[c] \in [pc : Steps, cursor : Nat, page : Seq(Nat \ {0}), length : Nat]
      /\ got[c] \in Seq(Nat \ {0}) /\ got' = [got EXCEPT ![c] = got[c]] /\ log' = log
      /\ Len(log) \in Nat
  BY DEF IInv, TypeOK, LoadPage
<1>2. /\ conn[c].cursor = Len(got[c]) /\ Len(got[c]) =< Len(log)
      /\ \A i \in DOMAIN got[c] : got[c][i] = i
  BY DEF IInv, RequestOK, NothingSkipped, LoadPage
<1>3. /\ page \in Seq(Nat \ {0})
      /\ \A i \in DOMAIN page : page[i] = conn[c].cursor + i
      /\ conn[c].cursor + Len(page) =< Len(log)
      /\ page = <<>> => conn[c].cursor >= Len(log)
  BY <1>1, <1>2, PageOfLoad DEF IInv
<1>4. conn' = [conn EXCEPT ![c] = r]
  BY <1>1 DEF LoadPage, IInv, TypeOK
<1> HIDE DEF page
<1>5. r \in [pc : Steps, cursor : Nat, page : Seq(Nat \ {0}), length : Nat]
  BY <1>1, <1>3 DEF Steps
<1>6. /\ r.cursor = conn[c].cursor /\ r.page = page /\ r.length = Len(log)
      /\ r.pc \in {"send", "snapshot", "ended"}
      /\ r.pc = "send" <=> page # <<>>
      /\ c \in Streamers => r.pc # "ended"
  OBVIOUS
<1> HIDE DEF r
<1>7. c \in Streamers =>
        /\ r.pc \in {"snapshot", "end", "ended"} => r.cursor >= r.length
        /\ r.pc \in {"end", "ended"} => \E i \in DOMAIN log : log[i] = "close"
  BY <1>3, <1>6
<1> QED
  BY <1>1, <1>2, <1>3, <1>4, <1>5, <1>6, <1>7, ClientStep

LEMMA SendEventKeeps ==
    ASSUME IInv, NEW c \in Clients, SendEvent(c)
    PROVE  IInv'
<1> DEFINE page == conn[c].page
           g == Append(got[c], Head(page))
           r == [conn[c] EXCEPT !.cursor = Head(page), !.page = Tail(page),
                                !.pc = IF Tail(page) = <<>> THEN "load" ELSE "send"]
<1>1. /\ conn[c] \in [pc : Steps, cursor : Nat, page : Seq(Nat \ {0}), length : Nat]
      /\ got[c] \in Seq(Nat \ {0}) /\ log' = log /\ got' = [got EXCEPT ![c] = g]
      /\ Len(log) \in Nat
  BY DEF IInv, TypeOK, SendEvent
<1>2. /\ page \in Seq(Nat \ {0}) /\ page # <<>> /\ conn[c].cursor = Len(got[c])
      /\ \A i \in DOMAIN page : page[i] = Len(got[c]) + i
      /\ Len(got[c]) + Len(page) =< Len(log)
      /\ \A i \in DOMAIN got[c] : got[c][i] = i
  BY <1>1 DEF IInv, RequestOK, NothingSkipped, SendEvent
<1>3. conn' = [conn EXCEPT ![c] = r]
  BY <1>1 DEF SendEvent, IInv, TypeOK
<1> HIDE DEF page
<1>4. /\ Head(page) = Len(got[c]) + 1
      /\ Tail(page) \in Seq(Nat \ {0}) /\ Len(Tail(page)) = Len(page) - 1
      /\ \A i \in DOMAIN Tail(page) : Tail(page)[i] = Len(got[c]) + 1 + i
  <2>1. Len(page) \in Nat /\ Len(page) >= 1 /\ Len(got[c]) \in Nat
    BY <1>1, <1>2
  <2>2. Head(page) = page[1] /\ 1 \in DOMAIN page
    BY <1>2, <2>1
  <2>3. Tail(page) \in Seq(Nat \ {0}) /\ Len(Tail(page)) = Len(page) - 1
    BY <1>2
  <2>4. ASSUME NEW i \in DOMAIN Tail(page)
        PROVE  Tail(page)[i] = Len(got[c]) + 1 + i
    <3>1. i \in 1 .. Len(page) - 1 /\ Tail(page)[i] = page[i + 1] /\ i + 1 \in DOMAIN page
      BY <1>2, <2>1, <2>3
    <3>2. page[i + 1] = Len(got[c]) + (i + 1)
      BY <1>2, <3>1
    <3> QED
      BY <2>1, <3>1, <3>2
  <2> QED
    BY <1>2, <2>1, <2>2, <2>3, <2>4
<1>5. /\ g \in Seq(Nat \ {0}) /\ Len(g) = Len(got[c]) + 1 /\ Len(g) =< Len(log)
      /\ \A i \in DOMAIN g : g[i] = i
  <2>1. Head(page) \in Nat \ {0} /\ Len(page) >= 1
    BY <1>1, <1>2, <1>4
  <2>2. /\ g \in Seq(Nat \ {0}) /\ Len(g) = Len(got[c]) + 1 /\ Len(got[c]) \in Nat
        /\ \A i \in 1 .. Len(got[c]) : g[i] = got[c][i]
        /\ g[Len(got[c]) + 1] = Head(page)
    BY <1>1, <2>1, AppendProperties, LenProperties
  <2> HIDE DEF g
  <2> DEFINE n == Len(got[c])
  <2>3. DOMAIN g = 1 .. n + 1 /\ DOMAIN got[c] = 1 .. n /\ n \in Nat
    BY <1>1, <2>2, LenProperties
  <2>4. /\ \A i \in 1 .. n : g[i] = i
        /\ g[n + 1] = n + 1
    BY <1>2, <1>4, <2>2, <2>3
  <2>5. \A i \in DOMAIN g : g[i] = i
    <3> HIDE DEF n
    <3>1. \A i \in 1 .. n + 1 : i \in 1 .. n \/ i = n + 1
      BY <2>3
    <3> QED
      BY <2>3, <2>4, <3>1
  <2> QED
    BY <1>1, <1>2, <2>1, <2>2, <2>5
<1> HIDE DEF g
<1>6. r \in [pc : Steps, cursor : Nat, page : Seq(Nat \ {0}), length : Nat]
  <2>1. /\ Head(page) \in Nat
        /\ (IF Tail(page) = <<>> THEN "load" ELSE "send") \in Steps
    BY <1>1, <1>4 DEF Steps
  <2> QED
    BY <1>1, <1>4, <2>1, NewRequest
<1>7. /\ r.cursor = Len(g) /\ r.page = Tail(page) /\ r.pc \in {"load", "send"}
      /\ r.pc = "send" <=> Tail(page) # <<>>
  BY <1>4, <1>5
<1> HIDE DEF r
<1>8. /\ \A i \in DOMAIN r.page : r.page[i] = r.cursor + i
      /\ r.cursor + Len(r.page) =< Len(log)
  BY <1>1, <1>2, <1>4, <1>5, <1>7
<1> QED
  BY <1>1, <1>3, <1>5, <1>6, <1>7, <1>8, ClientStep

LEMMA AnswerPageKeeps ==
    ASSUME IInv, NEW c \in Clients, AnswerPage(c)
    PROVE  IInv'
<1> DEFINE page == conn[c].page
           g == got[c] \o page
           r == [conn[c] EXCEPT !.cursor = page[Len(page)], !.page = <<>>, !.pc = "ended"]
<1>1. /\ conn[c] \in [pc : Steps, cursor : Nat, page : Seq(Nat \ {0}), length : Nat]
      /\ got[c] \in Seq(Nat \ {0}) /\ log' = log /\ got' = [got EXCEPT ![c] = g]
      /\ Len(log) \in Nat
  BY DEF IInv, TypeOK, AnswerPage
<1>2. /\ page \in Seq(Nat \ {0}) /\ page # <<>> /\ conn[c].cursor = Len(got[c])
      /\ \A i \in DOMAIN page : page[i] = Len(got[c]) + i
      /\ Len(got[c]) + Len(page) =< Len(log)
      /\ \A i \in DOMAIN got[c] : got[c][i] = i
  BY <1>1 DEF IInv, RequestOK, NothingSkipped, AnswerPage
<1>3. conn' = [conn EXCEPT ![c] = r]
  BY <1>1 DEF AnswerPage, IInv, TypeOK
<1> HIDE DEF page
<1>4. /\ g \in Seq(Nat \ {0}) /\ Len(g) = Len(got[c]) + Len(page)
      /\ \A i \in DOMAIN g : g[i] = i
  <2>1. /\ g \in Seq(Nat \ {0}) /\ Len(g) = Len(got[c]) + Len(page)
        /\ \A i \in 1 .. Len(got[c]) + Len(page) :
              g[i] = IF i =< Len(got[c]) THEN got[c][i] ELSE page[i - Len(got[c])]
    BY <1>1, <1>2, ConcatProperties
  <2> HIDE DEF g
  <2> DEFINE m == Len(got[c])
             n == Len(page)
  <2>2. /\ m \in Nat /\ DOMAIN got[c] = 1 .. m
        /\ n \in Nat /\ DOMAIN page = 1 .. n /\ DOMAIN g = 1 .. m + n
    BY <1>1, <1>2, <2>1, LenProperties
  <2>3. /\ \A i \in 1 .. m : got[c][i] = i
        /\ \A i \in 1 .. n : page[i] = m + i
        /\ \A i \in 1 .. m + n : g[i] = IF i =< m THEN got[c][i] ELSE page[i - m]
    BY <1>2, <2>1, <2>2
  <2>4. \A i \in DOMAIN g : g[i] = i
    <3> HIDE DEF m, n
    <3> SUFFICES ASSUME NEW i \in 1 .. m + n PROVE g[i] = i
      BY <2>2
    <3>1. i \in 1 .. m \/ (~ (i =< m) /\ i - m \in 1 .. n /\ m + (i - m) = i)
      BY <2>2
    <3> QED
      BY <2>2, <2>3, <3>1
  <2> QED
    BY <2>1, <2>4
<1>5. page[Len(page)] = Len(g)
  BY <1>2, <1>4
<1> HIDE DEF g
<1>6. r \in [pc : Steps, cursor : Nat, page : Seq(Nat \ {0}), length : Nat]
  <2>1. Len(g) \in Nat /\ <<>> \in Seq(Nat \ {0}) /\ "ended" \in Steps
    BY <1>4 DEF Steps
  <2> QED
    BY <1>1, <1>5, <2>1, NewRequest
<1>7. /\ r.cursor = Len(g) /\ r.page = <<>> /\ r.pc = "ended" /\ c \notin Streamers
      /\ \A i \in DOMAIN r.page : r.page[i] = r.cursor + i
  BY <1>5, PageAssumption DEF AnswerPage
<1> HIDE DEF r
<1> QED
  BY <1>1, <1>2, <1>3, <1>4, <1>6, <1>7, ClientStep

(* The look at the status and the end of the stream change only pc.        *)
LEMMA EndKeeps ==
    ASSUME IInv, NEW c \in Clients, TakeSnapshot(c) \/ SendEnd(c)
    PROVE  IInv'
<1> DEFINE next == IF SendEnd(c) THEN "ended" ELSE IF IsTerminal THEN "end" ELSE "load"
           r == [pc |-> next, cursor |-> conn[c].cursor, page |-> conn[c].page,
                 length |-> conn[c].length]
<1>1. /\ conn[c] \in [pc : Steps, cursor : Nat, page : Seq(Nat \ {0}), length : Nat]
      /\ got[c] \in Seq(Nat \ {0}) /\ log' = log /\ got' = [got EXCEPT ![c] = got[c]]
  BY DEF IInv, TypeOK, TakeSnapshot, SendEnd
<1>2. /\ conn[c].page = <<>> /\ conn[c].cursor = Len(got[c]) /\ Len(got[c]) =< Len(log)
      /\ \A i \in DOMAIN got[c] : got[c][i] = i
      /\ conn[c].pc \in {"snapshot", "end"}
      /\ SendEnd(c) => conn[c].pc = "end"
  BY DEF IInv, RequestOK, NothingSkipped, TakeSnapshot, SendEnd
<1>3. conn' = [conn EXCEPT ![c] = r]
  BY <1>1 DEF TakeSnapshot, SendEnd, IInv, TypeOK
<1>4. /\ next \in {"load", "end", "ended"}
      /\ c \in Streamers =>
            /\ conn[c].cursor >= conn[c].length
            /\ next \in {"end", "ended"} => \E i \in DOMAIN log : log[i] = "close"
  BY <1>2 DEF IInv, ReadToTheEnd, IsTerminal
<1> HIDE DEF next
<1>5. r \in [pc : Steps, cursor : Nat, page : Seq(Nat \ {0}), length : Nat]
  BY <1>1, <1>4 DEF Steps
<1>6. /\ r.cursor = conn[c].cursor /\ r.page = <<>> /\ r.pc = next
      /\ r.length = conn[c].length
      /\ \A i \in DOMAIN r.page : r.page[i] = r.cursor + i
  BY <1>2
<1> HIDE DEF r
<1> QED
  BY <1>1, <1>2, <1>3, <1>4, <1>5, <1>6, ClientStep

LEMMA DisconnectKeeps ==
    ASSUME IInv, NEW c \in Clients, Disconnect(c)
    PROVE  IInv'
<1>1. /\ got[c] \in Seq(Nat \ {0}) /\ got' = [got EXCEPT ![c] = got[c]] /\ log' = log
      /\ conn' = [conn EXCEPT ![c] = Away]
  BY DEF IInv, TypeOK, Disconnect
<1>2. (\A i \in DOMAIN got[c] : got[c][i] = i) /\ Len(got[c]) =< Len(log)
  BY DEF IInv, NothingSkipped, RequestOK
<1>3. Away \in [pc : Steps, cursor : Nat, page : Seq(Nat \ {0}), length : Nat]
  BY DEF Away, Steps
<1>4. /\ Away.pc = "away" /\ Away.page = <<>>
      /\ \A i \in DOMAIN Away.page : Away.page[i] = Away.cursor + i
  BY DEF Away
<1> HIDE DEF Away
<1> QED
  BY <1>1, <1>2, <1>3, <1>4, ClientStep

(* IInv is inductive.                                                      *)
LEMMA StepKeeps ==
    ASSUME IInv, [Next]_vars
    PROVE  IInv'
<1>1. CASE \E kind \in Kinds : Write(kind)
  BY <1>1, WriteKeeps
<1>2. CASE \E c \in Clients : Connect(c) \/ Serve(c) \/ Disconnect(c)
  BY <1>2, ConnectKeeps, LoadPageKeeps, SendEventKeeps, AnswerPageKeeps, EndKeeps,
     DisconnectKeeps DEF Serve
<1>3. CASE UNCHANGED vars
  BY <1>3 DEF vars, IInv, TypeOK, NothingSkipped, RequestOK, ReadToTheEnd
<1> QED
  BY <1>1, <1>2, <1>3 DEF Next

LEMMA InitHolds == Init => IInv
<1> SUFFICES ASSUME Init PROVE IInv
  OBVIOUS
<1>1. TypeOK
  BY DEF Init, TypeOK, Away, Steps
<1>2. NothingSkipped
  BY DEF Init, NothingSkipped
<1>3. \A c \in Clients : RequestOK(c)
  BY DEF Init, RequestOK, Away
<1>4. \A c \in Streamers : ReadToTheEnd(c)
  BY DEF Init, ReadToTheEnd, Away, Clients
<1> QED
  BY <1>1, <1>2, <1>3, <1>4 DEF IInv

(* What the clients and their requests hold is the same in every reachable *)
(* state: the inductive invariant of the event stream.                     *)
THEOREM StreamInvariance == Spec => []IInv
  BY InitHolds, StepKeeps, PTL DEF Spec

(* The stream, the requests and what was received stay well typed.         *)
THEOREM StreamTypeCorrect == Spec => []TypeOK
<1>1. IInv => TypeOK
  BY DEF IInv
<1> QED
  BY <1>1, StreamInvariance, PTL

(* Whatever is cut off and resumed, a client receives the stream of a run  *)
(* without a gap, a repetition or a change of order.                       *)
THEOREM StreamIsReceivedInOrder == Spec => []NothingSkipped
<1>1. IInv => NothingSkipped
  BY DEF IInv
<1> QED
  BY <1>1, StreamInvariance, PTL

(* stream.end follows an empty page of a run that has been terminal.       *)
THEOREM EndComesLast == Spec => []EndedRunIsRead
<1>1. IInv => EndedRunIsRead
  <2> SUFFICES ASSUME IInv, NEW c \in Streamers, conn[c].pc \in {"end", "ended"}
               PROVE  /\ \E i \in DOMAIN log : log[i] = "close"
                      /\ conn[c].cursor = Received(c)
                      /\ conn[c].cursor >= conn[c].length
    BY DEF EndedRunIsRead
  <2>1. c \in Clients
    BY DEF Clients
  <2> QED
    BY <2>1, ReceivedIsCount DEF IInv, RequestOK, ReadToTheEnd
<1> QED
  BY <1>1, StreamInvariance, PTL
=============================================================================
