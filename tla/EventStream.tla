----------------------------- MODULE EventStream -----------------------------
(***************************************************************************)
(* collector/events.py and the WebSocket endpoint of event_server.py: events *)
(* fan out to one bounded queue per subscriber.  An event is its number.     *)
(***************************************************************************)
EXTENDS Integers, FiniteSetsExt, SequencesExt

CONSTANTS
  Clients,       \* browsers; each connects at most once
  QueueSize,
  None           \* no event

ASSUME QueueAssumption == QueueSize \in Nat \ {0} /\ IsFiniteSet(Clients)

VARIABLES
  stream,        \* emitted and dropped, as counted
  clients

streamVars == <<stream, clients>>

\* state: "new", "open", "left" (the browser has gone, the server has not
\* noticed) or "closed".  from, taken: for the properties.
Client == [state |-> "new", queue |-> <<>>, sending |-> None, from |-> 0, taken |-> 0]

Subscribed(c) == clients[c].state \in {"open", "left"}

StreamInit ==
  /\ stream = [emitted |-> 0, dropped |-> 0]
  /\ clients = [c \in Clients |-> Client]

\* put_nowait; on QueueFull the oldest makes room.
Offer(queue, e) == Append(IF Len(queue) < QueueSize THEN queue ELSE Tail(queue), e)

Offered(k, queue) ==
  LET after[n \in 0 .. k] == IF n = 0 THEN queue ELSE Offer(after[n - 1], stream.emitted + n)
  IN after[k]

\* Mutant of Overflow: a subscriber counts once however much it loses.
Overflow_Once(k, queue) == IF Len(queue) + k > QueueSize THEN 1 ELSE 0

Overflow(k, queue) == Max({0, Len(queue) + k - QueueSize})

\* k calls of emit in one step of the event loop.
Emit(k) ==
  LET full == {c \in Clients : Subscribed(c)}
  IN /\ clients' = [c \in Clients |->
           IF c \in full THEN [clients[c] EXCEPT !.queue = Offered(k, @)] ELSE clients[c]]
     /\ stream' = [emitted |-> stream.emitted + k,
                   dropped |-> stream.dropped
                               + SumFunction([c \in full |-> Overflow(k, clients[c].queue)])]

-----------------------------------------------------------------------------
\* accept; the generator registers its queue before the loop runs again.
Open(c) ==
  /\ clients[c].state = "new"
  /\ clients' = [clients EXCEPT ![c].state = "open", ![c].from = stream.emitted]
  /\ UNCHANGED stream

Leave(c) ==
  /\ clients[c].state = "open"
  /\ clients' = [clients EXCEPT ![c].state = "left"]
  /\ UNCHANGED stream

\* queue.get, and the start of send_text.
Take(c) ==
  /\ Subscribed(c) /\ clients[c].sending = None /\ clients[c].queue # <<>>
  /\ clients' = [clients EXCEPT ![c].sending = Head(clients[c].queue),
                                ![c].queue = Tail(@), ![c].taken = @ + 1]
  /\ UNCHANGED stream

Sent(c) ==
  /\ clients[c].state = "open" /\ clients[c].sending # None
  /\ clients' = [clients EXCEPT ![c].sending = None]
  /\ UNCHANGED stream

\* send_text raises, and the generator is closed.  Only a send finds out.
Hangup(c) ==
  /\ clients[c].state = "left" /\ clients[c].sending # None
  /\ clients' = [clients EXCEPT ![c].state = "closed"]
  /\ UNCHANGED stream

Serve == \E c \in Clients : Open(c) \/ Leave(c) \/ Take(c) \/ Sent(c) \/ Hangup(c)

-----------------------------------------------------------------------------
\* events.py: "Subscribers that cannot keep up lose the oldest events": what waits for a subscriber is the newest
\* events there are, in order and without a hole, and stream.dropped is exactly what no subscriber will be given
\* although it had subscribed before it was emitted, as long as none of them has gone away.
OnlyTheOldestDropped ==
  /\ \A c \in Clients : Subscribed(c) =>
       LET q == clients[c].queue
       IN Len(q) <= QueueSize /\ q = [i \in 1 .. Len(q) |-> stream.emitted - Len(q) + i]
  /\ (\A c \in Clients : clients[c].state # "closed") =>
       stream.dropped = SumFunction([c \in {d \in Clients : Subscribed(d)} |->
                          stream.emitted - clients[c].from - clients[c].taken - Len(clients[c].queue)])
=============================================================================
