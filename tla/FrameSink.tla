----------------------------- MODULE FrameSink ------------------------------
(***************************************************************************)
(* The socket transports of transport.js: a pump hands every message of    *)
(* one connection to a sink, which cuts the sequence into frames and       *)
(* streamed bodies, and the loop of upstream.js takes the frames in turn,  *)
(* storing or cancelling the body of each.                                 *)
(*                                                                         *)
(* A message is named by its position on the socket.  Worker code runs     *)
(* between two awaits without interruption, so accept, end and a round of  *)
(* frames() are one action each.                                           *)
(***************************************************************************)
EXTENDS Integers, Sequences, SequencesExt

CONSTANTS
    Limit,         \* SOCKET_QUEUE_LIMIT
    Sizes,         \* payload sizes a header declares
    Infinity,      \* the size of a payload that declares none
    Weights,       \* sizes of binary messages
    MaxMessages    \* bound: messages the server sends on a connection

ASSUME SinkAssumption ==
    /\ Limit \in Nat \ {0}
    /\ Sizes \subseteq Nat
    /\ Infinity \notin Nat
    /\ Weights \subseteq Nat
    /\ MaxMessages \in Nat

VARIABLES
    transport,    \* which of the two socket transports won
    sent,         \* the messages the server sends before it stops, in order
    accepted,     \* how many messages the sink took
    lost,         \* how many were handed to it after that and raised an error
    pump,         \* whether messages are still handed to the sink
    queue,        \* headers of the frames waiting in the sink
    payload,      \* header of the payload binary messages belong to, or 0
    bodies,       \* the body stream of every blob header
    ended,        \* why the sink ended
    consumer      \* the loop that takes frames: where it is, its last frame

sinkVars == <<transport, sent, accepted, lost, pump, queue, payload,
              bodies, ended, consumer>>

Positions == 1..MaxMessages

Messages ==
    [kind : {"event"}, size : {0}] \cup
    [kind : {"blob"}, size : Sizes \cup {Infinity}] \cup
    [kind : {"bytes"}, size : Weights]

Bodies == [bytes : Seq(Positions), received : Nat, state : {"open", "closed", "cancelled"}]

NoBody == [bytes |-> <<>>, received |-> 0, state |-> "closed"]

SinkTypeOK ==
    /\ transport \in {"stream", "plain"}
    /\ sent \in Seq(Messages) /\ Len(sent) <= MaxMessages
    /\ accepted \in Nat
    /\ lost \in Nat
    /\ accepted + lost <= Len(sent)
    /\ pump \in {"running", "stopped"}
    /\ queue \in Seq(Positions)
    /\ payload \in {i \in 1..accepted : sent[i].kind = "blob"} \cup {0}
    /\ bodies \in [Positions -> Bodies]
    /\ ended \in {"no", "done", "error"}
    /\ consumer \in [pc : {"next", "parked", "busy", "over", "left"}, frame : Positions \cup {0}]

(* ws:// with WebSocketStream in reach, or without it. *)
SinkInit ==
    /\ transport \in {"stream", "plain"}
    /\ sent \in UNION {[1..n -> Messages] : n \in 0..MaxMessages}
    /\ accepted = 0
    /\ lost = 0
    /\ pump = "running"
    /\ queue = <<>>
    /\ payload = 0
    /\ bodies = [i \in Positions |-> NoBody]
    /\ ended = "no"
    /\ consumer = [pc |-> "next", frame |-> 0]

-----------------------------------------------------------------------------
(* The sink.  Closing or feeding a stream its reader has cancelled throws, *)
(* at the first line that touches the payload.                             *)
Jammed == payload # 0 /\ bodies[payload].state = "cancelled"

WakeUp == consumer' = [consumer EXCEPT !.pc = IF @ = "parked" THEN "next" ELSE @]

Closing(b) == IF payload = 0 THEN b ELSE [b EXCEPT ![payload].state = "closed"]

Reaches(n, size) == size # Infinity /\ n >= size

\* Fault: the body ends one message late.
FeedsPast(i) ==
    IF payload = 0 THEN UNCHANGED <<payload, bodies>>
    ELSE LET full == Reaches(bodies[payload].received, sent[payload].size) IN
         /\ bodies' = [bodies EXCEPT ![payload].bytes = Append(@, i),
                                     ![payload].received = @ + sent[i].size,
                                     ![payload].state = IF full THEN "closed" ELSE "open"]
         /\ payload' = IF full THEN 0 ELSE payload

(* A binary message belongs to the payload under way, and ends it once     *)
(* that has all it declared.  With none under way it is dropped.           *)
Feeds(i) ==
    IF payload = 0 THEN UNCHANGED <<payload, bodies>>
    ELSE LET body == [bodies[payload] EXCEPT
                        !.bytes = Append(@, i), !.received = @ + sent[i].size]
             full == Reaches(body.received, sent[payload].size) IN
         /\ bodies' = [bodies EXCEPT ![payload] =
                        IF full THEN [body EXCEPT !.state = "closed"] ELSE body]
         /\ payload' = IF full THEN 0 ELSE payload

\* Fault: the payload before it is replaced, and never closed.
HeadsOver(i) ==
    /\ bodies' = IF sent[i].kind = "blob" THEN [bodies EXCEPT ![i].state = "open"] ELSE bodies
    /\ payload' = IF sent[i].kind = "blob" THEN i ELSE 0
    /\ queue' = Append(queue, i)

(* A text message ends the payload before it, and is a frame. *)
Heads(i) ==
    /\ bodies' = IF sent[i].kind = "blob"
                 THEN [Closing(bodies) EXCEPT ![i].state = "open"]
                 ELSE Closing(bodies)
    /\ payload' = IF sent[i].kind = "blob" THEN i ELSE 0
    /\ queue' = Append(queue, i)

Accept(i) ==
    /\ accepted' = i
    /\ lost' = lost
    /\ IF sent[i].kind = "bytes"
       THEN Feeds(i) /\ UNCHANGED <<queue, consumer>>
       ELSE Heads(i) /\ WakeUp

\* Fault: the body under way is left to itself.
EndsFramesOnly(reason) ==
    /\ ended' = IF ended = "no" THEN reason ELSE ended
    /\ WakeUp
    /\ UNCHANGED <<payload, bodies>>

(* end() records the reason before it touches the payload: when that       *)
(* throws, nobody is woken.                                                *)
End(reason) ==
    /\ ended' = IF ended = "no" THEN reason ELSE ended
    /\ IF Jammed
       THEN UNCHANGED <<payload, bodies, consumer>>
       ELSE bodies' = Closing(bodies) /\ payload' = 0 /\ WakeUp

-----------------------------------------------------------------------------
\* Fault: the pump goes by the queue it had before the last message.
ReadyAtLimit == pump = "running" /\ (transport = "stream" => Len(queue) <= Limit)

(* The pump of a WebSocketStream reads nothing while the queue is full;    *)
(* plain WebSocket messages come as events.                                *)
Ready == pump = "running" /\ (transport = "stream" => Len(queue) < Limit)

NextMessage == accepted + lost + 1

Hands ==
    /\ Ready
    /\ NextMessage <= Len(sent)

(* Past its limit the plain socket gives up, and a later connection        *)
(* resumes from the stored cursor.                                         *)
Overflows(q) == transport = "plain" /\ Len(q) > Limit

Takes ==
    /\ Hands
    /\ ~Jammed
    /\ Accept(NextMessage)
    /\ ~Overflows(queue')
    /\ UNCHANGED <<transport, sent, pump, ended>>

(* The message that overflows the queue is the last: the end closes the    *)
(* payload it may have opened.                                             *)
GivesUp ==
    /\ Hands
    /\ ~Jammed
    /\ sent[NextMessage].kind # "bytes"
    /\ Overflows(Append(queue, NextMessage))
    /\ accepted' = NextMessage
    /\ queue' = Append(queue, NextMessage)
    /\ bodies' = Closing(bodies)
    /\ payload' = 0
    /\ WakeUp
    /\ ended' = "error"
    /\ pump' = "stopped"
    /\ UNCHANGED <<transport, sent, lost>>

(* accept throws.  The pump's catch ends the sink, which throws as well;   *)
(* an event listener drops the message and lives on.                       *)
Throws ==
    /\ Hands
    /\ Jammed
    /\ lost' = lost + 1
    /\ IF transport = "stream"
       THEN End("error") /\ pump' = "stopped"
       ELSE UNCHANGED <<payload, bodies, ended, consumer, pump>>
    /\ UNCHANGED <<transport, sent, accepted, queue>>

(* A close arrives after all that was sent; an error overtakes it. *)
SocketEnds ==
    /\ Ready
    /\ \/ NextMessage > Len(sent) /\ End("done")
       \/ End("error")
    /\ pump' = "stopped"
    /\ UNCHANGED <<transport, sent, accepted, lost, queue>>

-----------------------------------------------------------------------------
(* frames() and the loop over it.                                          *)

\* Fault: pop for shift.
TakesLastFrame ==
    /\ consumer.pc = "next"
    /\ queue # <<>>
    /\ consumer' = [pc |-> "busy", frame |-> Last(queue)]
    /\ queue' = Front(queue)
    /\ UNCHANGED <<transport, sent, accepted, lost, pump, payload, bodies, ended>>

TakesFrame ==
    /\ consumer.pc = "next"
    /\ queue # <<>>
    /\ consumer' = [pc |-> "busy", frame |-> Head(queue)]
    /\ queue' = Tail(queue)
    /\ UNCHANGED <<transport, sent, accepted, lost, pump, payload, bodies, ended>>

FindsNone ==
    /\ consumer.pc = "next"
    /\ queue = <<>>
    /\ consumer' = [consumer EXCEPT !.pc = IF ended = "no" THEN "parked" ELSE "over"]
    /\ UNCHANGED <<transport, sent, accepted, lost, pump, queue, payload, bodies, ended>>

(* An event is logged, or a body stored, to its end. *)
Finishes ==
    /\ consumer.pc = "busy"
    /\ sent[consumer.frame].kind = "blob" => bodies[consumer.frame].state # "open"
    /\ consumer' = [consumer EXCEPT !.pc = "next"]
    /\ UNCHANGED <<transport, sent, accepted, lost, pump, queue, payload, bodies, ended>>

(* A payload that is already here, or that another context is writing. *)
Cancels ==
    /\ consumer.pc = "busy"
    /\ sent[consumer.frame].kind = "blob"
    /\ bodies' = [bodies EXCEPT ![consumer.frame].state = "cancelled"]
    /\ consumer' = [consumer EXCEPT !.pc = "next"]
    /\ UNCHANGED <<transport, sent, accepted, lost, pump, queue, payload, ended>>

(* An append or a write fails: the loop is left, the socket is not. *)
Leaves ==
    /\ consumer.pc = "busy"
    /\ consumer' = [consumer EXCEPT !.pc = "left"]
    /\ UNCHANGED <<transport, sent, accepted, lost, pump, queue, payload, bodies, ended>>

-----------------------------------------------------------------------------
SinkNext ==
    \/ Takes
    \/ GivesUp
    \/ Throws
    \/ SocketEnds
    \/ TakesFrame
    \/ FindsNone
    \/ Finishes
    \/ Cancels
    \/ Leaves

(* The worker's own steps; nothing is assumed of the socket, nor that a    *)
(* frame is ever cancelled.                                                *)
SinkFairness ==
    /\ WF_sinkVars(Takes)
    /\ WF_sinkVars(GivesUp)
    /\ WF_sinkVars(Throws)
    /\ WF_sinkVars(TakesFrame)
    /\ WF_sinkVars(FindsNone)
    /\ WF_sinkVars(Finishes)

SinkSpec == SinkInit /\ [][SinkNext]_sinkVars /\ SinkFairness

-----------------------------------------------------------------------------
(* Properties.                                                             *)

IsHeader(i) == sent[i].kind # "bytes"

(* Between the last frame the loop took and the last message the sink      *)
(* accepted, the queue is exactly the headers, in the order of the socket: *)
(* no frame is skipped, repeated or overtaken while bodies stream.         *)
FramesInOrder ==
    /\ \A a, b \in 1..Len(queue) : a < b => queue[a] < queue[b]
    /\ Range(queue) = {i \in 1..accepted : i > consumer.frame /\ IsHeader(i)}

(* What the messages from h + 1 to i carry together. *)
Carried(messages, h, i) ==
    LET sum[j \in Nat] == IF j <= h THEN 0 ELSE sum[j - 1] + messages[j].size
    IN  sum[i]

\* Whether payload h has all it declared once the sink accepted up to i.
Complete(h, i) == Reaches(Carried(sent, h, i), sent[h].size)

(* "The binary messages after it are its body, ending at the declared      *)
(* length" (transport.js:183) is not so for a payload declared as empty:   *)
(* the length is compared when a message arrives, not when the header      *)
(* does, so it stays open behind its header and takes the first message.   *)
Overlooked(h, i) == i = h /\ sent[h].size = 0

(* A body holds the binary messages right behind its header, up to the one *)
(* that completes it and none of the next payload's, and is closed by that *)
(* one, by another header or by the end of the socket, and never before -  *)
(* except that an empty payload goes on to its first message, if one comes.*)
BodyIsItsOwn ==
    \A h \in 1..accepted : sent[h].kind = "blob" =>
        \E last \in h..accepted :
            LET full == Complete(h, last) /\ ~Overlooked(h, last)
                cut == last < accepted /\ IsHeader(last + 1) IN
            /\ bodies[h].bytes = [n \in 1..(last - h) |-> h + n]
            /\ \A i \in (h + 1)..last : ~IsHeader(i)
            /\ \A i \in h..(last - 1) : ~Complete(h, i) \/ Overlooked(h, i)
            /\ full \/ cut \/ last = accepted
            /\ bodies[h].state # "cancelled" =>
                (bodies[h].state = "open" <=> ~full /\ ~cut /\ ended = "no")

(* However slow the loop, the frames waiting for it stay bounded: reading  *)
(* stops, or the plain socket gives up one frame past the limit.           *)
DepthBounded == Len(queue) <= IF transport = "stream" THEN Limit ELSE Limit + 1

Handed == accepted + lost

Gone == consumer.pc \in {"over", "left"}

(* A payload is terminated by whatever comes next, or "the connection      *)
(* looks alive while nothing moves" (transport.js:220-223): a header that  *)
(* was handed to the sink becomes a frame of the loop, or the loop ends    *)
(* and the upstream reconnects.                                            *)
KeepsMoving ==
    \A i \in Positions :
        (Handed >= i /\ IsHeader(i)) ~> (consumer.frame >= i \/ Gone)

(* Unless a body was cancelled before it was complete, every message sent  *)
(* reaches the sink or the connection ends and the loop with it:           *)
(* backpressure never waits for a frame that waits for it.                 *)
DrainsUnlessCancelled == <>(Handed = Len(sent) \/ Gone \/ Jammed)

(* Unless a body was cancelled before it was complete, the end of a socket *)
(* ends the loop, so that it can reconnect.                                *)
EndSeenUnlessCancelled == (pump = "stopped") ~> (Gone \/ Jammed)

=============================================================================
