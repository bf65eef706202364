---------------------------- MODULE EventStream ----------------------------
(***************************************************************************)
(* Live events of an invocation: EventBus (app/core/streaming/event_bus.py)   *)
(* over the pub/sub of app/cache/redis_client.py, and its two consumers, the   *)
(* `invocation/stream' method of the WebSocket gateway with the registry of     *)
(* StreamManager, and the SSE endpoint of app/api/v1/streaming.py.               *)
(*                                                                         *)
(* A step is the code between two awaits.  The lock of StreamManager is only     *)
(* ever held between two awaits, so it is never contended.  A WebSocket handler   *)
(* answers its requests one at a time: while it streams it reads nothing.         *)
(***************************************************************************)
EXTENDS Naturals, Sequences, SequencesExt, FiniteSets

CONSTANTS Inv,         \* invocations
          Ws,          \* WebSocket clients
          Sse,         \* clients of GET /stream/{id}/events
          MaxLogs,     \* bound: the log events an invocation publishes
          MaxStreams   \* bound: the streams a client opens

ASSUME ClientAssumption == Ws \cap Sse = {}
ASSUME BoundAssumption == MaxLogs \in Nat /\ MaxStreams \in Nat \ {0}

Client == Ws \cup Sse
Final == {"result", "error"}
Event == Final \cup {"log"}

\* The n-th generator event_bus.subscribe has returned for a client.
Generator == Client \X (1 .. MaxStreams)

VARIABLES
  stage,        \* the producer: running, result published, over
  channel,      \* the events published on the invocation's channel
  hub,          \* the generators subscribed to the channel
  queue,        \* what the client's generator has not read yet
  event,        \* the event the handler is sending
  pc,           \* the await of the client's handler
  inv,          \* the invocation it streams
  gen,          \* the generators made for the client so far
  gone,         \* the client has dropped its connection
  connections,  \* StreamManager._connections
  waiters,      \* StreamManager._invocation_waiters
  orphans,      \* generators left at their yield, for the loop to close
  \* History, read by no guard:
  ackedAt,      \* the length of the channel when the client was acknowledged
  openedAt,     \* its length when the generator subscribed
  seen          \* the events sent to the client in its current stream

streamVars == <<queue, event, ackedAt, openedAt, seen>>
clientVars == <<pc, inv, gen, queue, event, ackedAt, openedAt, seen>>
managerVars == <<connections, waiters>>
vars == <<stage, channel, hub, queue, event, pc, inv, gen, gone, connections,
          waiters, orphans, ackedAt, openedAt, seen>>

\* acking: the acknowledgement; subscribing: pubsub.subscribe; waiting:
\* get_message; sending: an event on its way to the client.
Reading == {"waiting", "sending"}
Streaming == Reading \cup {"acking", "subscribing"}
Pc == Streaming \cup {"off", "serving", "closed"}

TypeOK ==
  /\ stage \in [Inv -> {"running", "finished", "over"}]
  /\ channel \in [Inv -> Seq(Event)]
  /\ hub \in [Inv -> SUBSET Generator]
  /\ queue \in [Client -> Seq(Event)]
  /\ event \in [Client -> Event]
  /\ pc \in [Client -> Pc]
  /\ inv \in [Client -> Inv]
  /\ gen \in [Client -> 0 .. MaxStreams]
  /\ gone \in [Client -> BOOLEAN]
  /\ connections \in SUBSET Ws
  /\ waiters \in [Inv -> SUBSET Ws]
  /\ orphans \in SUBSET Generator
  /\ ackedAt \in [Client -> 0 .. MaxLogs + 2]
  /\ openedAt \in [Client -> 0 .. MaxLogs + 2]
  /\ seen \in [Client -> Seq(Event)]

Init ==
  /\ stage = [i \in Inv |-> "running"]
  /\ channel = [i \in Inv |-> <<>>]
  /\ hub = [i \in Inv |-> {}]
  /\ queue = [c \in Client |-> <<>>]
  /\ event = [c \in Client |-> "log"]
  /\ pc = [c \in Client |-> "off"]
  /\ inv \in [Client -> Inv]
  /\ gen = [c \in Client |-> 0]
  /\ gone = [c \in Client |-> FALSE]
  /\ connections = {}
  /\ waiters = [i \in Inv |-> {}]
  /\ orphans = {}
  /\ ackedAt = [c \in Client |-> 0]
  /\ openedAt = [c \in Client |-> 0]
  /\ seen = [c \in Client |-> <<>>]

-----------------------------------------------------------------------------
(***************************************************************************)
(* The producer, ExecutionService._run.  An event is put in the queue of every *)
(* generator subscribed at that moment; a publish that fails is swallowed.      *)
(***************************************************************************)
Current(c) == <<c, gen[c]>>

\* Mutant: only one of the subscribers gets the event (a shared queue).
Broadcast_OneSubscriber(i, e) ==
  /\ channel' = [channel EXCEPT ![i] = Append(@, e)]
  /\ IF \E c \in Client : pc[c] \in Reading /\ Current(c) \in hub[i]
     THEN \E d \in Client :
            /\ pc[d] \in Reading /\ Current(d) \in hub[i]
            /\ queue' = [queue EXCEPT ![d] = Append(@, e)]
     ELSE UNCHANGED queue

Broadcast(i, e) ==
  /\ channel' = [channel EXCEPT ![i] = Append(@, e)]
  /\ queue' = [c \in Client |->
                 IF pc[c] \in Reading /\ Current(c) \in hub[i]
                 THEN Append(queue[c], e) ELSE queue[c]]

ProducerStep(i, s, t) ==
  /\ stage[i] = s
  /\ stage' = [stage EXCEPT ![i] = t]
  /\ UNCHANGED <<hub, event, pc, inv, gen, gone, managerVars, orphans, ackedAt,
                 openedAt, seen>>

PublishLog(i) ==
  /\ Len(channel[i]) < MaxLogs
  /\ Broadcast(i, "log")
  /\ ProducerStep(i, "running", "running")

PublishResult(i) ==
  /\ Broadcast(i, "result")
  /\ ProducerStep(i, "running", "finished")

\* The audit log follows the result on the same channel.
PublishAudit(i) ==
  /\ Broadcast(i, "log")
  /\ ProducerStep(i, "finished", "over")

PublishError(i) ==
  /\ Broadcast(i, "error")
  /\ ProducerStep(i, "running", "over")

\* Cancelled, interrupted, or the final publish was lost: no final event.
EndSilently(i) ==
  /\ ProducerStep(i, "running", "over")
  /\ UNCHANGED <<channel, queue>>

-----------------------------------------------------------------------------
(***************************************************************************)
(* Connections.                                                               *)
(***************************************************************************)
Connect(c) ==
  /\ pc[c] = "off" /\ c \in Ws
  /\ pc' = [pc EXCEPT ![c] = "serving"]
  /\ connections' = connections \cup {c}
  /\ UNCHANGED <<stage, channel, hub, queue, event, inv, gen, gone, waiters,
                 orphans, ackedAt, openedAt, seen>>

\* The peer vanishes; the handler finds out at its next read or send.
Vanish(c) ==
  /\ pc[c] \in Streaming \cup {"serving"} /\ ~gone[c]
  /\ gone' = [gone EXCEPT ![c] = TRUE]
  /\ UNCHANGED <<stage, channel, hub, clientVars, managerVars, orphans>>

\* Mutant: disconnect forgets the invocation waiters.
Deregister_KeepsWaiters(c) == connections' = connections \ {c} /\ UNCHANGED waiters

\* StreamManager.disconnect.
Deregister(c) == /\ connections' = connections \ {c}
                 /\ waiters' = [i \in Inv |-> waiters[i] \ {c}]

\* receive_text, or the keepalive ping, raises.
Hangup(c) ==
  /\ pc[c] = "serving" /\ gone[c]
  /\ pc' = [pc EXCEPT ![c] = "closed"]
  /\ Deregister(c)
  /\ UNCHANGED <<stage, channel, hub, queue, event, inv, gen, gone, orphans,
                 ackedAt, openedAt, seen>>

-----------------------------------------------------------------------------
(***************************************************************************)
(* A stream.                                                                  *)
(***************************************************************************)

\* Mutant: the SSE endpoint registers its client as a waiting socket.
OpenStream_RegistersSse(c, i) ==
  /\ pc[c] = (IF c \in Ws THEN "serving" ELSE "off")
  /\ ~gone[c] /\ gen[c] < MaxStreams
  /\ pc' = [pc EXCEPT ![c] = "acking"]
  /\ inv' = [inv EXCEPT ![c] = i]
  /\ gen' = [gen EXCEPT ![c] = @ + 1]
  /\ waiters' = [waiters EXCEPT ![i] = @ \cup {c}]
  /\ UNCHANGED <<stage, channel, hub, streamVars, gone, connections, orphans>>

\* invocation/stream on an open socket, or GET /stream/{id}/events.
OpenStream(c, i) ==
  /\ pc[c] = (IF c \in Ws THEN "serving" ELSE "off")
  /\ ~gone[c] /\ gen[c] < MaxStreams
  /\ pc' = [pc EXCEPT ![c] = "acking"]
  /\ inv' = [inv EXCEPT ![c] = i]
  /\ gen' = [gen EXCEPT ![c] = @ + 1]
  /\ waiters' = [waiters EXCEPT ![i] = @ \cup ({c} \cap Ws)]
  /\ UNCHANGED <<stage, channel, hub, streamVars, gone, connections, orphans>>

\* {"subscribed": true} or the `connected' event.
Acknowledge(c) ==
  /\ pc[c] = "acking"
  /\ pc' = [pc EXCEPT ![c] = "subscribing"]
  /\ ackedAt' = [ackedAt EXCEPT ![c] = Len(channel[inv[c]])]
  /\ UNCHANGED <<stage, channel, hub, queue, event, inv, gen, gone, managerVars,
                 orphans, openedAt, seen>>

\* The acknowledgement is sent before the try of the handler; its error, and that
\* of the error reply, end the gateway loop.
AcknowledgeFails(c) ==
  /\ pc[c] = "acking" /\ gone[c] /\ c \in Ws
  /\ pc' = [pc EXCEPT ![c] = "closed"]
  /\ Deregister(c)
  /\ UNCHANGED <<stage, channel, hub, queue, event, inv, gen, gone, orphans,
                 ackedAt, openedAt, seen>>

Subscribe(c) ==
  /\ pc[c] = "subscribing"
  /\ pc' = [pc EXCEPT ![c] = "waiting"]
  /\ hub' = [hub EXCEPT ![inv[c]] = @ \cup {Current(c)}]
  /\ openedAt' = [openedAt EXCEPT ![c] = Len(channel[inv[c]])]
  /\ UNCHANGED <<stage, channel, queue, event, inv, gen, gone, managerVars,
                 orphans, ackedAt, seen>>

Receive(c) ==
  /\ pc[c] = "waiting" /\ queue[c] # <<>>
  /\ pc' = [pc EXCEPT ![c] = "sending"]
  /\ event' = [event EXCEPT ![c] = Head(queue[c])]
  /\ queue' = [queue EXCEPT ![c] = Tail(@)]
  /\ UNCHANGED <<stage, channel, hub, inv, gen, gone, managerVars, orphans,
                 ackedAt, openedAt, seen>>

Forget(c) ==
  /\ queue' = [queue EXCEPT ![c] = <<>>]
  /\ event' = [event EXCEPT ![c] = "log"]
  /\ ackedAt' = [ackedAt EXCEPT ![c] = 0]
  /\ openedAt' = [openedAt EXCEPT ![c] = 0]
  /\ seen' = [seen EXCEPT ![c] = <<>>]

\* The end of the handler: the socket is served again, the response is complete,
\* the locals are gone.
StreamOver(c) ==
  /\ pc' = [pc EXCEPT ![c] = IF c \in Ws THEN "serving" ELSE "closed"]
  /\ Forget(c)
  /\ waiters' = [waiters EXCEPT ![inv[c]] = @ \ {c}]
  /\ UNCHANGED connections

\* The event just sent was the final one.
SentLast(c) == event[c] \in Final

\* After the final event the consumer leaves its loop, and the generator stays
\* suspended at its yield until the loop closes it.
Sent(c) ==
  /\ pc[c] = "sending"
  /\ IF SentLast(c)
     THEN StreamOver(c) /\ orphans' = orphans \cup {Current(c)}
     ELSE /\ pc' = [pc EXCEPT ![c] = "waiting"]
          /\ seen' = [seen EXCEPT ![c] = Append(@, event[c])]
          /\ UNCHANGED <<managerVars, orphans, queue, event, ackedAt, openedAt>>
  /\ UNCHANGED <<stage, channel, hub, inv, gen, gone>>

\* send_text raises: the handler leaves the loop.
SendFails(c) ==
  /\ pc[c] = "sending" /\ gone[c] /\ c \in Ws
  /\ StreamOver(c)
  /\ orphans' = orphans \cup {Current(c)}
  /\ UNCHANGED <<stage, channel, hub, inv, gen, gone>>

\* Mutant: the generator's finally only closes the connection object.
Unsubscribe_Skipped(c) == UNCHANGED hub

\* The finally of the generator.  Its unsubscribe fails only with the connection it
\* would be sent on, and with that the server has ended the subscription; the aclose
\* that the error skips only returns the connection object to the client's own pool.
Unsubscribe(c) == hub' = [hub EXCEPT ![inv[c]] = @ \ {Current(c)}]

\* Mutant: no deadline, as long as Redis answers.
Expire_Never(c) ==
  /\ pc[c] = "subscribing"
  /\ Unsubscribe(c)
  /\ StreamOver(c)
  /\ UNCHANGED <<stage, channel, inv, gen, gone, orphans>>

\* The generator ends itself: the deadline has passed or Redis raised.  What it
\* has not read is dropped.
Expire(c) ==
  /\ pc[c] \in {"subscribing", "waiting"}
  /\ Unsubscribe(c)
  /\ StreamOver(c)
  /\ UNCHANGED <<stage, channel, inv, gen, gone, orphans>>

\* An SSE response whose client is gone is cancelled.  At an await of the generator
\* its finally runs; while an event is being sent the generators are dropped.
Abort(c) ==
  /\ pc[c] \in Streaming /\ gone[c] /\ c \in Sse
  /\ IF pc[c] = "sending"
     THEN orphans' = orphans \cup {Current(c)} /\ UNCHANGED hub
     ELSE Unsubscribe(c) /\ UNCHANGED orphans
  /\ StreamOver(c)
  /\ UNCHANGED <<stage, channel, inv, gen, gone>>

\* The event loop's finalizer hook closes a dropped generator.
CloseOrphan(g) ==
  /\ g \in orphans
  /\ orphans' = orphans \ {g}
  /\ hub' = [i \in Inv |-> hub[i] \ {g}]
  /\ UNCHANGED <<stage, channel, clientVars, gone, managerVars>>

-----------------------------------------------------------------------------
Produce(i) == \/ PublishLog(i) \/ PublishResult(i) \/ PublishAudit(i)
              \/ PublishError(i) \/ EndSilently(i)

Handle(c) == \/ Hangup(c) \/ Acknowledge(c) \/ AcknowledgeFails(c)
             \/ Subscribe(c) \/ Receive(c) \/ Sent(c) \/ SendFails(c)
             \/ Expire(c) \/ Abort(c)

Next == \/ \E i \in Inv : Produce(i)
        \/ \E c \in Client : Connect(c) \/ Vanish(c) \/ Handle(c)
        \/ \E c \in Client, i \in Inv : OpenStream(c, i)
        \/ \E g \in Generator : CloseOrphan(g)

Spec == Init /\ [][Next]_vars

\* The event loop runs every ready handler and finalizer, a send returns or
\* raises, and the deadline of a stream passes.  Nothing is assumed of the
\* producers or the clients.
FairSpec == /\ Spec
            /\ \A c \in Client : WF_vars(Handle(c))
            /\ \A g \in Generator : WF_vars(CloseOrphan(g))

-----------------------------------------------------------------------------
(***************************************************************************)
(* Properties.                                                                *)
(***************************************************************************)

\* From the moment its generator has subscribed, a client is sent what the channel
\* carries: nothing skipped, repeated or reordered; what it has not been sent is
\* still in its queue.
StreamFaithful ==
  \A c \in Client :
    LET published == SubSeq(channel[inv[c]], openedAt[c] + 1, Len(channel[inv[c]]))
    IN /\ pc[c] = "waiting" => seen[c] \o queue[c] = published
       /\ pc[c] = "sending" => seen[c] \o <<event[c]>> \o queue[c] = published

\* StreamManager knows exactly the open sockets, and as waiters of an invocation
\* exactly the sockets that stream it: no exit of the handler leaves one behind.
ManagerExact ==
  /\ connections = {c \in Ws : pc[c] \notin {"off", "closed"}}
  /\ \A i \in Inv : waiters[i] = {c \in Ws : pc[c] \in Streaming /\ inv[c] = i}

\* A subscription belongs to a generator that is being read or is about to be
\* closed; none is shared, none is forgotten.
HubExact ==
  \A i \in Inv : \A g \in hub[i] :
    \/ g \in orphans
    \/ Current(g[1]) = g /\ pc[g[1]] \in Reading /\ inv[g[1]] = i

\* Whatever the producer does -- it may be cancelled and never publish a final
\* event -- and wherever the client vanishes, a stream ends.
EveryStreamEnds == \A c \in Client : pc[c] \in Streaming ~> pc[c] \notin Streaming

\* A subscription made for a stream is given back, on the paths that drop the
\* generator too.
SubscriptionsReleased ==
  \A i \in Inv, g \in Generator : g \in hub[i] ~> g \notin hub[i]

\* POST /execute/async: "Subscribe to /ws or poll GET /execute/{id} to get the
\* result".  A client that has been told {"subscribed": true} before the final event
\* is published is sent it.
AcknowledgedGetsResult ==
  \A c \in Client : pc[c] = "waiting" =>
    \A n \in ackedAt[c] + 1 .. openedAt[c] : channel[inv[c]][n] \notin Final

=============================================================================
