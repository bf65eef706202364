-------------------------- MODULE EventStreamProofs --------------------------
(***************************************************************************)
(* Machine-checked proofs about EventStream: for every set of invocations and     *)
(* clients, any number of log events and of streams per client.                   *)
(***************************************************************************)
EXTENDS EventStream, SequenceTheorems, TLAPS

-----------------------------------------------------------------------------
(***************************************************************************)
(* The inductive invariant.                                                    *)
(***************************************************************************)

\* How much a producer can still publish.
LengthOK ==
  \A i \in Inv : /\ stage[i] = "running" => Len(channel[i]) <= MaxLogs
                 /\ stage[i] = "finished" => Len(channel[i]) <= MaxLogs + 1
                 /\ Len(channel[i]) <= MaxLogs + 2

\* A client that reads no generator has nothing in hand; one that does has subscribed
\* at some point of the channel.
LocalsOK ==
  \A c \in Client :
    /\ pc[c] \notin Reading => queue[c] = <<>> /\ seen[c] = <<>>
    /\ pc[c] \in Reading => openedAt[c] <= Len(channel[inv[c]])

\* The generators subscribed or dropped are among those made.
MadeOK ==
  \A g \in Generator :
    g \in orphans \/ (\E i \in Inv : g \in hub[i]) => g[2] <= gen[g[1]]

\* The generator of a stream is subscribed exactly while it is read, and not dropped.
CurrentOK ==
  \A c \in Client : pc[c] \in Streaming =>
    /\ gen[c] >= 1
    /\ Current(c) \notin orphans
    /\ pc[c] \in Reading => Current(c) \in hub[inv[c]]
    /\ pc[c] \notin Reading => \A i \in Inv : Current(c) \notin hub[i]

IndInv == /\ TypeOK /\ LengthOK /\ LocalsOK /\ MadeOK /\ CurrentOK
          /\ ManagerExact /\ HubExact /\ StreamFaithful

-----------------------------------------------------------------------------
(***************************************************************************)
(* Lemmas.                                                                     *)
(***************************************************************************)

\* The generator of a stream is one of the client's, and no other client's.
LEMMA CurrentMade ==
  ASSUME TypeOK, NEW c \in Client, gen[c] >= 1
  PROVE  /\ Current(c) \in Generator
         /\ Current(c)[1] = c /\ Current(c)[2] = gen[c]
<1>1. gen[c] \in 1 .. MaxStreams
  BY BoundAssumption DEF TypeOK
<1>. QED  BY <1>1 DEF Current, Generator

\* What an append leaves of a channel from position o on: the same and the new event.
LEMMA TailGrows ==
  ASSUME NEW s \in Seq(Event), NEW e \in Event, NEW o \in Nat, o <= Len(s)
  PROVE  SubSeq(Append(s, e), o + 1, Len(Append(s, e)))
           = Append(SubSeq(s, o + 1, Len(s)), e)
<1>. DEFINE a == Append(s, e)
            b == SubSeq(s, o + 1, Len(s))
<1>1. a \in Seq(Event) /\ Len(a) = Len(s) + 1 /\ Len(s) \in Nat
  BY AppendProperties
<1>2. /\ \A n \in 1 .. Len(s) : a[n] = s[n]
      /\ a[Len(s) + 1] = e
  BY AppendProperties
<1>. HIDE DEF a
<1>3. /\ b \in Seq(Event) /\ Len(b) = Len(s) - o
      /\ \A n \in 1 .. Len(s) - o : b[n] = s[o + n]
  <2>1. \A n \in o + 1 .. Len(s) : s[n] \in Event
    BY <1>1, ElementOfSeq
  <2>2. /\ b \in Seq(Event)
        /\ Len(b) = IF o + 1 <= Len(s) THEN Len(s) - (o + 1) + 1 ELSE 0
        /\ \A n \in 1 .. Len(s) - (o + 1) + 1 : b[n] = s[(o + 1) + n - 1]
    BY <1>1, <2>1, SubSeqProperties
  <2>. QED  BY <1>1, <2>2
<1>4. /\ SubSeq(a, o + 1, Len(a)) \in Seq(Event)
      /\ Len(SubSeq(a, o + 1, Len(a))) = Len(s) - o + 1
      /\ \A n \in 1 .. Len(s) - o + 1 : SubSeq(a, o + 1, Len(a))[n] = a[o + n]
  <2>1. \A n \in o + 1 .. Len(a) : a[n] \in Event
    BY <1>1, ElementOfSeq
  <2>2. /\ SubSeq(a, o + 1, Len(a)) \in Seq(Event)
        /\ Len(SubSeq(a, o + 1, Len(a)))
             = IF o + 1 <= Len(a) THEN Len(a) - (o + 1) + 1 ELSE 0
        /\ \A n \in 1 .. Len(a) - (o + 1) + 1 :
             SubSeq(a, o + 1, Len(a))[n] = a[(o + 1) + n - 1]
    BY <1>1, <2>1, SubSeqProperties
  <2>. QED  BY <1>1, <2>2
<1>. HIDE DEF b
<1>5. /\ Append(b, e) \in Seq(Event) /\ Len(Append(b, e)) = Len(b) + 1
      /\ \A n \in 1 .. Len(b) : Append(b, e)[n] = b[n]
      /\ Append(b, e)[Len(b) + 1] = e
  BY <1>3, AppendProperties
<1>6. \A n \in 1 .. Len(s) - o + 1 : SubSeq(a, o + 1, Len(a))[n] = Append(b, e)[n]
  <2>. TAKE n \in 1 .. Len(s) - o + 1
  <2>1. SubSeq(a, o + 1, Len(a))[n] = a[o + n]
    BY <1>4
  <2>2. CASE n = Len(s) - o + 1
    <3>1. n = Len(b) + 1 /\ o + n = Len(s) + 1
      BY <1>1, <1>3, <2>2
    <3>. QED  BY <1>2, <1>5, <2>1, <3>1
  <2>3. CASE n # Len(s) - o + 1
    <3>1. n \in 1 .. Len(s) - o /\ o + n \in 1 .. Len(s)
      BY <1>1, <2>3
    <3>2. a[o + n] = s[o + n] /\ b[n] = s[o + n] /\ Append(b, e)[n] = b[n]
      BY <1>2, <1>3, <1>5, <3>1
    <3>. QED  BY <2>1, <3>2
  <2>. QED  BY <2>2, <2>3
<1>7. SubSeq(a, o + 1, Len(a)) = Append(b, e)
  BY <1>3, <1>4, <1>5, <1>6, SeqEqual
<1>. QED  BY <1>7 DEF a, b

\* Appending to the second of two sequences, or to both together.
LEMMA ConcatAppend ==
  ASSUME NEW s \in Seq(Event), NEW q \in Seq(Event), NEW e \in Event
  PROVE  s \o Append(q, e) = Append(s \o q, e)
<1>1. <<e>> \in Seq(Event) /\ s \o q \in Seq(Event)
  BY ConcatProperties
<1>2. Append(q, e) = q \o <<e>> /\ Append(s \o q, e) = (s \o q) \o <<e>>
  BY <1>1, AppendIsConcat
<1>. QED  BY <1>1, <1>2, ConcatAssociative

\* Moving the head of the second sequence to the end of the first.
LEMMA HeadMoves ==
  ASSUME NEW s \in Seq(Event), NEW q \in Seq(Event), q # <<>>
  PROVE  s \o <<Head(q)>> \o Tail(q) = s \o q
<1>1. Head(q) \in Event /\ Tail(q) \in Seq(Event)
  BY HeadTailProperties
<1>2. q = <<Head(q)>> \o Tail(q)
  <2>1. <<Head(q)>> \in Seq(Event) /\ Len(<<Head(q)>>) = 1 /\ <<Head(q)>>[1] = Head(q)
    BY <1>1
  <2>2. /\ <<Head(q)>> \o Tail(q) \in Seq(Event)
        /\ Len(<<Head(q)>> \o Tail(q)) = 1 + Len(Tail(q))
        /\ \A n \in 1 .. 1 + Len(Tail(q)) :
             (<<Head(q)>> \o Tail(q))[n] = IF n <= 1 THEN <<Head(q)>>[n] ELSE Tail(q)[n - 1]
    BY <1>1, <2>1, ConcatProperties
  <2>3. Len(q) \in Nat /\ Len(Tail(q)) = Len(q) - 1 /\ Head(q) = q[1]
        /\ \A n \in 1 .. Len(q) - 1 : Tail(q)[n] = q[n + 1]
    BY HeadTailProperties
  <2>4. \A n \in 1 .. Len(q) : (<<Head(q)>> \o Tail(q))[n] = q[n]
    BY <2>1, <2>2, <2>3
  <2>. QED  BY <2>2, <2>3, <2>4, SeqEqual
<1>. QED  BY <1>1, <1>2, ConcatAssociative

\* What a client holds when its handler ends.
LEMMA StreamOverEffect ==
  ASSUME TypeOK, NEW c \in Client, StreamOver(c)
  PROVE  /\ pc' \in [Client -> Pc] /\ queue' \in [Client -> Seq(Event)]
         /\ event' \in [Client -> Event] /\ seen' \in [Client -> Seq(Event)]
         /\ ackedAt' \in [Client -> 0 .. MaxLogs + 2]
         /\ openedAt' \in [Client -> 0 .. MaxLogs + 2]
         /\ connections' \in SUBSET Ws /\ waiters' \in [Inv -> SUBSET Ws]
         /\ pc'[c] = (IF c \in Ws THEN "serving" ELSE "closed")
         /\ queue'[c] = <<>> /\ seen'[c] = <<>>
         /\ \A d \in Client : d # c =>
              /\ pc'[d] = pc[d] /\ queue'[d] = queue[d] /\ event'[d] = event[d]
              /\ seen'[d] = seen[d] /\ openedAt'[d] = openedAt[d]
<1>1. <<>> \in Seq(Event) /\ "log" \in Event /\ 0 \in 0 .. MaxLogs + 2
  BY BoundAssumption DEF Event, Final
<1>2. pc' \in [Client -> Pc] /\ pc'[c] = (IF c \in Ws THEN "serving" ELSE "closed")
  BY DEF TypeOK, StreamOver, Pc
<1>3. /\ queue' \in [Client -> Seq(Event)] /\ event' \in [Client -> Event]
      /\ seen' \in [Client -> Seq(Event)] /\ queue'[c] = <<>> /\ seen'[c] = <<>>
  BY <1>1 DEF TypeOK, StreamOver, Forget
<1>4. /\ ackedAt' \in [Client -> 0 .. MaxLogs + 2]
      /\ openedAt' \in [Client -> 0 .. MaxLogs + 2]
  BY <1>1 DEF TypeOK, StreamOver, Forget
<1>5. connections' \in SUBSET Ws /\ waiters' \in [Inv -> SUBSET Ws]
  BY DEF TypeOK, StreamOver
<1>6. \A d \in Client : d # c =>
        /\ pc'[d] = pc[d] /\ queue'[d] = queue[d] /\ event'[d] = event[d]
        /\ seen'[d] = seen[d] /\ openedAt'[d] = openedAt[d]
  BY DEF TypeOK, StreamOver, Forget
<1>. QED  BY <1>2, <1>3, <1>4, <1>5, <1>6

\* The manager forgets the stream that ends, and nothing else.
LEMMA StreamOverManager ==
  ASSUME TypeOK, ManagerExact, NEW c \in Client, StreamOver(c), pc[c] \in Streaming,
         inv' = inv
  PROVE  ManagerExact'
<1>1. pc'[c] = (IF c \in Ws THEN "serving" ELSE "closed")
  BY StreamOverEffect
<1>2. \A d \in Client : d # c => pc'[d] = pc[d]
  BY StreamOverEffect
<1>3. connections' = {d \in Ws : pc'[d] \notin {"off", "closed"}}
  BY <1>1, <1>2 DEF ManagerExact, StreamOver, Streaming, Reading, Client
<1>4. ASSUME NEW i \in Inv
      PROVE  waiters'[i] = {d \in Ws : pc'[d] \in Streaming /\ inv'[d] = i}
  <2>1. waiters'[i] = IF i = inv[c] THEN waiters[i] \ {c} ELSE waiters[i]
    BY DEF TypeOK, StreamOver
  <2>2. waiters[i] = {d \in Ws : pc[d] \in Streaming /\ inv[d] = i}
    BY DEF ManagerExact
  <2>3. pc'[c] \notin Streaming
    BY <1>1 DEF Streaming, Reading
  <2>. QED  BY <1>2, <2>1, <2>2, <2>3 DEF Client
<1>. QED  BY <1>3, <1>4 DEF ManagerExact

\* What a client has been sent, and has still to be sent, when the handler of another
\* one ends.
LEMMA StreamOverFaithful ==
  ASSUME TypeOK, StreamFaithful, NEW c \in Client, StreamOver(c),
         channel' = channel, inv' = inv
  PROVE  StreamFaithful'
<1>1. pc'[c] \notin Reading
  BY StreamOverEffect DEF Reading
<1>2. \A d \in Client : d # c =>
        /\ pc'[d] = pc[d] /\ queue'[d] = queue[d] /\ event'[d] = event[d]
        /\ seen'[d] = seen[d] /\ openedAt'[d] = openedAt[d]
  BY StreamOverEffect
<1>. QED  BY <1>1, <1>2 DEF StreamFaithful, Reading

\* An event reaches the queue of every client that reads the channel, and no other.
LEMMA BroadcastEffect ==
  ASSUME TypeOK, HubExact, CurrentOK, NEW i \in Inv, NEW e \in Event, Broadcast(i, e)
  PROVE  /\ channel' \in [Inv -> Seq(Event)] /\ queue' \in [Client -> Seq(Event)]
         /\ channel'[i] = Append(channel[i], e)
         /\ \A j \in Inv : j # i => channel'[j] = channel[j]
         /\ \A c \in Client : queue'[c] = IF pc[c] \in Reading /\ inv[c] = i
                                          THEN Append(queue[c], e) ELSE queue[c]
<1>1. /\ channel' \in [Inv -> Seq(Event)] /\ channel'[i] = Append(channel[i], e)
      /\ \A j \in Inv : j # i => channel'[j] = channel[j]
  <2>1. Append(channel[i], e) \in Seq(Event)
    BY AppendProperties DEF TypeOK
  <2>. QED  BY <2>1 DEF TypeOK, Broadcast
<1>2. \A c \in Client : pc[c] \in Reading => (Current(c) \in hub[i] <=> inv[c] = i)
  <2>. SUFFICES ASSUME NEW c \in Client, pc[c] \in Reading
                PROVE  Current(c) \in hub[i] <=> inv[c] = i
    OBVIOUS
  <2>1. gen[c] >= 1 /\ Current(c) \notin orphans /\ Current(c) \in hub[inv[c]]
    BY DEF CurrentOK, Streaming
  <2>2. Current(c)[1] = c
    BY <2>1, CurrentMade
  <2>3. Current(c) \in hub[i] => inv[c] = i
    BY <2>1, <2>2 DEF HubExact
  <2>. QED  BY <2>1, <2>3
<1>3. \A c \in Client : queue'[c] = IF pc[c] \in Reading /\ inv[c] = i
                                    THEN Append(queue[c], e) ELSE queue[c]
  BY <1>2 DEF Broadcast
<1>4. \A c \in Client : Append(queue[c], e) \in Seq(Event) /\ queue[c] \in Seq(Event)
  BY AppendProperties DEF TypeOK
<1>5. queue' \in [Client -> Seq(Event)]
  BY <1>4 DEF Broadcast
<1>. QED  BY <1>1, <1>3, <1>5

\* So every stream stays faithful.
LEMMA BroadcastFaithful ==
  ASSUME TypeOK, HubExact, CurrentOK, LocalsOK, StreamFaithful,
         NEW i \in Inv, NEW e \in Event, Broadcast(i, e),
         pc' = pc, inv' = inv, openedAt' = openedAt, event' = event, seen' = seen
  PROVE  StreamFaithful'
<1>. DEFINE P(c) == SubSeq(channel[inv[c]], openedAt[c] + 1, Len(channel[inv[c]]))
<1>1. ASSUME NEW c \in Client, pc[c] \in Reading, inv[c] = i
      PROVE  P(c)' = Append(P(c), e)
  <2>1. channel[i] \in Seq(Event) /\ openedAt[c] \in Nat /\ openedAt[c] <= Len(channel[i])
    BY <1>1 DEF TypeOK, LocalsOK
  <2>2. channel'[i] = Append(channel[i], e)
    BY BroadcastEffect
  <2>. QED  BY <1>1, <2>1, <2>2, TailGrows
<1>2. ASSUME NEW c \in Client, inv[c] # i
      PROVE  P(c)' = P(c)
  <2>1. channel'[inv[c]] = channel[inv[c]]
    BY <1>2, BroadcastEffect DEF TypeOK
  <2>. QED  BY <2>1
<1>3. \A c \in Client : /\ seen[c] \in Seq(Event) /\ queue[c] \in Seq(Event)
                        /\ event[c] \in Event
  BY DEF TypeOK
<1>4. \A c \in Client : queue'[c] = IF pc[c] \in Reading /\ inv[c] = i
                                    THEN Append(queue[c], e) ELSE queue[c]
  BY BroadcastEffect
<1>5. ASSUME NEW c \in Client, pc[c] = "waiting", inv[c] = i
      PROVE  seen[c] \o queue'[c] = Append(seen[c] \o queue[c], e)
  <2>1. queue'[c] = Append(queue[c], e)
    BY <1>4, <1>5 DEF Reading
  <2>. QED  BY <1>3, <2>1, ConcatAppend
<1>6. ASSUME NEW c \in Client, pc[c] = "sending", inv[c] = i
      PROVE  seen[c] \o <<event[c]>> \o queue'[c]
               = Append(seen[c] \o <<event[c]>> \o queue[c], e)
  <2>1. queue'[c] = Append(queue[c], e)
    BY <1>4, <1>6 DEF Reading
  <2>2. seen[c] \o <<event[c]>> \in Seq(Event)
    BY <1>3, ConcatProperties
  <2>. QED  BY <1>3, <2>1, <2>2, ConcatAppend
<1>7. ASSUME NEW c \in Client, pc[c] = "waiting"
      PROVE  seen[c] \o queue'[c] = P(c)'
  <2>1. seen[c] \o queue[c] = P(c)
    BY <1>7 DEF StreamFaithful
  <2>2. CASE inv[c] = i
    BY <1>1, <1>5, <1>7, <2>1, <2>2 DEF Reading
  <2>3. CASE inv[c] # i
    BY <1>2, <1>4, <2>1, <2>3
  <2>. QED  BY <2>2, <2>3
<1>8. ASSUME NEW c \in Client, pc[c] = "sending"
      PROVE  seen[c] \o <<event[c]>> \o queue'[c] = P(c)'
  <2>1. seen[c] \o <<event[c]>> \o queue[c] = P(c)
    BY <1>8 DEF StreamFaithful
  <2>2. CASE inv[c] = i
    BY <1>1, <1>6, <1>8, <2>1, <2>2 DEF Reading
  <2>3. CASE inv[c] # i
    BY <1>2, <1>4, <2>1, <2>3
  <2>. QED  BY <2>2, <2>3
<1>. QED  BY <1>7, <1>8 DEF StreamFaithful

-----------------------------------------------------------------------------
(***************************************************************************)
(* Steps, in the order of the module.                                          *)
(***************************************************************************)

\* A log event.
LEMMA PublishLogStep ==
  ASSUME NEW i \in Inv, IndInv, PublishLog(i)
  PROVE  IndInv'
<1>1. TypeOK'
  <2>1. "log" \in Event
    BY DEF Event, Final
  <2>2. channel' \in [Inv -> Seq(Event)] /\ queue' \in [Client -> Seq(Event)]
    BY <2>1, BroadcastEffect DEF IndInv, PublishLog
  <2>. QED  BY <2>2 DEF IndInv, TypeOK, PublishLog, ProducerStep, managerVars
<1>2. LengthOK'
  <2>1. "log" \in Event
    BY DEF Event, Final
  <2>2. /\ channel'[i] = Append(channel[i], "log")
        /\ \A j \in Inv : j # i => channel'[j] = channel[j]
    BY <2>1, BroadcastEffect DEF IndInv, PublishLog
  <2>3. Len(channel'[i]) = Len(channel[i]) + 1 /\ Len(channel[i]) \in Nat
    BY <2>1, <2>2, AppendProperties DEF IndInv, TypeOK
  <2>. QED  BY <2>2, <2>3, BoundAssumption DEF IndInv, TypeOK, LengthOK, PublishLog,
               ProducerStep
<1>3. LocalsOK'
  <2>1. "log" \in Event
    BY DEF Event, Final
  <2>2. \A c \in Client : pc[c] \notin Reading => queue'[c] = queue[c]
    BY <2>1, BroadcastEffect DEF IndInv, PublishLog
  <2>3. \A j \in Inv : Len(channel'[j]) >= Len(channel[j])
    <3>1. /\ channel'[i] = Append(channel[i], "log")
          /\ \A j \in Inv : j # i => channel'[j] = channel[j]
      BY <2>1, BroadcastEffect DEF IndInv, PublishLog
    <3>2. \A j \in Inv : channel[j] \in Seq(Event) /\ Len(channel[j]) \in Nat
      BY DEF IndInv, TypeOK
    <3>3. Len(Append(channel[i], "log")) = Len(channel[i]) + 1
      BY <2>1, <3>2, AppendProperties
    <3>. QED  BY <3>1, <3>2, <3>3
  <2>. QED  BY <2>2, <2>3 DEF IndInv, TypeOK, LocalsOK, PublishLog, ProducerStep
<1>4. MadeOK'
  BY DEF IndInv, PublishLog, ProducerStep, Broadcast, streamVars, clientVars,
         managerVars, MadeOK, TypeOK, Generator
<1>5. CurrentOK'
  BY DEF IndInv, PublishLog, ProducerStep, Broadcast, streamVars, clientVars,
         managerVars, CurrentOK, TypeOK, Current, HubExact, Reading, Streaming
<1>6. ManagerExact'
  BY ClientAssumption DEF IndInv, PublishLog, ProducerStep, Broadcast, streamVars,
         clientVars, managerVars, ManagerExact, TypeOK, Client, Reading, Streaming
<1>7. HubExact'
  BY DEF IndInv, PublishLog, ProducerStep, Broadcast, streamVars, clientVars,
         managerVars, HubExact, CurrentOK, TypeOK, Current, Reading, Streaming
<1>8. StreamFaithful'
  <2>1. "log" \in Event
    BY DEF Event, Final
  <2>. QED  BY <2>1, BroadcastFaithful DEF IndInv, PublishLog, ProducerStep
<1>. QED  BY <1>1, <1>2, <1>3, <1>4, <1>5, <1>6, <1>7, <1>8 DEF IndInv

\* The result.
LEMMA PublishResultStep ==
  ASSUME NEW i \in Inv, IndInv, PublishResult(i)
  PROVE  IndInv'
<1>1. TypeOK'
  <2>1. "result" \in Event
    BY DEF Event, Final
  <2>2. channel' \in [Inv -> Seq(Event)] /\ queue' \in [Client -> Seq(Event)]
    BY <2>1, BroadcastEffect DEF IndInv, PublishResult
  <2>. QED  BY <2>2 DEF IndInv, TypeOK, PublishResult, ProducerStep, managerVars
<1>2. LengthOK'
  <2>1. "result" \in Event
    BY DEF Event, Final
  <2>2. /\ channel'[i] = Append(channel[i], "result")
        /\ \A j \in Inv : j # i => channel'[j] = channel[j]
    BY <2>1, BroadcastEffect DEF IndInv, PublishResult
  <2>3. Len(channel'[i]) = Len(channel[i]) + 1 /\ Len(channel[i]) \in Nat
    BY <2>1, <2>2, AppendProperties DEF IndInv, TypeOK
  <2>. QED  BY <2>2, <2>3, BoundAssumption DEF IndInv, TypeOK, LengthOK, PublishResult,
               ProducerStep
<1>3. LocalsOK'
  <2>1. "result" \in Event
    BY DEF Event, Final
  <2>2. \A c \in Client : pc[c] \notin Reading => queue'[c] = queue[c]
    BY <2>1, BroadcastEffect DEF IndInv, PublishResult
  <2>3. \A j \in Inv : Len(channel'[j]) >= Len(channel[j])
    <3>1. /\ channel'[i] = Append(channel[i], "result")
          /\ \A j \in Inv : j # i => channel'[j] = channel[j]
      BY <2>1, BroadcastEffect DEF IndInv, PublishResult
    <3>2. \A j \in Inv : channel[j] \in Seq(Event) /\ Len(channel[j]) \in Nat
      BY DEF IndInv, TypeOK
    <3>3. Len(Append(channel[i], "result")) = Len(channel[i]) + 1
      BY <2>1, <3>2, AppendProperties
    <3>. QED  BY <3>1, <3>2, <3>3
  <2>. QED  BY <2>2, <2>3 DEF IndInv, TypeOK, LocalsOK, PublishResult, ProducerStep
<1>4. MadeOK'
  BY DEF IndInv, PublishResult, ProducerStep, Broadcast, streamVars, clientVars,
         managerVars, MadeOK, TypeOK, Generator
<1>5. CurrentOK'
  BY DEF IndInv, PublishResult, ProducerStep, Broadcast, streamVars, clientVars,
         managerVars, CurrentOK, TypeOK, Current, HubExact, Reading, Streaming
<1>6. ManagerExact'
  BY ClientAssumption DEF IndInv, PublishResult, ProducerStep, Broadcast, streamVars,
         clientVars, managerVars, ManagerExact, TypeOK, Client, Reading, Streaming
<1>7. HubExact'
  BY DEF IndInv, PublishResult, ProducerStep, Broadcast, streamVars, clientVars,
         managerVars, HubExact, CurrentOK, TypeOK, Current, Reading, Streaming
<1>8. StreamFaithful'
  <2>1. "result" \in Event
    BY DEF Event, Final
  <2>. QED  BY <2>1, BroadcastFaithful DEF IndInv, PublishResult, ProducerStep
<1>. QED  BY <1>1, <1>2, <1>3, <1>4, <1>5, <1>6, <1>7, <1>8 DEF IndInv

\* The audit log after the result.
LEMMA PublishAuditStep ==
  ASSUME NEW i \in Inv, IndInv, PublishAudit(i)
  PROVE  IndInv'
<1>1. TypeOK'
  <2>1. "log" \in Event
    BY DEF Event, Final
  <2>2. channel' \in [Inv -> Seq(Event)] /\ queue' \in [Client -> Seq(Event)]
    BY <2>1, BroadcastEffect DEF IndInv, PublishAudit
  <2>. QED  BY <2>2 DEF IndInv, TypeOK, PublishAudit, ProducerStep, managerVars
<1>2. LengthOK'
  <2>1. "log" \in Event
    BY DEF Event, Final
  <2>2. /\ channel'[i] = Append(channel[i], "log")
        /\ \A j \in Inv : j # i => channel'[j] = channel[j]
    BY <2>1, BroadcastEffect DEF IndInv, PublishAudit
  <2>3. Len(channel'[i]) = Len(channel[i]) + 1 /\ Len(channel[i]) \in Nat
    BY <2>1, <2>2, AppendProperties DEF IndInv, TypeOK
  <2>. QED  BY <2>2, <2>3, BoundAssumption DEF IndInv, TypeOK, LengthOK, PublishAudit,
               ProducerStep
<1>3. LocalsOK'
  <2>1. "log" \in Event
    BY DEF Event, Final
  <2>2. \A c \in Client : pc[c] \notin Reading => queue'[c] = queue[c]
    BY <2>1, BroadcastEffect DEF IndInv, PublishAudit
  <2>3. \A j \in Inv : Len(channel'[j]) >= Len(channel[j])
    <3>1. /\ channel'[i] = Append(channel[i], "log")
          /\ \A j \in Inv : j # i => channel'[j] = channel[j]
      BY <2>1, BroadcastEffect DEF IndInv, PublishAudit
    <3>2. \A j \in Inv : channel[j] \in Seq(Event) /\ Len(channel[j]) \in Nat
      BY DEF IndInv, TypeOK
    <3>3. Len(Append(channel[i], "log")) = Len(channel[i]) + 1
      BY <2>1, <3>2, AppendProperties
    <3>. QED  BY <3>1, <3>2, <3>3
  <2>. QED  BY <2>2, <2>3 DEF IndInv, TypeOK, LocalsOK, PublishAudit, ProducerStep
<1>4. MadeOK'
  BY DEF IndInv, PublishAudit, ProducerStep, Broadcast, streamVars, clientVars,
         managerVars, MadeOK, TypeOK, Generator
<1>5. CurrentOK'
  BY DEF IndInv, PublishAudit, ProducerStep, Broadcast, streamVars, clientVars,
         managerVars, CurrentOK, TypeOK, Current, HubExact, Reading, Streaming
<1>6. ManagerExact'
  BY ClientAssumption DEF IndInv, PublishAudit, ProducerStep, Broadcast, streamVars,
         clientVars, managerVars, ManagerExact, TypeOK, Client, Reading, Streaming
<1>7. HubExact'
  BY DEF IndInv, PublishAudit, ProducerStep, Broadcast, streamVars, clientVars,
         managerVars, HubExact, CurrentOK, TypeOK, Current, Reading, Streaming
<1>8. StreamFaithful'
  <2>1. "log" \in Event
    BY DEF Event, Final
  <2>. QED  BY <2>1, BroadcastFaithful DEF IndInv, PublishAudit, ProducerStep
<1>. QED  BY <1>1, <1>2, <1>3, <1>4, <1>5, <1>6, <1>7, <1>8 DEF IndInv

\* The error.
LEMMA PublishErrorStep ==
  ASSUME NEW i \in Inv, IndInv, PublishError(i)
  PROVE  IndInv'
<1>1. TypeOK'
  <2>1. "error" \in Event
    BY DEF Event, Final
  <2>2. channel' \in [Inv -> Seq(Event)] /\ queue' \in [Client -> Seq(Event)]
    BY <2>1, BroadcastEffect DEF IndInv, PublishError
  <2>. QED  BY <2>2 DEF IndInv, TypeOK, PublishError, ProducerStep, managerVars
<1>2. LengthOK'
  <2>1. "error" \in Event
    BY DEF Event, Final
  <2>2. /\ channel'[i] = Append(channel[i], "error")
        /\ \A j \in Inv : j # i => channel'[j] = channel[j]
    BY <2>1, BroadcastEffect DEF IndInv, PublishError
  <2>3. Len(channel'[i]) = Len(channel[i]) + 1 /\ Len(channel[i]) \in Nat
    BY <2>1, <2>2, AppendProperties DEF IndInv, TypeOK
  <2>. QED  BY <2>2, <2>3, BoundAssumption DEF IndInv, TypeOK, LengthOK, PublishError,
               ProducerStep
<1>3. LocalsOK'
  <2>1. "error" \in Event
    BY DEF Event, Final
  <2>2. \A c \in Client : pc[c] \notin Reading => queue'[c] = queue[c]
    BY <2>1, BroadcastEffect DEF IndInv, PublishError
  <2>3. \A j \in Inv : Len(channel'[j]) >= Len(channel[j])
    <3>1. /\ channel'[i] = Append(channel[i], "error")
          /\ \A j \in Inv : j # i => channel'[j] = channel[j]
      BY <2>1, BroadcastEffect DEF IndInv, PublishError
    <3>2. \A j \in Inv : channel[j] \in Seq(Event) /\ Len(channel[j]) \in Nat
      BY DEF IndInv, TypeOK
    <3>3. Len(Append(channel[i], "error")) = Len(channel[i]) + 1
      BY <2>1, <3>2, AppendProperties
    <3>. QED  BY <3>1, <3>2, <3>3
  <2>. QED  BY <2>2, <2>3 DEF IndInv, TypeOK, LocalsOK, PublishError, ProducerStep
<1>4. MadeOK'
  BY DEF IndInv, PublishError, ProducerStep, Broadcast, streamVars, clientVars,
         managerVars, MadeOK, TypeOK, Generator
<1>5. CurrentOK'
  BY DEF IndInv, PublishError, ProducerStep, Broadcast, streamVars, clientVars,
         managerVars, CurrentOK, TypeOK, Current, HubExact, Reading, Streaming
<1>6. ManagerExact'
  BY ClientAssumption DEF IndInv, PublishError, ProducerStep, Broadcast, streamVars,
         clientVars, managerVars, ManagerExact, TypeOK, Client, Reading, Streaming
<1>7. HubExact'
  BY DEF IndInv, PublishError, ProducerStep, Broadcast, streamVars, clientVars,
         managerVars, HubExact, CurrentOK, TypeOK, Current, Reading, Streaming
<1>8. StreamFaithful'
  <2>1. "error" \in Event
    BY DEF Event, Final
  <2>. QED  BY <2>1, BroadcastFaithful DEF IndInv, PublishError, ProducerStep
<1>. QED  BY <1>1, <1>2, <1>3, <1>4, <1>5, <1>6, <1>7, <1>8 DEF IndInv

\* A producer that publishes no final event.
LEMMA EndSilentlyStep ==
  ASSUME NEW i \in Inv, IndInv, EndSilently(i)
  PROVE  IndInv'
<1>1. TypeOK'
  BY BoundAssumption DEF IndInv, EndSilently, ProducerStep, streamVars, clientVars,
         managerVars, TypeOK, LengthOK, LocalsOK, Client, Final, Event, Generator,
         Current, Reading, Streaming, Pc
<1>2. LengthOK'
  BY BoundAssumption DEF IndInv, EndSilently, ProducerStep, streamVars, clientVars,
         managerVars, LengthOK, TypeOK
<1>3. LocalsOK'
  BY DEF IndInv, EndSilently, ProducerStep, streamVars, clientVars, managerVars,
         LocalsOK, TypeOK, Reading, Streaming
<1>4. MadeOK'
  BY DEF IndInv, EndSilently, ProducerStep, streamVars, clientVars, managerVars, MadeOK,
         TypeOK, Generator
<1>5. CurrentOK'
  BY DEF IndInv, EndSilently, ProducerStep, streamVars, clientVars, managerVars,
         CurrentOK, TypeOK, Current, HubExact, Reading, Streaming
<1>6. ManagerExact'
  BY ClientAssumption DEF IndInv, EndSilently, ProducerStep, streamVars, clientVars,
         managerVars, ManagerExact, TypeOK, Client, Reading, Streaming
<1>7. HubExact'
  BY DEF IndInv, EndSilently, ProducerStep, streamVars, clientVars, managerVars,
         HubExact, CurrentOK, TypeOK, Current, Reading, Streaming
<1>8. StreamFaithful'
  BY DEF IndInv, EndSilently, ProducerStep, streamVars, clientVars, managerVars,
         StreamFaithful, LocalsOK, TypeOK, Reading, Streaming
<1>. QED  BY <1>1, <1>2, <1>3, <1>4, <1>5, <1>6, <1>7, <1>8 DEF IndInv

\* A socket is accepted.
LEMMA ConnectStep ==
  ASSUME NEW c \in Client, IndInv, Connect(c)
  PROVE  IndInv'
<1>1. TypeOK'
  BY BoundAssumption DEF IndInv, Connect, streamVars, clientVars, managerVars, TypeOK,
         LengthOK, LocalsOK, Client, Final, Event, Generator, Current, Reading,
         Streaming, Pc
<1>2. LengthOK'
  BY BoundAssumption DEF IndInv, Connect, streamVars, clientVars, managerVars, LengthOK,
         TypeOK
<1>3. LocalsOK'
  BY DEF IndInv, Connect, streamVars, clientVars, managerVars, LocalsOK, TypeOK,
         Reading, Streaming
<1>4. MadeOK'
  BY DEF IndInv, Connect, streamVars, clientVars, managerVars, MadeOK, TypeOK, Generator
<1>5. CurrentOK'
  BY DEF IndInv, Connect, streamVars, clientVars, managerVars, CurrentOK, TypeOK,
         Current, HubExact, Reading, Streaming
<1>6. ManagerExact'
  BY ClientAssumption DEF IndInv, Connect, streamVars, clientVars, managerVars,
         ManagerExact, TypeOK, Client, Reading, Streaming
<1>7. HubExact'
  BY DEF IndInv, Connect, streamVars, clientVars, managerVars, HubExact, CurrentOK,
         TypeOK, Current, Reading, Streaming
<1>8. StreamFaithful'
  BY DEF IndInv, Connect, streamVars, clientVars, managerVars, StreamFaithful, LocalsOK,
         TypeOK, Reading, Streaming
<1>. QED  BY <1>1, <1>2, <1>3, <1>4, <1>5, <1>6, <1>7, <1>8 DEF IndInv

\* A client is gone.
LEMMA VanishStep ==
  ASSUME NEW c \in Client, IndInv, Vanish(c)
  PROVE  IndInv'
<1>1. TypeOK'
  BY BoundAssumption DEF IndInv, Vanish, streamVars, clientVars, managerVars, TypeOK,
         LengthOK, LocalsOK, Client, Final, Event, Generator, Current, Reading,
         Streaming, Pc
<1>2. LengthOK'
  BY BoundAssumption DEF IndInv, Vanish, streamVars, clientVars, managerVars, LengthOK,
         TypeOK
<1>3. LocalsOK'
  BY DEF IndInv, Vanish, streamVars, clientVars, managerVars, LocalsOK, TypeOK, Reading,
         Streaming
<1>4. MadeOK'
  BY DEF IndInv, Vanish, streamVars, clientVars, managerVars, MadeOK, TypeOK, Generator
<1>5. CurrentOK'
  BY DEF IndInv, Vanish, streamVars, clientVars, managerVars, CurrentOK, TypeOK,
         Current, HubExact, Reading, Streaming
<1>6. ManagerExact'
  BY ClientAssumption DEF IndInv, Vanish, streamVars, clientVars, managerVars,
         ManagerExact, TypeOK, Client, Reading, Streaming
<1>7. HubExact'
  BY DEF IndInv, Vanish, streamVars, clientVars, managerVars, HubExact, CurrentOK,
         TypeOK, Current, Reading, Streaming
<1>8. StreamFaithful'
  BY DEF IndInv, Vanish, streamVars, clientVars, managerVars, StreamFaithful, LocalsOK,
         TypeOK, Reading, Streaming
<1>. QED  BY <1>1, <1>2, <1>3, <1>4, <1>5, <1>6, <1>7, <1>8 DEF IndInv

\* The gateway loop ends.
LEMMA HangupStep ==
  ASSUME NEW c \in Client, IndInv, Hangup(c)
  PROVE  IndInv'
<1>1. TypeOK'
  BY BoundAssumption DEF IndInv, Hangup, Deregister, streamVars, clientVars,
         managerVars, TypeOK, LengthOK, LocalsOK, Client, Final, Event, Generator,
         Current, Reading, Streaming, Pc
<1>2. LengthOK'
  BY BoundAssumption DEF IndInv, Hangup, Deregister, streamVars, clientVars,
         managerVars, LengthOK, TypeOK
<1>3. LocalsOK'
  BY DEF IndInv, Hangup, Deregister, streamVars, clientVars, managerVars, LocalsOK,
         TypeOK, Reading, Streaming
<1>4. MadeOK'
  BY DEF IndInv, Hangup, Deregister, streamVars, clientVars, managerVars, MadeOK,
         TypeOK, Generator
<1>5. CurrentOK'
  BY DEF IndInv, Hangup, Deregister, streamVars, clientVars, managerVars, CurrentOK,
         TypeOK, Current, HubExact, Reading, Streaming
<1>6. ManagerExact'
  BY ClientAssumption DEF IndInv, Hangup, Deregister, streamVars, clientVars,
         managerVars, ManagerExact, TypeOK, Client, Reading, Streaming
<1>7. HubExact'
  BY DEF IndInv, Hangup, Deregister, streamVars, clientVars, managerVars, HubExact,
         CurrentOK, TypeOK, Current, Reading, Streaming
<1>8. StreamFaithful'
  BY DEF IndInv, Hangup, Deregister, streamVars, clientVars, managerVars,
         StreamFaithful, LocalsOK, TypeOK, Reading, Streaming
<1>. QED  BY <1>1, <1>2, <1>3, <1>4, <1>5, <1>6, <1>7, <1>8 DEF IndInv

\* A stream is asked for.
LEMMA OpenStreamStep ==
  ASSUME NEW c \in Client, NEW i \in Inv, IndInv, OpenStream(c, i)
  PROVE  IndInv'
<1>1. TypeOK'
  <2>1. gen' \in [Client -> 0 .. MaxStreams]
    BY BoundAssumption DEF IndInv, TypeOK, OpenStream
  <2>2. waiters' \in [Inv -> SUBSET Ws]
    BY DEF IndInv, TypeOK, OpenStream
  <2>. QED  BY <2>1, <2>2 DEF IndInv, TypeOK, OpenStream, streamVars, Pc, Streaming
<1>2. LengthOK'
  BY BoundAssumption DEF IndInv, OpenStream, streamVars, clientVars, managerVars,
         LengthOK, TypeOK
<1>3. LocalsOK'
  BY DEF IndInv, OpenStream, streamVars, clientVars, managerVars, LocalsOK, TypeOK,
         Reading, Streaming
<1>4. MadeOK'
  BY DEF IndInv, OpenStream, streamVars, clientVars, managerVars, MadeOK, TypeOK,
         Generator
<1>5. CurrentOK'
  <2>1. /\ gen'[c] = gen[c] + 1 /\ gen[c] \in Nat /\ gen'[c] \in 1 .. MaxStreams
        /\ pc'[c] = "acking"
        /\ \A d \in Client : d # c => /\ gen'[d] = gen[d] /\ pc'[d] = pc[d]
                                      /\ inv'[d] = inv[d]
    BY BoundAssumption DEF IndInv, TypeOK, OpenStream
  <2>2. Current(c)' \in Generator /\ Current(c)'[1] = c /\ Current(c)'[2] = gen[c] + 1
    BY <2>1 DEF Current, Generator
  <2>3. Current(c)' \notin orphans /\ \A j \in Inv : Current(c)' \notin hub[j]
    BY <2>1, <2>2 DEF IndInv, MadeOK
  <2>4. \A d \in Client : d # c => Current(d)' = Current(d)
    BY <2>1 DEF Current
  <2>5. ASSUME NEW d \in Client, pc'[d] \in Streaming
        PROVE  /\ gen'[d] >= 1
               /\ Current(d)' \notin orphans'
               /\ pc'[d] \in Reading => Current(d)' \in hub'[inv'[d]]
               /\ pc'[d] \notin Reading => \A j \in Inv : Current(d)' \notin hub'[j]
    <3>1. CASE d = c
      BY <2>1, <2>3, <3>1 DEF OpenStream, Reading
    <3>2. CASE d # c
      BY <2>1, <2>4, <2>5, <3>2 DEF IndInv, CurrentOK, OpenStream
    <3>. QED  BY <3>1, <3>2
  <2>. QED  BY <2>5 DEF CurrentOK
<1>6. ManagerExact'
  <2>1. /\ pc'[c] = "acking" /\ inv'[c] = i /\ pc[c] \notin Streaming
        /\ c \in Ws => pc[c] = "serving"
        /\ \A d \in Client : d # c => pc'[d] = pc[d] /\ inv'[d] = inv[d]
    BY DEF IndInv, TypeOK, OpenStream, Streaming, Reading
  <2>2. connections' = {d \in Ws : pc'[d] \notin {"off", "closed"}}
    BY <2>1 DEF IndInv, ManagerExact, OpenStream, Client
  <2>3. ASSUME NEW j \in Inv
        PROVE  waiters'[j] = {d \in Ws : pc'[d] \in Streaming /\ inv'[d] = j}
    <3>1. waiters'[j] = IF j = i THEN waiters[j] \cup ({c} \cap Ws) ELSE waiters[j]
      BY DEF IndInv, TypeOK, OpenStream
    <3>2. waiters[j] = {d \in Ws : pc[d] \in Streaming /\ inv[d] = j}
      BY DEF IndInv, ManagerExact
    <3>3. pc'[c] \in Streaming
      BY <2>1 DEF Streaming
    <3>. QED  BY <2>1, <3>1, <3>2, <3>3 DEF Client
  <2>. QED  BY <2>2, <2>3 DEF ManagerExact
<1>7. HubExact'
  BY DEF IndInv, OpenStream, streamVars, clientVars, managerVars, HubExact, CurrentOK,
         TypeOK, Current, Reading, Streaming
<1>8. StreamFaithful'
  BY DEF IndInv, OpenStream, streamVars, clientVars, managerVars, StreamFaithful,
         LocalsOK, TypeOK, Reading, Streaming
<1>. QED  BY <1>1, <1>2, <1>3, <1>4, <1>5, <1>6, <1>7, <1>8 DEF IndInv

\* The acknowledgement is sent.
LEMMA AcknowledgeStep ==
  ASSUME NEW c \in Client, IndInv, Acknowledge(c)
  PROVE  IndInv'
<1>1. TypeOK'
  <2>1. Len(channel[inv[c]]) \in 0 .. MaxLogs + 2
    BY BoundAssumption DEF IndInv, TypeOK, LengthOK
  <2>2. ackedAt' \in [Client -> 0 .. MaxLogs + 2]
    BY <2>1 DEF IndInv, TypeOK, Acknowledge
  <2>. QED  BY <2>2 DEF IndInv, TypeOK, Acknowledge, managerVars, Pc, Streaming, Reading
<1>2. LengthOK'
  BY BoundAssumption DEF IndInv, Acknowledge, streamVars, clientVars, managerVars,
         LengthOK, TypeOK
<1>3. LocalsOK'
  BY DEF IndInv, Acknowledge, streamVars, clientVars, managerVars, LocalsOK, TypeOK,
         Reading, Streaming
<1>4. MadeOK'
  BY DEF IndInv, Acknowledge, streamVars, clientVars, managerVars, MadeOK, TypeOK,
         Generator
<1>5. CurrentOK'
  BY DEF IndInv, Acknowledge, streamVars, clientVars, managerVars, CurrentOK, TypeOK,
         Current, HubExact, Reading, Streaming
<1>6. ManagerExact'
  BY ClientAssumption DEF IndInv, Acknowledge, streamVars, clientVars, managerVars,
         ManagerExact, TypeOK, Client, Reading, Streaming
<1>7. HubExact'
  BY DEF IndInv, Acknowledge, streamVars, clientVars, managerVars, HubExact, CurrentOK,
         TypeOK, Current, Reading, Streaming
<1>8. StreamFaithful'
  BY DEF IndInv, Acknowledge, streamVars, clientVars, managerVars, StreamFaithful,
         LocalsOK, TypeOK, Reading, Streaming
<1>. QED  BY <1>1, <1>2, <1>3, <1>4, <1>5, <1>6, <1>7, <1>8 DEF IndInv

\* The acknowledgement cannot be sent.
LEMMA AcknowledgeFailsStep ==
  ASSUME NEW c \in Client, IndInv, AcknowledgeFails(c)
  PROVE  IndInv'
<1>1. TypeOK'
  BY BoundAssumption DEF IndInv, AcknowledgeFails, Deregister, streamVars, clientVars,
         managerVars, TypeOK, LengthOK, LocalsOK, Client, Final, Event, Generator,
         Current, Reading, Streaming, Pc
<1>2. LengthOK'
  BY BoundAssumption DEF IndInv, AcknowledgeFails, Deregister, streamVars, clientVars,
         managerVars, LengthOK, TypeOK
<1>3. LocalsOK'
  BY DEF IndInv, AcknowledgeFails, Deregister, streamVars, clientVars, managerVars,
         LocalsOK, TypeOK, Reading, Streaming
<1>4. MadeOK'
  BY DEF IndInv, AcknowledgeFails, Deregister, streamVars, clientVars, managerVars,
         MadeOK, TypeOK, Generator
<1>5. CurrentOK'
  BY DEF IndInv, AcknowledgeFails, Deregister, streamVars, clientVars, managerVars,
         CurrentOK, TypeOK, Current, HubExact, Reading, Streaming
<1>6. ManagerExact'
  BY ClientAssumption DEF IndInv, AcknowledgeFails, Deregister, streamVars, clientVars,
         managerVars, ManagerExact, TypeOK, Client, Reading, Streaming
<1>7. HubExact'
  BY DEF IndInv, AcknowledgeFails, Deregister, streamVars, clientVars, managerVars,
         HubExact, CurrentOK, TypeOK, Current, Reading, Streaming
<1>8. StreamFaithful'
  BY DEF IndInv, AcknowledgeFails, Deregister, streamVars, clientVars, managerVars,
         StreamFaithful, LocalsOK, TypeOK, Reading, Streaming
<1>. QED  BY <1>1, <1>2, <1>3, <1>4, <1>5, <1>6, <1>7, <1>8 DEF IndInv

\* The generator subscribes.
LEMMA SubscribeStep ==
  ASSUME NEW c \in Client, IndInv, Subscribe(c)
  PROVE  IndInv'
<1>1. TypeOK'
  <2>1. Len(channel[inv[c]]) \in 0 .. MaxLogs + 2
    BY BoundAssumption DEF IndInv, TypeOK, LengthOK
  <2>2. openedAt' \in [Client -> 0 .. MaxLogs + 2]
    BY <2>1 DEF IndInv, TypeOK, Subscribe
  <2>3. Current(c) \in Generator
    BY CurrentMade DEF IndInv, CurrentOK, Subscribe, Streaming
  <2>4. hub' \in [Inv -> SUBSET Generator]
    BY <2>3 DEF IndInv, TypeOK, Subscribe
  <2>. QED  BY <2>2, <2>4 DEF IndInv, TypeOK, Subscribe, managerVars, Pc, Streaming, Reading
<1>2. LengthOK'
  BY BoundAssumption DEF IndInv, Subscribe, streamVars, clientVars, managerVars,
         LengthOK, TypeOK
<1>3. LocalsOK'
  BY DEF IndInv, Subscribe, streamVars, clientVars, managerVars, LocalsOK, TypeOK,
         Reading, Streaming
<1>4. MadeOK'
  <2>1. gen[c] >= 1
    BY DEF IndInv, CurrentOK, Subscribe, Streaming
  <2>2. Current(c)[1] = c /\ Current(c)[2] = gen[c] /\ gen[c] \in Nat
    BY <2>1, CurrentMade, BoundAssumption DEF IndInv, TypeOK
  <2>3. \A i \in Inv : hub'[i] \subseteq hub[i] \cup {Current(c)}
    BY DEF IndInv, TypeOK, Subscribe
  <2>. QED  BY <2>2, <2>3 DEF IndInv, MadeOK, Subscribe
<1>5. CurrentOK'
  BY DEF IndInv, Subscribe, streamVars, clientVars, managerVars, CurrentOK, TypeOK,
         Current, HubExact, Reading, Streaming
<1>6. ManagerExact'
  BY ClientAssumption DEF IndInv, Subscribe, streamVars, clientVars, managerVars,
         ManagerExact, TypeOK, Client, Reading, Streaming
<1>7. HubExact'
  BY DEF IndInv, Subscribe, streamVars, clientVars, managerVars, HubExact, CurrentOK,
         TypeOK, Current, Reading, Streaming
<1>8. StreamFaithful'
  <2>1. seen[c] = <<>> /\ queue[c] = <<>>
    BY DEF IndInv, LocalsOK, Subscribe, Reading
  <2>. DEFINE s == channel[inv[c]]
  <2>2. s \in Seq(Event) /\ Len(s) \in Nat
    BY DEF IndInv, TypeOK
  <2>3. SubSeq(s, Len(s) + 1, Len(s)) = <<>>
    BY <2>2, SubSeqEmpty
  <2>4. seen[c] \o queue[c] = <<>>
    BY <2>1
  <2>5. /\ openedAt'[c] = Len(s) /\ pc'[c] = "waiting"
        /\ channel' = channel /\ inv' = inv /\ seen' = seen /\ queue' = queue
        /\ event' = event
        /\ \A d \in Client : d # c => pc'[d] = pc[d] /\ openedAt'[d] = openedAt[d]
    BY DEF IndInv, TypeOK, Subscribe
  <2>. HIDE DEF s
  <2>6. seen'[c] \o queue'[c] = SubSeq(s, openedAt'[c] + 1, Len(s))
    BY <2>3, <2>4, <2>5
  <2>. QED  BY <2>5, <2>6 DEF IndInv, StreamFaithful, s
<1>. QED  BY <1>1, <1>2, <1>3, <1>4, <1>5, <1>6, <1>7, <1>8 DEF IndInv

\* The generator yields an event.
LEMMA ReceiveStep ==
  ASSUME NEW c \in Client, IndInv, Receive(c)
  PROVE  IndInv'
<1>1. TypeOK'
  <2>1. Head(queue[c]) \in Event /\ Tail(queue[c]) \in Seq(Event)
    BY HeadTailProperties DEF IndInv, TypeOK, Receive
  <2>. QED  BY <2>1 DEF IndInv, TypeOK, Receive, managerVars, Pc, Streaming, Reading
<1>2. LengthOK'
  BY BoundAssumption DEF IndInv, Receive, streamVars, clientVars, managerVars, LengthOK,
         TypeOK
<1>3. LocalsOK'
  BY DEF IndInv, Receive, streamVars, clientVars, managerVars, LocalsOK, TypeOK,
         Reading, Streaming
<1>4. MadeOK'
  BY DEF IndInv, Receive, streamVars, clientVars, managerVars, MadeOK, TypeOK, Generator
<1>5. CurrentOK'
  BY DEF IndInv, Receive, streamVars, clientVars, managerVars, CurrentOK, TypeOK,
         Current, HubExact, Reading, Streaming
<1>6. ManagerExact'
  BY ClientAssumption DEF IndInv, Receive, streamVars, clientVars, managerVars,
         ManagerExact, TypeOK, Client, Reading, Streaming
<1>7. HubExact'
  BY DEF IndInv, Receive, streamVars, clientVars, managerVars, HubExact, CurrentOK,
         TypeOK, Current, Reading, Streaming
<1>8. StreamFaithful'
  <2>1. seen[c] \o <<Head(queue[c])>> \o Tail(queue[c]) = seen[c] \o queue[c]
    BY HeadMoves DEF IndInv, TypeOK, Receive
  <2>2. /\ event'[c] = Head(queue[c]) /\ queue'[c] = Tail(queue[c])
        /\ pc'[c] = "sending" /\ pc[c] = "waiting"
        /\ channel' = channel /\ inv' = inv /\ seen' = seen /\ openedAt' = openedAt
        /\ \A d \in Client : d # c => /\ pc'[d] = pc[d] /\ event'[d] = event[d]
                                      /\ queue'[d] = queue[d]
    BY DEF IndInv, TypeOK, Receive
  <2>. QED  BY <2>1, <2>2 DEF IndInv, StreamFaithful
<1>. QED  BY <1>1, <1>2, <1>3, <1>4, <1>5, <1>6, <1>7, <1>8 DEF IndInv

\* An event that is not the final one has been sent.
LEMMA SendMoreStep ==
  ASSUME NEW c \in Client, IndInv, pc[c] = "sending", event[c] \notin Final,
         pc' = [pc EXCEPT ![c] = "waiting"],
         seen' = [seen EXCEPT ![c] = Append(@, event[c])],
         UNCHANGED <<managerVars, orphans, queue, event, ackedAt, openedAt, stage,
                     channel, hub, inv, gen, gone>>
  PROVE  IndInv'
<1>1. TypeOK'
  <2>1. Append(seen[c], event[c]) \in Seq(Event)
    BY AppendProperties DEF IndInv, TypeOK
  <2>. QED  BY <2>1 DEF IndInv, TypeOK, managerVars, Pc, Streaming, Reading
<1>2. LengthOK'
  BY BoundAssumption DEF IndInv, streamVars, clientVars, managerVars, LengthOK, TypeOK
<1>3. LocalsOK'
  BY DEF IndInv, streamVars, clientVars, managerVars, LocalsOK, TypeOK, Reading,
         Streaming
<1>4. MadeOK'
  BY DEF IndInv, streamVars, clientVars, managerVars, MadeOK, TypeOK, Generator
<1>5. CurrentOK'
  BY DEF IndInv, streamVars, clientVars, managerVars, CurrentOK, TypeOK, Current,
         HubExact, Reading, Streaming
<1>6. ManagerExact'
  BY ClientAssumption DEF IndInv, streamVars, clientVars, managerVars, ManagerExact,
         TypeOK, Client, Reading, Streaming
<1>7. HubExact'
  BY DEF IndInv, streamVars, clientVars, managerVars, HubExact, CurrentOK, TypeOK,
         Current, Reading, Streaming
<1>8. StreamFaithful'
  <2>1. seen'[c] = seen[c] \o <<event[c]>>
    BY AppendIsConcat DEF IndInv, TypeOK
  <2>. QED  BY <2>1 DEF IndInv, TypeOK, StreamFaithful
<1>. QED  BY <1>1, <1>2, <1>3, <1>4, <1>5, <1>6, <1>7, <1>8 DEF IndInv

\* The handler ends and leaves its generator at the yield.
LEMMA DropStep ==
  ASSUME NEW c \in Client, IndInv, StreamOver(c), pc[c] = "sending",
         orphans' = orphans \cup {Current(c)},
         UNCHANGED <<stage, channel, hub, inv, gen, gone>>
  PROVE  IndInv'
<1>1. TypeOK'
  <2>1. /\ pc' \in [Client -> Pc] /\ queue' \in [Client -> Seq(Event)]
        /\ event' \in [Client -> Event] /\ seen' \in [Client -> Seq(Event)]
        /\ ackedAt' \in [Client -> 0 .. MaxLogs + 2]
        /\ openedAt' \in [Client -> 0 .. MaxLogs + 2]
        /\ connections' \in SUBSET Ws /\ waiters' \in [Inv -> SUBSET Ws]
    BY StreamOverEffect DEF IndInv
  <2>2. Current(c) \in Generator
    BY CurrentMade DEF IndInv, CurrentOK, Streaming, Reading
  <2>3. orphans' \in SUBSET Generator
    BY <2>2 DEF IndInv, TypeOK
  <2>. QED  BY <2>1, <2>3 DEF IndInv, TypeOK
<1>2. LengthOK'
  BY DEF IndInv, LengthOK
<1>3. LocalsOK'
  <2>1. queue'[c] = <<>> /\ seen'[c] = <<>> /\ pc'[c] \notin Reading
    BY StreamOverEffect DEF IndInv, Reading
  <2>2. \A d \in Client : d # c =>
          /\ pc'[d] = pc[d] /\ queue'[d] = queue[d] /\ seen'[d] = seen[d]
          /\ openedAt'[d] = openedAt[d]
    BY StreamOverEffect DEF IndInv
  <2>. QED  BY <2>1, <2>2 DEF IndInv, LocalsOK
<1>4. MadeOK'
  <2>1. gen[c] >= 1
    BY DEF IndInv, CurrentOK, Streaming, Reading
  <2>2. Current(c)[1] = c /\ Current(c)[2] = gen[c] /\ gen[c] \in Nat
    BY <2>1, CurrentMade, BoundAssumption DEF IndInv, TypeOK
  <2>. QED  BY <2>2 DEF IndInv, MadeOK
<1>5. CurrentOK'
  <2>1. pc'[c] \notin Streaming /\ \A d \in Client : d # c => pc'[d] = pc[d]
    BY StreamOverEffect DEF IndInv, Streaming, Reading
  <2>2. \A d \in Client : Current(d)' = Current(d) /\ (d # c => Current(d) # Current(c))
    BY DEF Current
  <2>3. ASSUME NEW d \in Client, pc'[d] \in Streaming
        PROVE  /\ gen'[d] >= 1
               /\ Current(d)' \notin orphans'
               /\ pc'[d] \in Reading => Current(d)' \in hub'[inv'[d]]
               /\ pc'[d] \notin Reading => \A i \in Inv : Current(d)' \notin hub'[i]
    BY <2>1, <2>2, <2>3 DEF IndInv, CurrentOK
  <2>. QED  BY <2>3 DEF CurrentOK
<1>6. ManagerExact'
  BY StreamOverManager DEF IndInv, Streaming, Reading
<1>7. HubExact'
  <2>1. \A d \in Client : d # c => pc'[d] = pc[d]
    BY StreamOverEffect DEF IndInv
  <2>2. \A d \in Client : Current(d)' = Current(d)
    BY DEF Current
  <2>3. ASSUME NEW i \in Inv, NEW g \in hub'[i], g \notin orphans'
        PROVE  Current(g[1])' = g /\ pc'[g[1]] \in Reading /\ inv'[g[1]] = i
    <3>1. /\ Current(g[1]) = g /\ pc[g[1]] \in Reading /\ inv[g[1]] = i
          /\ g[1] \in Client /\ g # Current(c)
      BY <2>3 DEF IndInv, TypeOK, HubExact, Generator
    <3>. QED  BY <2>1, <2>2, <3>1
  <2>. QED  BY <2>3 DEF HubExact
<1>8. StreamFaithful'
  BY StreamOverFaithful DEF IndInv
<1>. QED  BY <1>1, <1>2, <1>3, <1>4, <1>5, <1>6, <1>7, <1>8 DEF IndInv

\* The handler ends and its generator has ended before.
LEMMA UnsubscribedStep ==
  ASSUME NEW c \in Client, IndInv, StreamOver(c), pc[c] \in Streaming, pc[c] # "sending",
         Unsubscribe(c), UNCHANGED <<stage, channel, inv, gen, gone, orphans>>
  PROVE  IndInv'
<1>1. TypeOK'
  <2>1. /\ pc' \in [Client -> Pc] /\ queue' \in [Client -> Seq(Event)]
        /\ event' \in [Client -> Event] /\ seen' \in [Client -> Seq(Event)]
        /\ ackedAt' \in [Client -> 0 .. MaxLogs + 2]
        /\ openedAt' \in [Client -> 0 .. MaxLogs + 2]
        /\ connections' \in SUBSET Ws /\ waiters' \in [Inv -> SUBSET Ws]
    BY StreamOverEffect DEF IndInv
  <2>3. hub' \in [Inv -> SUBSET Generator]
    BY DEF IndInv, TypeOK, Unsubscribe
  <2>. QED  BY <2>1, <2>3 DEF IndInv, TypeOK
<1>2. LengthOK'
  BY DEF IndInv, LengthOK
<1>3. LocalsOK'
  <2>1. queue'[c] = <<>> /\ seen'[c] = <<>> /\ pc'[c] \notin Reading
    BY StreamOverEffect DEF IndInv, Reading
  <2>2. \A d \in Client : d # c =>
          /\ pc'[d] = pc[d] /\ queue'[d] = queue[d] /\ seen'[d] = seen[d]
          /\ openedAt'[d] = openedAt[d]
    BY StreamOverEffect DEF IndInv
  <2>. QED  BY <2>1, <2>2 DEF IndInv, LocalsOK
<1>4. MadeOK'
  <2>1. \A i \in Inv : hub'[i] \subseteq hub[i]
    BY DEF IndInv, TypeOK, Unsubscribe
  <2>. QED  BY <2>1 DEF IndInv, MadeOK
<1>5. CurrentOK'
  <2>1. pc'[c] \notin Streaming /\ \A d \in Client : d # c => pc'[d] = pc[d]
    BY StreamOverEffect DEF IndInv, Streaming, Reading
  <2>2. \A d \in Client : Current(d)' = Current(d) /\ (d # c => Current(d) # Current(c))
    BY DEF Current
  <2>3. \A i \in Inv : hub'[i] \subseteq hub[i] /\ hub[i] \subseteq hub'[i] \cup {Current(c)}
    BY DEF IndInv, TypeOK, Unsubscribe
  <2>4. ASSUME NEW d \in Client, pc'[d] \in Streaming
        PROVE  /\ gen'[d] >= 1
               /\ Current(d)' \notin orphans'
               /\ pc'[d] \in Reading => Current(d)' \in hub'[inv'[d]]
               /\ pc'[d] \notin Reading => \A i \in Inv : Current(d)' \notin hub'[i]
    <3>1. /\ d # c /\ pc'[d] = pc[d] /\ pc[d] \in Streaming /\ inv[d] \in Inv
          /\ Current(d)' = Current(d) /\ Current(d) # Current(c)
      BY <2>1, <2>2, <2>4 DEF IndInv, TypeOK
    <3>2. /\ gen[d] >= 1 /\ Current(d) \notin orphans
          /\ pc[d] \in Reading => Current(d) \in hub[inv[d]]
          /\ pc[d] \notin Reading => \A i \in Inv : Current(d) \notin hub[i]
      BY <3>1 DEF IndInv, CurrentOK
    <3>. QED  BY <2>3, <3>1, <3>2
  <2>. QED  BY <2>4 DEF CurrentOK
<1>6. ManagerExact'
  BY StreamOverManager DEF IndInv, Streaming, Reading
<1>7. HubExact'
  <2>1. \A d \in Client : d # c => pc'[d] = pc[d]
    BY StreamOverEffect DEF IndInv
  <2>2. \A d \in Client : Current(d)' = Current(d)
    BY DEF Current
  <2>3. \A i \in Inv : hub'[i] = IF i = inv[c] THEN hub[i] \ {Current(c)} ELSE hub[i]
    BY DEF IndInv, TypeOK, Unsubscribe
  <2>4. ASSUME NEW i \in Inv, NEW g \in hub'[i], g \notin orphans'
        PROVE  Current(g[1])' = g /\ pc'[g[1]] \in Reading /\ inv'[g[1]] = i
    <3>0. g \in hub[i] /\ g \notin orphans /\ g \in Generator
      BY <2>3, <2>4 DEF IndInv, TypeOK
    <3>1. /\ Current(g[1]) = g /\ pc[g[1]] \in Reading /\ inv[g[1]] = i
          /\ g[1] \in Client
      BY <3>0 DEF IndInv, HubExact, Generator
    <3>2. g[1] # c
      BY <2>3, <2>4, <3>1
    <3>. QED  BY <2>1, <2>2, <3>1, <3>2
  <2>. QED  BY <2>4 DEF HubExact
<1>8. StreamFaithful'
  BY StreamOverFaithful DEF IndInv
<1>. QED  BY <1>1, <1>2, <1>3, <1>4, <1>5, <1>6, <1>7, <1>8 DEF IndInv

\* An event has been sent.
LEMMA SentStep ==
  ASSUME NEW c \in Client, IndInv, Sent(c)
  PROVE  IndInv'
<1>1. CASE SentLast(c)
  BY <1>1, DropStep DEF Sent
<1>2. CASE ~SentLast(c)
  BY <1>2, SendMoreStep DEF Sent, SentLast
<1>. QED  BY <1>1, <1>2

\* An event cannot be sent.
LEMMA SendFailsStep ==
  ASSUME NEW c \in Client, IndInv, SendFails(c)
  PROVE  IndInv'
BY DropStep DEF SendFails

\* The generator ends itself.
LEMMA ExpireStep ==
  ASSUME NEW c \in Client, IndInv, Expire(c)
  PROVE  IndInv'
BY UnsubscribedStep DEF Expire, Streaming, Reading

\* A response is cancelled.
LEMMA AbortStep ==
  ASSUME NEW c \in Client, IndInv, Abort(c)
  PROVE  IndInv'
<1>1. CASE pc[c] = "sending"
  BY <1>1, DropStep DEF Abort
<1>2. CASE pc[c] # "sending"
  BY <1>2, UnsubscribedStep DEF Abort
<1>. QED  BY <1>1, <1>2

\* A dropped generator is closed.
LEMMA CloseOrphanStep ==
  ASSUME NEW g \in Generator, IndInv, CloseOrphan(g)
  PROVE  IndInv'
<1>1. TypeOK'
  BY BoundAssumption DEF IndInv, CloseOrphan, streamVars, clientVars, managerVars,
         TypeOK, LengthOK, LocalsOK, Client, Final, Event, Generator, Current, Reading,
         Streaming, Pc
<1>2. LengthOK'
  BY BoundAssumption DEF IndInv, CloseOrphan, streamVars, clientVars, managerVars,
         LengthOK, TypeOK
<1>3. LocalsOK'
  BY DEF IndInv, CloseOrphan, streamVars, clientVars, managerVars, LocalsOK, TypeOK,
         Reading, Streaming
<1>4. MadeOK'
  BY DEF IndInv, CloseOrphan, streamVars, clientVars, managerVars, MadeOK, TypeOK,
         Generator
<1>5. CurrentOK'
  BY DEF IndInv, CloseOrphan, streamVars, clientVars, managerVars, CurrentOK, TypeOK,
         Current, HubExact, Reading, Streaming
<1>6. ManagerExact'
  BY ClientAssumption DEF IndInv, CloseOrphan, streamVars, clientVars, managerVars,
         ManagerExact, TypeOK, Client, Reading, Streaming
<1>7. HubExact'
  BY DEF IndInv, CloseOrphan, streamVars, clientVars, managerVars, HubExact, CurrentOK,
         TypeOK, Current, Reading, Streaming
<1>8. StreamFaithful'
  BY DEF IndInv, CloseOrphan, streamVars, clientVars, managerVars, StreamFaithful,
         LocalsOK, TypeOK, Reading, Streaming
<1>. QED  BY <1>1, <1>2, <1>3, <1>4, <1>5, <1>6, <1>7, <1>8 DEF IndInv

-----------------------------------------------------------------------------
(***************************************************************************)
(* The invariant and what it implies.                                          *)
(***************************************************************************)

\* Nobody is connected and nothing is published.
LEMMA InitOK == Init => IndInv
<1>. SUFFICES ASSUME Init PROVE IndInv
  OBVIOUS
<1>1. TypeOK
  <2>1. <<>> \in Seq(Event) /\ "log" \in Event /\ 0 \in 0 .. MaxLogs + 2
        /\ 0 \in 0 .. MaxStreams
    BY BoundAssumption DEF Event, Final
  <2>. QED  BY <2>1 DEF Init, TypeOK, Pc
<1>2. LengthOK
  BY BoundAssumption DEF Init, LengthOK
<1>3. LocalsOK /\ MadeOK /\ CurrentOK
  BY DEF Init, LocalsOK, MadeOK, CurrentOK, Reading, Streaming
<1>4. ManagerExact
  BY DEF Init, ManagerExact, Streaming, Reading, Client
<1>5. HubExact /\ StreamFaithful
  BY DEF Init, HubExact, StreamFaithful, Reading
<1>. QED  BY <1>1, <1>2, <1>3, <1>4, <1>5 DEF IndInv

\* A stuttering step changes nothing the invariant reads.
LEMMA StutterStep == IndInv /\ UNCHANGED vars => IndInv'
<1>. SUFFICES ASSUME IndInv, UNCHANGED vars PROVE IndInv'
  OBVIOUS
<1>1. TypeOK' /\ LengthOK'
  BY DEF IndInv, vars, TypeOK, LengthOK
<1>2. LocalsOK' /\ MadeOK' /\ CurrentOK'
  BY DEF IndInv, vars, LocalsOK, MadeOK, CurrentOK, Current
<1>3. ManagerExact' /\ HubExact'
  BY DEF IndInv, vars, ManagerExact, HubExact, Current
<1>4. StreamFaithful'
  BY DEF IndInv, vars, StreamFaithful
<1>. QED  BY <1>1, <1>2, <1>3, <1>4 DEF IndInv

\* Every step, and every stutter, keeps the invariant.
LEMMA NextStep == IndInv /\ [Next]_vars => IndInv'
<1>. SUFFICES ASSUME IndInv, [Next]_vars PROVE IndInv'
  OBVIOUS
<1>1. ASSUME NEW i \in Inv, Produce(i)
      PROVE  IndInv'
  BY <1>1, PublishLogStep, PublishResultStep, PublishAuditStep, PublishErrorStep,
     EndSilentlyStep DEF Produce
<1>2. ASSUME NEW c \in Client, Connect(c) \/ Vanish(c)
      PROVE  IndInv'
  BY <1>2, ConnectStep, VanishStep
<1>3. ASSUME NEW c \in Client, Handle(c)
      PROVE  IndInv'
  BY <1>3, HangupStep, AcknowledgeStep, AcknowledgeFailsStep, SubscribeStep,
     ReceiveStep, SentStep, SendFailsStep, ExpireStep, AbortStep DEF Handle
<1>4. ASSUME NEW c \in Client, NEW i \in Inv, OpenStream(c, i)
      PROVE  IndInv'
  BY <1>4, OpenStreamStep
<1>5. ASSUME NEW g \in Generator, CloseOrphan(g)
      PROVE  IndInv'
  BY <1>5, CloseOrphanStep
<1>6. CASE UNCHANGED vars
  BY <1>6, StutterStep
<1>. QED  BY <1>1, <1>2, <1>3, <1>4, <1>5, <1>6 DEF Next

\* The inductive invariant holds of every behaviour of the streams.
THEOREM Invariance == Spec => []IndInv
<1>1. Init => IndInv
  BY InitOK
<1>2. IndInv /\ [Next]_vars => IndInv'
  BY NextStep
<1>. QED  BY <1>1, <1>2, PTL DEF Spec

\* Every variable keeps its type; in particular a channel carries at most the logs, the
\* final event and the audit log.
THEOREM TypeCorrect == Spec => []TypeOK
<1>1. IndInv => TypeOK
  BY DEF IndInv
<1>. QED  BY <1>1, Invariance, PTL

\* From its subscription on, a client is sent exactly what the channel carries, in its
\* order, whoever else subscribes, vanishes or is dropped meanwhile.
THEOREM StreamsFaithful == Spec => []StreamFaithful
<1>1. IndInv => StreamFaithful
  BY DEF IndInv
<1>. QED  BY <1>1, Invariance, PTL

\* StreamManager knows the open sockets and the streaming ones, and no others.
THEOREM ManagerKnows == Spec => []ManagerExact
<1>1. IndInv => ManagerExact
  BY DEF IndInv
<1>. QED  BY <1>1, Invariance, PTL

\* A subscription is read by the client it was made for, or about to be closed.
THEOREM HubKnows == Spec => []HubExact
<1>1. IndInv => HubExact
  BY DEF IndInv
<1>. QED  BY <1>1, Invariance, PTL

=============================================================================
