------------------------ MODULE ServerLifecycleProofs ------------------------
(***************************************************************************)
(* Machine-checked proofs about ServerLifecycle: for every set of servers,       *)
(* requests and clients and every number of operations and restarts.             *)
(***************************************************************************)
EXTENDS ServerLifecycle, TLAPS

-----------------------------------------------------------------------------
(***************************************************************************)
(* The inductive invariant.                                                    *)
(***************************************************************************)

\* A client is popped by one disconnect at a time, which is still closing it, and
\* every open client was dialled for a server.
HeldOK ==
  /\ \A r \in Request : held[r] # None <=> pc[r] = "closing"
  /\ \A r, q \in Request : held[r] # None /\ held[r] = held[q] => r = q
  /\ \A c \in open : of[c] \in Server

\* The request has asked the map and not yet entered its client.
Opening(r) == pc[r] \in {"marking", "dialing"}

\* Two connects that have both passed the check of the map are a race, and so is a
\* connect that finds the map filled after its check.
RaceOK ==
  /\ \A r, q \in Request :
       Opening(r) /\ Opening(q) /\ srv[r] = srv[q] /\ r # q => raced[srv[r]]
  /\ \A r \in Request : Opening(r) /\ active[srv[r]] # None => raced[srv[r]]

\* What a request knows of its server whatever others do.
Knows(r) ==
  /\ srv[r] \in Server
  /\ row[srv[r]] # "unborn"
  /\ seen[r] = "local" <=> kind[srv[r]] = "local"
  /\ pc[r] \in {"dialing", "caching"} => seen[r] = "remote"
  /\ pc[r] \in {"recording", "reporting"} => seen[r] # "noUrl"

RequestOK == \A r \in Request : pc[r] # "idle" => Knows(r)

\* The agreement of the four places at rest.
Agree(s) ==
  /\ row[s] # "connecting"
  /\ active[s] # None <=> row[s] = "active" /\ kind[s] # "local"
  /\ row[s] = "active" => conns[s] > 0
  /\ again[s] \/ conns[s] = IF row[s] = "active" THEN 1 ELSE 0
  /\ health[s] \in {"none", Reported[row[s]]}

\* How far a request that is alone with its server has brought them at await p.
Stage(s, p) ==
  /\ row[s] \in Status
  /\ p \in {"marking", "dialing", "erring", "reportingError", "closing",
            "deactivating", "reportingDown", "deleting"} => active[s] = None
  /\ p \in {"dialing", "caching", "recording", "erring"} => row[s] = "connecting"
  /\ p = "caching" => active[s] # None
  /\ p \in {"recording", "reporting"} => (active[s] # None <=> kind[s] # "local")
  /\ p = "reporting" => row[s] = "active" /\ conns[s] > 0
  /\ p = "reportingError" => row[s] = "error"
  /\ p \in {"reportingDown", "deleting"} => row[s] = "inactive"
  /\ p = "deleting" => health[s] \in {"none", "disconnected"}
  /\ p = "marking" => row[s] # "active" \/ kind[s] = "local"
  /\ p = "marking" /\ ~again[s] => conns[s] = IF row[s] = "active" THEN 1 ELSE 0
  /\ p = "reporting" /\ ~again[s] => conns[s] = 1
  /\ p \in {"dialing", "erring", "reportingError", "reportingDown", "deleting"}
       /\ ~again[s] => conns[s] = 0

\* The request is at work on s.
On(r, s) == pc[r] # "idle" /\ srv[r] = s

\* A server whose operations have not overlapped, written to by nobody else: one
\* request at most, at its stage, and agreement when there is none.
Alone(s) ==
  /\ \A r, q \in Request : On(r, s) /\ On(q, s) => r = q
  /\ \A r \in Request : On(r, s) => Stage(s, pc[r])
  /\ (\A r \in Request : ~On(r, s)) => Agree(s)

AloneOK == \A s \in Server : ~dirty[s] => Alone(s)

\* Unless a connect was recorded beside another, one row at most says "connected".
ConnsOK == \A s \in Server : ~again[s] => conns[s] <= 1

CoreInv == /\ TypeOK /\ HeldOK /\ RaceOK /\ RequestOK /\ AloneOK
           /\ MapHoldsOpenClients /\ ClientsAccountedFor

IndInv == CoreInv /\ ConnsOK

-----------------------------------------------------------------------------
(***************************************************************************)
(* Lemmas.                                                                     *)
(***************************************************************************)

\* A server nobody is busy with, in terms of the requests.
LEMMA BusyEmpty ==
  ASSUME NEW s \in Server
  PROVE  Busy(s) = {} <=> \A r \in Request : ~On(r, s)
BY DEF Busy, On


\* What Alone says of a server that a step leaves as it is.
LEMMA AloneFrame ==
  ASSUME NEW s \in Server, Alone(s),
         row'[s] = row[s], active'[s] = active[s], conns'[s] = conns[s],
         health'[s] = health[s], kind'[s] = kind[s], again'[s] = again[s],
         \A r \in Request : On(r, s)' <=> On(r, s),
         \A r \in Request : On(r, s) => pc'[r] = pc[r]
  PROVE  Alone(s)'
<1>1. \A r, q \in Request : On(r, s)' /\ On(q, s)' => r = q
  BY DEF Alone
<1>2. ASSUME NEW r \in Request, On(r, s)'
      PROVE  Stage(s, pc[r])'
  BY <1>2 DEF Alone, Stage
<1>3. ASSUME \A r \in Request : ~On(r, s)'
      PROVE  Agree(s)'
  BY <1>3 DEF Alone, Agree
<1>. QED  BY <1>1, <1>2, <1>3 DEF Alone

-----------------------------------------------------------------------------
(***************************************************************************)
(* Steps, in the order of the module.                                          *)
(***************************************************************************)

\* A new row: nobody is at work on a server that was not born.
LEMMA RegisterStep ==
  ASSUME NEW s \in Server, CoreInv, Register(s)
  PROVE  CoreInv'
<1>1. TypeOK'
  BY NoneAssumption, OpsAssumption DEF CoreInv, Register, requestVars, rowVars, TypeOK,
         Kind, Status, Op, Pc
<1>2. HeldOK'
  BY NoneAssumption, OpsAssumption DEF CoreInv, Register, requestVars, rowVars, HeldOK,
         TypeOK, MapHoldsOpenClients
<1>3. RaceOK'
  BY NoneAssumption, OpsAssumption DEF CoreInv, Register, requestVars, rowVars, RaceOK,
         Opening, TypeOK, RequestOK, Knows
<1>4. RequestOK'
  BY NoneAssumption, OpsAssumption DEF CoreInv, Register, requestVars, rowVars, RequestOK,
         Knows, TypeOK, Status
<1>5. MapHoldsOpenClients'
  BY NoneAssumption, OpsAssumption DEF CoreInv, Register, requestVars, rowVars,
         MapHoldsOpenClients, HeldOK, TypeOK, RequestOK, Knows
<1>6. ClientsAccountedFor'
  BY NoneAssumption, OpsAssumption DEF CoreInv, Register, requestVars, rowVars,
         ClientsAccountedFor, MapHoldsOpenClients, HeldOK, RaceOK, Opening, TypeOK,
         RequestOK, Knows
<1>7. AloneOK'
  <2>. SUFFICES ASSUME NEW t \in Server, ~dirty'[t]
               PROVE  Alone(t)'
    BY DEF AloneOK
  <2>1. CASE t # s
    <3>1. ~dirty[t]
      BY <2>1 DEF CoreInv, TypeOK, Register, requestVars, rowVars
    <3>2. Alone(t)
      BY <3>1 DEF CoreInv, AloneOK
    <3>3. /\ row'[t] = row[t] /\ active'[t] = active[t] /\ conns'[t] = conns[t]
          /\ health'[t] = health[t] /\ kind'[t] = kind[t] /\ again'[t] = again[t]
      BY <2>1 DEF CoreInv, TypeOK, Register, requestVars, rowVars
    <3>4. /\ \A q \in Request : On(q, t)' <=> On(q, t)
          /\ \A q \in Request : On(q, t) => pc'[q] = pc[q]
      BY <2>1, NoneAssumption DEF CoreInv, TypeOK, On, Register, requestVars, rowVars
    <3>. QED  BY <3>2, <3>3, <3>4, AloneFrame
  <2>2. CASE t = s
    BY <2>2, NoneAssumption DEF CoreInv, TypeOK, AloneOK, Alone, On, Stage, Agree,
           RequestOK, Knows, Reported, Status, Register, requestVars, rowVars
  <2>. QED  BY <2>1, <2>2
<1>. QED  BY <1>1, <1>2, <1>3, <1>4, <1>5, <1>6, <1>7 DEF CoreInv

\* A row edited by hand.
LEMMA UpdateStep ==
  ASSUME NEW s \in Server, CoreInv, Update(s)
  PROVE  CoreInv'
<1>1. TypeOK'
  <2>1. CASE /\ \E k \in {"noUrl", "remote"} : kind' = [kind EXCEPT ![s] = k]
             /\ row' = row /\ dirty' = dirty
    BY <2>1 DEF CoreInv, Update, Taint, requestVars, TypeOK, Kind, Status, Op, Pc
  <2>2. CASE \E st \in Status : row' = [row EXCEPT ![s] = st] /\ Taint(s) /\ kind' = kind
    BY <2>2 DEF CoreInv, Update, Taint, requestVars, TypeOK, Kind, Status, Op, Pc
  <2>. QED  BY <2>1, <2>2 DEF Update
<1>2. HeldOK'
  BY NoneAssumption, OpsAssumption DEF CoreInv, Update, Exists, Taint, requestVars,
         rowVars, HeldOK, TypeOK, MapHoldsOpenClients
<1>3. RaceOK'
  BY NoneAssumption, OpsAssumption DEF CoreInv, Update, Exists, Taint, requestVars,
         rowVars, RaceOK, Opening, TypeOK, RequestOK, Knows
<1>4. RequestOK'
  BY NoneAssumption, OpsAssumption DEF CoreInv, Update, Exists, Taint, requestVars,
         rowVars, RequestOK, Knows, TypeOK, Status
<1>5. MapHoldsOpenClients'
  BY NoneAssumption, OpsAssumption DEF CoreInv, Update, Exists, Taint, requestVars,
         rowVars, MapHoldsOpenClients, HeldOK, TypeOK, RequestOK, Knows
<1>6. ClientsAccountedFor'
  BY NoneAssumption, OpsAssumption DEF CoreInv, Update, Exists, Taint, requestVars,
         rowVars, ClientsAccountedFor, MapHoldsOpenClients, HeldOK, RaceOK, Opening, TypeOK,
         RequestOK, Knows
<1>7. AloneOK'
  <2>. SUFFICES ASSUME NEW t \in Server, ~dirty'[t]
               PROVE  Alone(t)'
    BY DEF AloneOK
  <2>1. CASE t # s
    <3>1. ~dirty[t]
      BY <2>1 DEF CoreInv, TypeOK, Update, Exists, Taint, requestVars, rowVars
    <3>2. Alone(t)
      BY <3>1 DEF CoreInv, AloneOK
    <3>3. /\ row'[t] = row[t] /\ active'[t] = active[t] /\ conns'[t] = conns[t]
          /\ health'[t] = health[t] /\ kind'[t] = kind[t] /\ again'[t] = again[t]
      BY <2>1 DEF CoreInv, TypeOK, Update, Exists, Taint, requestVars, rowVars
    <3>4. /\ \A q \in Request : On(q, t)' <=> On(q, t)
          /\ \A q \in Request : On(q, t) => pc'[q] = pc[q]
      BY <2>1, NoneAssumption DEF CoreInv, TypeOK, On, Update, Exists, Taint, requestVars,
         rowVars
    <3>. QED  BY <3>2, <3>3, <3>4, AloneFrame
  <2>2. CASE t = s
    BY <2>2, NoneAssumption DEF CoreInv, TypeOK, AloneOK, Alone, On, Stage, Agree,
           RequestOK, Knows, Reported, Status, Update, Exists, Taint, requestVars, rowVars
  <2>. QED  BY <2>1, <2>2
<1>. QED  BY <1>1, <1>2, <1>3, <1>4, <1>5, <1>6, <1>7 DEF CoreInv

\* A health entry that runs out.
LEMMA ExpireStep ==
  ASSUME NEW s \in Server, CoreInv, Expire(s)
  PROVE  CoreInv'
<1>1. TypeOK'
  BY NoneAssumption, OpsAssumption DEF CoreInv, Expire, requestVars, rowVars, TypeOK, Kind,
         Status, Op, Pc
<1>2. HeldOK'
  BY NoneAssumption, OpsAssumption DEF CoreInv, Expire, requestVars, rowVars, HeldOK,
         TypeOK, MapHoldsOpenClients
<1>3. RaceOK'
  BY NoneAssumption, OpsAssumption DEF CoreInv, Expire, requestVars, rowVars, RaceOK,
         Opening, TypeOK, RequestOK, Knows
<1>4. RequestOK'
  BY NoneAssumption, OpsAssumption DEF CoreInv, Expire, requestVars, rowVars, RequestOK,
         Knows, TypeOK, Status
<1>5. MapHoldsOpenClients'
  BY NoneAssumption, OpsAssumption DEF CoreInv, Expire, requestVars, rowVars,
         MapHoldsOpenClients, HeldOK, TypeOK, RequestOK, Knows
<1>6. ClientsAccountedFor'
  BY NoneAssumption, OpsAssumption DEF CoreInv, Expire, requestVars, rowVars,
         ClientsAccountedFor, MapHoldsOpenClients, HeldOK, RaceOK, Opening, TypeOK,
         RequestOK, Knows
<1>7. AloneOK'
  <2>. SUFFICES ASSUME NEW t \in Server, ~dirty'[t]
               PROVE  Alone(t)'
    BY DEF AloneOK
  <2>1. CASE t # s
    <3>1. ~dirty[t]
      BY <2>1 DEF CoreInv, TypeOK, Expire, requestVars, rowVars
    <3>2. Alone(t)
      BY <3>1 DEF CoreInv, AloneOK
    <3>3. /\ row'[t] = row[t] /\ active'[t] = active[t] /\ conns'[t] = conns[t]
          /\ health'[t] = health[t] /\ kind'[t] = kind[t] /\ again'[t] = again[t]
      BY <2>1 DEF CoreInv, TypeOK, Expire, requestVars, rowVars
    <3>4. /\ \A q \in Request : On(q, t)' <=> On(q, t)
          /\ \A q \in Request : On(q, t) => pc'[q] = pc[q]
      BY <2>1, NoneAssumption DEF CoreInv, TypeOK, On, Expire, requestVars, rowVars
    <3>. QED  BY <3>2, <3>3, <3>4, AloneFrame
  <2>2. CASE t = s
    BY <2>2, NoneAssumption DEF CoreInv, TypeOK, AloneOK, Alone, On, Stage, Agree,
           RequestOK, Knows, Reported, Status, Expire, requestVars, rowVars
  <2>. QED  BY <2>1, <2>2
<1>. QED  BY <1>1, <1>2, <1>3, <1>4, <1>5, <1>6, <1>7 DEF CoreInv

\* A connect that has asked the map.
LEMMA ConnectBeginStep ==
  ASSUME NEW r \in Request, NEW s \in Server, CoreInv, ConnectBegin(r, s)
  PROVE  CoreInv'
<1>1. TypeOK'
  BY NoneAssumption, OpsAssumption DEF CoreInv, ConnectBegin, Goto, Exists, NotConnected,
         Busy, requestVars, rowVars, TypeOK, Kind, Status, Op, Pc
<1>2. HeldOK'
  BY NoneAssumption, OpsAssumption DEF CoreInv, ConnectBegin, Goto, Exists, NotConnected,
         Busy, requestVars, rowVars, HeldOK, TypeOK, MapHoldsOpenClients
<1>3. RaceOK'
  <2>1. /\ \A q \in Request : q # r => pc'[q] = pc[q] /\ srv'[q] = srv[q]
        /\ srv'[r] = s /\ active' = active /\ active[s] = None
    BY DEF CoreInv, TypeOK, ConnectBegin, Goto, NotConnected
  <2>2. /\ raced[s] => raced'[s]
        /\ \A t \in Server : t # s => raced'[t] = raced[t]
        /\ \A q \in Request : Opening(q) /\ srv[q] = s => raced'[s]
    BY DEF CoreInv, TypeOK, ConnectBegin, Busy, Opening
  <2>3. \A q \in Request : Opening(q) => srv[q] \in Server
    BY DEF CoreInv, RequestOK, Knows, Opening
  <2>4. \A q \in Request : q # r => (Opening(q)' <=> Opening(q))
    BY <2>1 DEF Opening
  <2>5. ASSUME NEW p \in Request, NEW q \in Request, Opening(p)', Opening(q)',
               srv'[p] = srv'[q], p # q
        PROVE  raced'[srv'[p]]
    BY <2>1, <2>2, <2>3, <2>4, <2>5 DEF CoreInv, RaceOK
  <2>6. ASSUME NEW p \in Request, Opening(p)', active'[srv'[p]] # None
        PROVE  raced'[srv'[p]]
    BY <2>1, <2>2, <2>3, <2>4, <2>6 DEF CoreInv, RaceOK
  <2>. QED  BY <2>5, <2>6 DEF RaceOK
<1>4. RequestOK'
  BY NoneAssumption, OpsAssumption DEF CoreInv, ConnectBegin, Goto, Exists, NotConnected,
         Busy, requestVars, rowVars, RequestOK, Knows, TypeOK, Status
<1>5. MapHoldsOpenClients'
  BY NoneAssumption, OpsAssumption DEF CoreInv, ConnectBegin, Goto, Exists, NotConnected,
         Busy, requestVars, rowVars, MapHoldsOpenClients, HeldOK, TypeOK, RequestOK,
         Knows
<1>6. ClientsAccountedFor'
  BY NoneAssumption, OpsAssumption DEF CoreInv, ConnectBegin, Goto, Exists, NotConnected,
         Busy, requestVars, rowVars, ClientsAccountedFor, MapHoldsOpenClients, HeldOK,
         RaceOK, Opening, TypeOK, RequestOK, Knows
<1>7. AloneOK'
  <2>. SUFFICES ASSUME NEW t \in Server, ~dirty'[t]
               PROVE  Alone(t)'
    BY DEF AloneOK
  <2>1. CASE t # s
    <3>1. ~dirty[t]
      BY <2>1 DEF CoreInv, TypeOK, ConnectBegin, Goto, Exists, NotConnected, Busy,
         requestVars, rowVars
    <3>2. Alone(t)
      BY <3>1 DEF CoreInv, AloneOK
    <3>3. /\ row'[t] = row[t] /\ active'[t] = active[t] /\ conns'[t] = conns[t]
          /\ health'[t] = health[t] /\ kind'[t] = kind[t] /\ again'[t] = again[t]
      BY <2>1 DEF CoreInv, TypeOK, ConnectBegin, Goto, Exists, NotConnected, Busy,
         requestVars, rowVars
    <3>4. /\ \A q \in Request : On(q, t)' <=> On(q, t)
          /\ \A q \in Request : On(q, t) => pc'[q] = pc[q]
      BY <2>1, NoneAssumption DEF CoreInv, TypeOK, On, ConnectBegin, Goto, Exists,
         NotConnected, Busy, requestVars, rowVars
    <3>. QED  BY <3>2, <3>3, <3>4, AloneFrame
  <2>2. CASE t = s
    <3>1. ~dirty[s] /\ \A q \in Request : ~On(q, s)
      BY <2>2, BusyEmpty DEF CoreInv, TypeOK, ConnectBegin
    <3>2. Agree(s) /\ active[s] = None /\ row[s] \in Status
      BY <3>1 DEF CoreInv, AloneOK, Alone, ConnectBegin, NotConnected, Exists
    <3>3. /\ pc'[r] = "marking" /\ On(r, s)'
          /\ \A q \in Request : q # r => ~On(q, s)'
      BY <3>1 DEF CoreInv, TypeOK, On, ConnectBegin, Goto
    <3>4. Stage(s, "marking")'
      BY <3>2 DEF Stage, Agree, ConnectBegin, rowVars
    <3>. QED  BY <2>2, <3>3, <3>4 DEF Alone
  <2>. QED  BY <2>1, <2>2
<1>. QED  BY <1>1, <1>2, <1>3, <1>4, <1>5, <1>6, <1>7 DEF CoreInv

\* The CONNECTING update.
LEMMA MarkConnectingStep ==
  ASSUME NEW r \in Request, CoreInv, MarkConnecting(r)
  PROVE  CoreInv'
<1>1. TypeOK'
  BY NoneAssumption, OpsAssumption DEF CoreInv, MarkConnecting, Goto, SetRow, Exists,
         requestVars, rowVars, TypeOK, Kind, Status, Op, Pc
<1>2. HeldOK'
  <2>1. pc'[r] \in {"recording", "erring", "dialing"}
    BY DEF CoreInv, TypeOK, MarkConnecting, Goto, Kind
  <2>. QED  BY <2>1 DEF CoreInv, TypeOK, MarkConnecting, Goto, HeldOK
<1>3. RaceOK'
  BY NoneAssumption, OpsAssumption DEF CoreInv, MarkConnecting, Goto, SetRow, Exists,
         requestVars, rowVars, RaceOK, Opening, TypeOK, RequestOK, Knows
<1>4. RequestOK'
  <2>1. /\ \A q \in Request : q # r => pc'[q] = pc[q]
        /\ pc[r] = "marking"
        /\ srv' = srv /\ seen' = seen /\ kind' = kind
    BY DEF CoreInv, TypeOK, MarkConnecting, Goto
  <2>2. \A t \in Server : row[t] # "unborn" => row'[t] # "unborn"
    BY DEF CoreInv, TypeOK, MarkConnecting, SetRow, Exists
  <2>3. /\ pc'[r] \in {"dialing", "caching"} => seen[r] = "remote"
        /\ pc'[r] \in {"recording", "reporting"} => seen[r] # "noUrl"
    <3>1. pc'[r] = CASE seen[r] = "local" -> "recording"
                     [] seen[r] = "noUrl" -> "erring"
                     [] seen[r] = "remote" -> "dialing"
      BY DEF CoreInv, TypeOK, MarkConnecting, Goto
    <3>2. seen[r] \in Kind
      BY DEF CoreInv, TypeOK
    <3>. QED  BY <3>1, <3>2 DEF Kind
  <2>. QED  BY <2>1, <2>2, <2>3 DEF CoreInv, RequestOK, Knows
<1>5. MapHoldsOpenClients'
  BY NoneAssumption, OpsAssumption DEF CoreInv, MarkConnecting, Goto, SetRow, Exists,
         requestVars, rowVars, MapHoldsOpenClients, HeldOK, TypeOK, RequestOK, Knows
<1>6. ClientsAccountedFor'
  BY NoneAssumption, OpsAssumption DEF CoreInv, MarkConnecting, Goto, SetRow, Exists,
         requestVars, rowVars, ClientsAccountedFor, MapHoldsOpenClients, HeldOK, RaceOK,
         Opening, TypeOK, RequestOK, Knows
<1>7. AloneOK'
  <2>. SUFFICES ASSUME NEW t \in Server, ~dirty'[t]
               PROVE  Alone(t)'
    BY DEF AloneOK
  <2>1. CASE t # srv[r]
    <3>1. ~dirty[t]
      BY <2>1 DEF CoreInv, TypeOK, MarkConnecting, Goto, SetRow, Exists, requestVars,
         rowVars
    <3>2. Alone(t)
      BY <3>1 DEF CoreInv, AloneOK
    <3>3. /\ row'[t] = row[t] /\ active'[t] = active[t] /\ conns'[t] = conns[t]
          /\ health'[t] = health[t] /\ kind'[t] = kind[t] /\ again'[t] = again[t]
      BY <2>1 DEF CoreInv, TypeOK, MarkConnecting, Goto, SetRow, Exists, requestVars,
         rowVars
    <3>4. /\ \A q \in Request : On(q, t)' <=> On(q, t)
          /\ \A q \in Request : On(q, t) => pc'[q] = pc[q]
      BY <2>1, NoneAssumption DEF CoreInv, TypeOK, On, MarkConnecting, Goto, SetRow, Exists,
         requestVars, rowVars
    <3>. QED  BY <3>2, <3>3, <3>4, AloneFrame
  <2>2. CASE t = srv[r]
    <3>1. /\ ~dirty[t] /\ On(r, t)
          /\ \A q \in Request : On(q, t)' <=> On(q, t)
      BY <2>2, NoneAssumption DEF CoreInv, TypeOK, On, MarkConnecting, Goto, Kind
    <3>2. /\ \A q \in Request : On(q, t) => q = r
          /\ Stage(t, "marking")
      BY <3>1 DEF CoreInv, AloneOK, Alone, MarkConnecting
    <3>3. /\ row'[t] = "connecting" /\ active'[t] = None
          /\ conns'[t] = conns[t] /\ again'[t] = again[t] /\ kind'[t] = kind[t]
          /\ kind[t] # "local" /\ ~again[t] => conns[t] = 0
      BY <2>2, <3>2 DEF CoreInv, TypeOK, Stage, MarkConnecting, SetRow, Exists
    <3>4. /\ pc'[r] \in {"recording", "erring", "dialing"}
          /\ pc'[r] = "recording" <=> kind'[t] = "local"
      <4>1. pc'[r] = CASE seen[r] = "local" -> "recording"
                       [] seen[r] = "noUrl" -> "erring"
                       [] seen[r] = "remote" -> "dialing"
        BY DEF CoreInv, TypeOK, MarkConnecting, Goto
      <4>2. seen[r] \in Kind /\ (seen[r] = "local" <=> kind[t] = "local") /\ kind' = kind
        BY <2>2 DEF CoreInv, TypeOK, RequestOK, Knows, MarkConnecting
      <4>. QED  BY <4>1, <4>2 DEF Kind
    <3>5. Stage(t, pc[r])'
      BY <3>3, <3>4 DEF Stage, Status
    <3>. QED  BY <3>1, <3>2, <3>5 DEF Alone
  <2>. QED  BY <2>1, <2>2
<1>. QED  BY <1>1, <1>2, <1>3, <1>4, <1>5, <1>6, <1>7 DEF CoreInv

\* The CONNECTING update fails.
LEMMA MarkConnectingRaisesStep ==
  ASSUME NEW r \in Request, CoreInv, MarkConnectingRaises(r)
  PROVE  CoreInv'
<1>1. TypeOK'
  BY NoneAssumption, OpsAssumption DEF CoreInv, MarkConnectingRaises, Goto, Over, Taint,
         requestVars, rowVars, TypeOK, Kind, Status, Op, Pc
<1>2. HeldOK'
  BY NoneAssumption, OpsAssumption DEF CoreInv, MarkConnectingRaises, Goto, Over, Taint,
         requestVars, rowVars, HeldOK, TypeOK, MapHoldsOpenClients
<1>3. RaceOK'
  BY NoneAssumption, OpsAssumption DEF CoreInv, MarkConnectingRaises, Goto, Over, Taint,
         requestVars, rowVars, RaceOK, Opening, TypeOK, RequestOK, Knows
<1>4. RequestOK'
  BY NoneAssumption, OpsAssumption DEF CoreInv, MarkConnectingRaises, Goto, Over, Taint,
         requestVars, rowVars, RequestOK, Knows, TypeOK, Status
<1>5. MapHoldsOpenClients'
  BY NoneAssumption, OpsAssumption DEF CoreInv, MarkConnectingRaises, Goto, Over, Taint,
         requestVars, rowVars, MapHoldsOpenClients, HeldOK, TypeOK, RequestOK, Knows
<1>6. ClientsAccountedFor'
  BY NoneAssumption, OpsAssumption DEF CoreInv, MarkConnectingRaises, Goto, Over, Taint,
         requestVars, rowVars, ClientsAccountedFor, MapHoldsOpenClients, HeldOK, RaceOK,
         Opening, TypeOK, RequestOK, Knows
<1>7. AloneOK'
  <2>. SUFFICES ASSUME NEW t \in Server, ~dirty'[t]
               PROVE  Alone(t)'
    BY DEF AloneOK
  <2>1. CASE t # srv[r]
    <3>1. ~dirty[t]
      BY <2>1 DEF CoreInv, TypeOK, MarkConnectingRaises, Goto, Over, Taint, requestVars,
         rowVars
    <3>2. Alone(t)
      BY <3>1 DEF CoreInv, AloneOK
    <3>3. /\ row'[t] = row[t] /\ active'[t] = active[t] /\ conns'[t] = conns[t]
          /\ health'[t] = health[t] /\ kind'[t] = kind[t] /\ again'[t] = again[t]
      BY <2>1 DEF CoreInv, TypeOK, MarkConnectingRaises, Goto, Over, Taint, requestVars,
         rowVars
    <3>4. /\ \A q \in Request : On(q, t)' <=> On(q, t)
          /\ \A q \in Request : On(q, t) => pc'[q] = pc[q]
      BY <2>1, NoneAssumption DEF CoreInv, TypeOK, On, MarkConnectingRaises, Goto, Over,
         Taint, requestVars, rowVars
    <3>. QED  BY <3>2, <3>3, <3>4, AloneFrame
  <2>2. CASE t = srv[r]
    BY <2>2, NoneAssumption DEF CoreInv, TypeOK, AloneOK, Alone, On, Stage, Agree,
           RequestOK, Knows, Reported, Status, MarkConnectingRaises, Goto, Over, Taint,
           requestVars, rowVars
  <2>. QED  BY <2>1, <2>2
<1>. QED  BY <1>1, <1>2, <1>3, <1>4, <1>5, <1>6, <1>7 DEF CoreInv

\* A client is opened and entered into the map.
LEMMA DialStep ==
  ASSUME NEW r \in Request, CoreInv, Dial(r)
  PROVE  CoreInv'
<1>1. TypeOK'
  <2>0. srv[r] \in Server
    BY DEF CoreInv, RequestOK, Knows, Dial
  <2>1. PICK c \in Client \ open : /\ open' = open \cup {c}
                                   /\ active' = [active EXCEPT ![srv[r]] = c]
                                   /\ of' = [of EXCEPT ![c] = srv[r]]
    BY DEF Dial
  <2>. QED  BY <2>0, <2>1 DEF CoreInv, Dial, Goto, requestVars, rowVars,
                TypeOK, Kind, Status, Op, Pc
<1>2. HeldOK'
  <2>0. srv[r] \in Server
    BY DEF CoreInv, RequestOK, Knows, Dial
  <2>1. PICK c \in Client \ open : /\ open' = open \cup {c}
                                   /\ of' = [of EXCEPT ![c] = srv[r]]
    BY DEF Dial
  <2>2. \A d \in open' : of'[d] \in Server
    BY <2>0, <2>1 DEF CoreInv, TypeOK, HeldOK
  <2>3. held[r] = None /\ held' = held /\ pc' = [pc EXCEPT ![r] = "caching"]
    BY DEF CoreInv, HeldOK, Dial, Goto
  <2>. QED  BY <2>2, <2>3 DEF CoreInv, TypeOK, HeldOK
<1>3. RaceOK'
  BY NoneAssumption, OpsAssumption DEF CoreInv, Dial, Goto, requestVars, rowVars, RaceOK,
         Opening, TypeOK, RequestOK, Knows
<1>4. RequestOK'
  BY NoneAssumption, OpsAssumption DEF CoreInv, Dial, Goto, requestVars, rowVars,
         RequestOK, Knows, TypeOK, Status
<1>5. MapHoldsOpenClients'
  BY NoneAssumption, OpsAssumption DEF CoreInv, Dial, Goto, requestVars, rowVars,
         MapHoldsOpenClients, HeldOK, TypeOK, RequestOK, Knows
<1>6. ClientsAccountedFor'
  BY NoneAssumption, OpsAssumption DEF CoreInv, Dial, Goto, requestVars, rowVars,
         ClientsAccountedFor, MapHoldsOpenClients, HeldOK, RaceOK, Opening, TypeOK,
         RequestOK, Knows
<1>7. AloneOK'
  <2>. SUFFICES ASSUME NEW t \in Server, ~dirty'[t]
               PROVE  Alone(t)'
    BY DEF AloneOK
  <2>1. CASE t # srv[r]
    <3>1. ~dirty[t]
      BY <2>1 DEF CoreInv, TypeOK, Dial, Goto, requestVars, rowVars
    <3>2. Alone(t)
      BY <3>1 DEF CoreInv, AloneOK
    <3>3. /\ row'[t] = row[t] /\ active'[t] = active[t] /\ conns'[t] = conns[t]
          /\ health'[t] = health[t] /\ kind'[t] = kind[t] /\ again'[t] = again[t]
      BY <2>1 DEF CoreInv, TypeOK, Dial, Goto, requestVars, rowVars
    <3>4. /\ \A q \in Request : On(q, t)' <=> On(q, t)
          /\ \A q \in Request : On(q, t) => pc'[q] = pc[q]
      BY <2>1, NoneAssumption DEF CoreInv, TypeOK, On, Dial, Goto, requestVars, rowVars
    <3>. QED  BY <3>2, <3>3, <3>4, AloneFrame
  <2>2. CASE t = srv[r]
    BY <2>2, NoneAssumption DEF CoreInv, TypeOK, AloneOK, Alone, On, Stage, Agree,
           RequestOK, Knows, Reported, Status, Dial, Goto, requestVars, rowVars
  <2>. QED  BY <2>1, <2>2
<1>. QED  BY <1>1, <1>2, <1>3, <1>4, <1>5, <1>6, <1>7 DEF CoreInv

\* The server does not answer.
LEMMA DialFailsStep ==
  ASSUME NEW r \in Request, CoreInv, DialFails(r)
  PROVE  CoreInv'
<1>1. TypeOK'
  BY NoneAssumption, OpsAssumption DEF CoreInv, DialFails, Goto, requestVars, rowVars,
         TypeOK, Kind, Status, Op, Pc
<1>2. HeldOK'
  BY NoneAssumption, OpsAssumption DEF CoreInv, DialFails, Goto, requestVars, rowVars,
         HeldOK, TypeOK, MapHoldsOpenClients
<1>3. RaceOK'
  BY NoneAssumption, OpsAssumption DEF CoreInv, DialFails, Goto, requestVars, rowVars,
         RaceOK, Opening, TypeOK, RequestOK, Knows
<1>4. RequestOK'
  BY NoneAssumption, OpsAssumption DEF CoreInv, DialFails, Goto, requestVars, rowVars,
         RequestOK, Knows, TypeOK, Status
<1>5. MapHoldsOpenClients'
  BY NoneAssumption, OpsAssumption DEF CoreInv, DialFails, Goto, requestVars, rowVars,
         MapHoldsOpenClients, HeldOK, TypeOK, RequestOK, Knows
<1>6. ClientsAccountedFor'
  BY NoneAssumption, OpsAssumption DEF CoreInv, DialFails, Goto, requestVars, rowVars,
         ClientsAccountedFor, MapHoldsOpenClients, HeldOK, RaceOK, Opening, TypeOK,
         RequestOK, Knows
<1>7. AloneOK'
  <2>. SUFFICES ASSUME NEW t \in Server, ~dirty'[t]
               PROVE  Alone(t)'
    BY DEF AloneOK
  <2>1. CASE t # srv[r]
    <3>1. ~dirty[t]
      BY <2>1 DEF CoreInv, TypeOK, DialFails, Goto, requestVars, rowVars
    <3>2. Alone(t)
      BY <3>1 DEF CoreInv, AloneOK
    <3>3. /\ row'[t] = row[t] /\ active'[t] = active[t] /\ conns'[t] = conns[t]
          /\ health'[t] = health[t] /\ kind'[t] = kind[t] /\ again'[t] = again[t]
      BY <2>1 DEF CoreInv, TypeOK, DialFails, Goto, requestVars, rowVars
    <3>4. /\ \A q \in Request : On(q, t)' <=> On(q, t)
          /\ \A q \in Request : On(q, t) => pc'[q] = pc[q]
      BY <2>1, NoneAssumption DEF CoreInv, TypeOK, On, DialFails, Goto, requestVars, rowVars
    <3>. QED  BY <3>2, <3>3, <3>4, AloneFrame
  <2>2. CASE t = srv[r]
    BY <2>2, NoneAssumption DEF CoreInv, TypeOK, AloneOK, Alone, On, Stage, Agree,
           RequestOK, Knows, Reported, Status, DialFails, Goto, requestVars, rowVars
  <2>. QED  BY <2>1, <2>2
<1>. QED  BY <1>1, <1>2, <1>3, <1>4, <1>5, <1>6, <1>7 DEF CoreInv

\* The capabilities are cached.
LEMMA CacheCapabilitiesStep ==
  ASSUME NEW r \in Request, CoreInv, CacheCapabilities(r)
  PROVE  CoreInv'
<1>1. TypeOK'
  BY NoneAssumption, OpsAssumption DEF CoreInv, CacheCapabilities, Goto, requestVars,
         rowVars, TypeOK, Kind, Status, Op, Pc
<1>2. HeldOK'
  BY NoneAssumption, OpsAssumption DEF CoreInv, CacheCapabilities, Goto, requestVars,
         rowVars, HeldOK, TypeOK, MapHoldsOpenClients
<1>3. RaceOK'
  BY NoneAssumption, OpsAssumption DEF CoreInv, CacheCapabilities, Goto, requestVars,
         rowVars, RaceOK, Opening, TypeOK, RequestOK, Knows
<1>4. RequestOK'
  BY NoneAssumption, OpsAssumption DEF CoreInv, CacheCapabilities, Goto, requestVars,
         rowVars, RequestOK, Knows, TypeOK, Status
<1>5. MapHoldsOpenClients'
  BY NoneAssumption, OpsAssumption DEF CoreInv, CacheCapabilities, Goto, requestVars,
         rowVars, MapHoldsOpenClients, HeldOK, TypeOK, RequestOK, Knows
<1>6. ClientsAccountedFor'
  BY NoneAssumption, OpsAssumption DEF CoreInv, CacheCapabilities, Goto, requestVars,
         rowVars, ClientsAccountedFor, MapHoldsOpenClients, HeldOK, RaceOK, Opening, TypeOK,
         RequestOK, Knows
<1>7. AloneOK'
  <2>. SUFFICES ASSUME NEW t \in Server, ~dirty'[t]
               PROVE  Alone(t)'
    BY DEF AloneOK
  <2>1. CASE t # srv[r]
    <3>1. ~dirty[t]
      BY <2>1 DEF CoreInv, TypeOK, CacheCapabilities, Goto, requestVars, rowVars
    <3>2. Alone(t)
      BY <3>1 DEF CoreInv, AloneOK
    <3>3. /\ row'[t] = row[t] /\ active'[t] = active[t] /\ conns'[t] = conns[t]
          /\ health'[t] = health[t] /\ kind'[t] = kind[t] /\ again'[t] = again[t]
      BY <2>1 DEF CoreInv, TypeOK, CacheCapabilities, Goto, requestVars, rowVars
    <3>4. /\ \A q \in Request : On(q, t)' <=> On(q, t)
          /\ \A q \in Request : On(q, t) => pc'[q] = pc[q]
      BY <2>1, NoneAssumption DEF CoreInv, TypeOK, On, CacheCapabilities, Goto, requestVars,
         rowVars
    <3>. QED  BY <3>2, <3>3, <3>4, AloneFrame
  <2>2. CASE t = srv[r]
    BY <2>2, NoneAssumption DEF CoreInv, TypeOK, AloneOK, Alone, On, Stage, Agree,
           RequestOK, Knows, Reported, Status, CacheCapabilities, Goto, requestVars, rowVars
  <2>. QED  BY <2>1, <2>2
<1>. QED  BY <1>1, <1>2, <1>3, <1>4, <1>5, <1>6, <1>7 DEF CoreInv

\* The ACTIVE update and its connection row.
LEMMA RecordConnectedStep ==
  ASSUME NEW r \in Request, CoreInv, RecordConnected(r)
  PROVE  CoreInv'
<1>1. TypeOK'
  <2>0. srv[r] \in Server
    BY DEF CoreInv, RequestOK, Knows, RecordConnected
  <2>. QED  BY <2>0 DEF CoreInv, RecordConnected, RefersTo, Goto, SetRow, Exists,
               requestVars, rowVars,
                TypeOK, Kind, Status, Op, Pc
<1>2. HeldOK'
  BY NoneAssumption, OpsAssumption DEF CoreInv, RecordConnected, RefersTo, Goto, SetRow,
     Exists, requestVars, rowVars, HeldOK, TypeOK, MapHoldsOpenClients
<1>3. RaceOK'
  BY NoneAssumption, OpsAssumption DEF CoreInv, RecordConnected, RefersTo, Goto, SetRow,
     Exists, requestVars, rowVars, RaceOK, Opening, TypeOK, RequestOK, Knows
<1>4. RequestOK'
  BY NoneAssumption, OpsAssumption DEF CoreInv, RecordConnected, RefersTo, Goto, SetRow,
     Exists, requestVars, rowVars, RequestOK, Knows, TypeOK, Status
<1>5. MapHoldsOpenClients'
  BY NoneAssumption, OpsAssumption DEF CoreInv, RecordConnected, RefersTo, Goto, SetRow,
     Exists, requestVars, rowVars, MapHoldsOpenClients, HeldOK, TypeOK, RequestOK, Knows
<1>6. ClientsAccountedFor'
  BY NoneAssumption, OpsAssumption DEF CoreInv, RecordConnected, RefersTo, Goto, SetRow,
     Exists, requestVars, rowVars, ClientsAccountedFor, MapHoldsOpenClients, HeldOK, RaceOK,
         Opening, TypeOK, RequestOK, Knows
<1>7. AloneOK'
  <2>. SUFFICES ASSUME NEW t \in Server, ~dirty'[t]
               PROVE  Alone(t)'
    BY DEF AloneOK
  <2>1. CASE t # srv[r]
    <3>1. ~dirty[t]
      BY <2>1 DEF CoreInv, TypeOK, RecordConnected, RefersTo, Goto, SetRow, Exists,
         requestVars, rowVars
    <3>2. Alone(t)
      BY <3>1 DEF CoreInv, AloneOK
    <3>3. /\ row'[t] = row[t] /\ active'[t] = active[t] /\ conns'[t] = conns[t]
          /\ health'[t] = health[t] /\ kind'[t] = kind[t] /\ again'[t] = again[t]
      BY <2>1 DEF CoreInv, TypeOK, RecordConnected, RefersTo, Goto, SetRow, Exists,
         requestVars, rowVars
    <3>4. /\ \A q \in Request : On(q, t)' <=> On(q, t)
          /\ \A q \in Request : On(q, t) => pc'[q] = pc[q]
      BY <2>1, NoneAssumption DEF CoreInv, TypeOK, On, RecordConnected, RefersTo, Goto,
         SetRow, Exists,
         requestVars, rowVars
    <3>. QED  BY <3>2, <3>3, <3>4, AloneFrame
  <2>2. CASE t = srv[r]
    <3>1. /\ ~dirty[t] /\ On(r, t) /\ pc'[r] = "reporting"
          /\ \A q \in Request : On(q, t)' <=> On(q, t)
      BY <2>2 DEF CoreInv, TypeOK, On, RecordConnected, Goto
    <3>2. /\ \A q \in Request : On(q, t) => q = r
          /\ Stage(t, "recording")
      BY <3>1 DEF CoreInv, AloneOK, Alone, RecordConnected
    <3>3. /\ row'[t] = "active" /\ active' = active /\ kind' = kind
          /\ conns'[t] = conns[t] + 1 /\ conns[t] \in Nat
          /\ again'[t] = (again[t] \/ conns[t] > 0)
      BY <2>2 DEF CoreInv, TypeOK, RecordConnected, RefersTo, SetRow, Exists
    <3>4. ~again'[t] => ~(conns[t] > 0)
      BY <3>3, Zenon
    <3>5. Stage(t, "reporting")'
      BY <3>2, <3>3, <3>4 DEF Stage, Status
    <3>. QED  BY <3>1, <3>2, <3>5 DEF Alone
  <2>. QED  BY <2>1, <2>2
<1>. QED  BY <1>1, <1>2, <1>3, <1>4, <1>5, <1>6, <1>7 DEF CoreInv

\* The health entry of a connect.
LEMMA ReportConnectedStep ==
  ASSUME NEW r \in Request, CoreInv, ReportConnected(r)
  PROVE  CoreInv'
<1>1. TypeOK'
  BY NoneAssumption, OpsAssumption DEF CoreInv, ReportConnected, Goto, Over, requestVars,
         rowVars, TypeOK, Kind, Status, Op, Pc
<1>2. HeldOK'
  BY NoneAssumption, OpsAssumption DEF CoreInv, ReportConnected, Goto, Over, requestVars,
         rowVars, HeldOK, TypeOK, MapHoldsOpenClients
<1>3. RaceOK'
  BY NoneAssumption, OpsAssumption DEF CoreInv, ReportConnected, Goto, Over, requestVars,
         rowVars, RaceOK, Opening, TypeOK, RequestOK, Knows
<1>4. RequestOK'
  BY NoneAssumption, OpsAssumption DEF CoreInv, ReportConnected, Goto, Over, requestVars,
         rowVars, RequestOK, Knows, TypeOK, Status
<1>5. MapHoldsOpenClients'
  BY NoneAssumption, OpsAssumption DEF CoreInv, ReportConnected, Goto, Over, requestVars,
         rowVars, MapHoldsOpenClients, HeldOK, TypeOK, RequestOK, Knows
<1>6. ClientsAccountedFor'
  BY NoneAssumption, OpsAssumption DEF CoreInv, ReportConnected, Goto, Over, requestVars,
         rowVars, ClientsAccountedFor, MapHoldsOpenClients, HeldOK, RaceOK, Opening, TypeOK,
         RequestOK, Knows
<1>7. AloneOK'
  <2>. SUFFICES ASSUME NEW t \in Server, ~dirty'[t]
               PROVE  Alone(t)'
    BY DEF AloneOK
  <2>1. CASE t # srv[r]
    <3>1. ~dirty[t]
      BY <2>1 DEF CoreInv, TypeOK, ReportConnected, Goto, Over, requestVars, rowVars
    <3>2. Alone(t)
      BY <3>1 DEF CoreInv, AloneOK
    <3>3. /\ row'[t] = row[t] /\ active'[t] = active[t] /\ conns'[t] = conns[t]
          /\ health'[t] = health[t] /\ kind'[t] = kind[t] /\ again'[t] = again[t]
      BY <2>1 DEF CoreInv, TypeOK, ReportConnected, Goto, Over, requestVars, rowVars
    <3>4. /\ \A q \in Request : On(q, t)' <=> On(q, t)
          /\ \A q \in Request : On(q, t) => pc'[q] = pc[q]
      BY <2>1, NoneAssumption DEF CoreInv, TypeOK, On, ReportConnected, Goto, Over,
         requestVars, rowVars
    <3>. QED  BY <3>2, <3>3, <3>4, AloneFrame
  <2>2. CASE t = srv[r]
    BY <2>2, NoneAssumption DEF CoreInv, TypeOK, AloneOK, Alone, On, Stage, Agree,
           RequestOK, Knows, Reported, Status, ReportConnected, Goto, Over, requestVars,
           rowVars
  <2>. QED  BY <2>1, <2>2
<1>. QED  BY <1>1, <1>2, <1>3, <1>4, <1>5, <1>6, <1>7 DEF CoreInv

\* A write after the dial fails.
LEMMA ConnectRaisesStep ==
  ASSUME NEW r \in Request, CoreInv, ConnectRaises(r)
  PROVE  CoreInv'
<1>1. TypeOK'
  <2>0. srv[r] \in Server
    BY DEF CoreInv, RequestOK, Knows, ConnectRaises
  <2>1. CASE seen[r] = "remote"
    BY <2>0, <2>1 DEF CoreInv, ConnectRaises, Goto, Over, Taint, requestVars, rowVars,
           TypeOK, Kind, Status, Op, Pc
  <2>2. CASE seen[r] # "remote"
    BY <2>0, <2>2 DEF CoreInv, ConnectRaises, Goto, Over, Taint, requestVars, rowVars,
           TypeOK, Kind, Status, Op, Pc
  <2>. QED  BY <2>1, <2>2 DEF CoreInv, ConnectRaises, TypeOK
<1>2. HeldOK'
  BY NoneAssumption, OpsAssumption DEF CoreInv, ConnectRaises, Goto, Over, Taint,
         requestVars, rowVars, HeldOK, TypeOK, MapHoldsOpenClients
<1>3. RaceOK'
  BY NoneAssumption, OpsAssumption DEF CoreInv, ConnectRaises, Goto, Over, Taint,
         requestVars, rowVars, RaceOK, Opening, TypeOK, RequestOK, Knows
<1>4. RequestOK'
  BY NoneAssumption, OpsAssumption DEF CoreInv, ConnectRaises, Goto, Over, Taint,
         requestVars, rowVars, RequestOK, Knows, TypeOK, Status
<1>5. MapHoldsOpenClients'
  BY NoneAssumption, OpsAssumption DEF CoreInv, ConnectRaises, Goto, Over, Taint,
         requestVars, rowVars, MapHoldsOpenClients, HeldOK, TypeOK, RequestOK, Knows
<1>6. ClientsAccountedFor'
  BY NoneAssumption, OpsAssumption DEF CoreInv, ConnectRaises, Goto, Over, Taint,
         requestVars, rowVars, ClientsAccountedFor, MapHoldsOpenClients, HeldOK, RaceOK,
         Opening, TypeOK, RequestOK, Knows
<1>7. AloneOK'
  <2>. SUFFICES ASSUME NEW t \in Server, ~dirty'[t]
               PROVE  Alone(t)'
    BY DEF AloneOK
  <2>1. CASE t # srv[r]
    <3>1. ~dirty[t]
      BY <2>1 DEF CoreInv, TypeOK, ConnectRaises, Goto, Over, Taint, requestVars, rowVars
    <3>2. Alone(t)
      BY <3>1 DEF CoreInv, AloneOK
    <3>3. /\ row'[t] = row[t] /\ active'[t] = active[t] /\ conns'[t] = conns[t]
          /\ health'[t] = health[t] /\ kind'[t] = kind[t] /\ again'[t] = again[t]
      BY <2>1 DEF CoreInv, TypeOK, ConnectRaises, Goto, Over, Taint, requestVars, rowVars
    <3>4. /\ \A q \in Request : On(q, t)' <=> On(q, t)
          /\ \A q \in Request : On(q, t) => pc'[q] = pc[q]
      BY <2>1, NoneAssumption DEF CoreInv, TypeOK, On, ConnectRaises, Goto, Over, Taint,
         requestVars, rowVars
    <3>. QED  BY <3>2, <3>3, <3>4, AloneFrame
  <2>2. CASE t = srv[r]
    BY <2>2, NoneAssumption DEF CoreInv, TypeOK, AloneOK, Alone, On, Stage, Agree,
           RequestOK, Knows, Reported, Status, ConnectRaises, Goto, Over, Taint,
           requestVars, rowVars
  <2>. QED  BY <2>1, <2>2
<1>. QED  BY <1>1, <1>2, <1>3, <1>4, <1>5, <1>6, <1>7 DEF CoreInv

\* The ERROR update.
LEMMA RecordErrorStep ==
  ASSUME NEW r \in Request, CoreInv, RecordError(r)
  PROVE  CoreInv'
<1>1. TypeOK'
  BY NoneAssumption, OpsAssumption DEF CoreInv, RecordError, Goto, SetRow, Exists,
         requestVars, rowVars, TypeOK, Kind, Status, Op, Pc
<1>2. HeldOK'
  BY NoneAssumption, OpsAssumption DEF CoreInv, RecordError, Goto, SetRow, Exists,
         requestVars, rowVars, HeldOK, TypeOK, MapHoldsOpenClients
<1>3. RaceOK'
  BY NoneAssumption, OpsAssumption DEF CoreInv, RecordError, Goto, SetRow, Exists,
         requestVars, rowVars, RaceOK, Opening, TypeOK, RequestOK, Knows
<1>4. RequestOK'
  BY NoneAssumption, OpsAssumption DEF CoreInv, RecordError, Goto, SetRow, Exists,
         requestVars, rowVars, RequestOK, Knows, TypeOK, Status
<1>5. MapHoldsOpenClients'
  BY NoneAssumption, OpsAssumption DEF CoreInv, RecordError, Goto, SetRow, Exists,
         requestVars, rowVars, MapHoldsOpenClients, HeldOK, TypeOK, RequestOK, Knows
<1>6. ClientsAccountedFor'
  BY NoneAssumption, OpsAssumption DEF CoreInv, RecordError, Goto, SetRow, Exists,
         requestVars, rowVars, ClientsAccountedFor, MapHoldsOpenClients, HeldOK, RaceOK,
         Opening, TypeOK, RequestOK, Knows
<1>7. AloneOK'
  <2>. SUFFICES ASSUME NEW t \in Server, ~dirty'[t]
               PROVE  Alone(t)'
    BY DEF AloneOK
  <2>1. CASE t # srv[r]
    <3>1. ~dirty[t]
      BY <2>1 DEF CoreInv, TypeOK, RecordError, Goto, SetRow, Exists, requestVars, rowVars
    <3>2. Alone(t)
      BY <3>1 DEF CoreInv, AloneOK
    <3>3. /\ row'[t] = row[t] /\ active'[t] = active[t] /\ conns'[t] = conns[t]
          /\ health'[t] = health[t] /\ kind'[t] = kind[t] /\ again'[t] = again[t]
      BY <2>1 DEF CoreInv, TypeOK, RecordError, Goto, SetRow, Exists, requestVars, rowVars
    <3>4. /\ \A q \in Request : On(q, t)' <=> On(q, t)
          /\ \A q \in Request : On(q, t) => pc'[q] = pc[q]
      BY <2>1, NoneAssumption DEF CoreInv, TypeOK, On, RecordError, Goto, SetRow, Exists,
         requestVars, rowVars
    <3>. QED  BY <3>2, <3>3, <3>4, AloneFrame
  <2>2. CASE t = srv[r]
    BY <2>2, NoneAssumption DEF CoreInv, TypeOK, AloneOK, Alone, On, Stage, Agree,
           RequestOK, Knows, Reported, Status, RecordError, Goto, SetRow, Exists,
           requestVars, rowVars
  <2>. QED  BY <2>1, <2>2
<1>. QED  BY <1>1, <1>2, <1>3, <1>4, <1>5, <1>6, <1>7 DEF CoreInv

\* The health entry of a failed connect.
LEMMA ReportErrorStep ==
  ASSUME NEW r \in Request, CoreInv, ReportError(r)
  PROVE  CoreInv'
<1>1. TypeOK'
  BY NoneAssumption, OpsAssumption DEF CoreInv, ReportError, Goto, Over, requestVars,
         rowVars, TypeOK, Kind, Status, Op, Pc
<1>2. HeldOK'
  BY NoneAssumption, OpsAssumption DEF CoreInv, ReportError, Goto, Over, requestVars,
         rowVars, HeldOK, TypeOK, MapHoldsOpenClients
<1>3. RaceOK'
  BY NoneAssumption, OpsAssumption DEF CoreInv, ReportError, Goto, Over, requestVars,
         rowVars, RaceOK, Opening, TypeOK, RequestOK, Knows
<1>4. RequestOK'
  BY NoneAssumption, OpsAssumption DEF CoreInv, ReportError, Goto, Over, requestVars,
         rowVars, RequestOK, Knows, TypeOK, Status
<1>5. MapHoldsOpenClients'
  BY NoneAssumption, OpsAssumption DEF CoreInv, ReportError, Goto, Over, requestVars,
         rowVars, MapHoldsOpenClients, HeldOK, TypeOK, RequestOK, Knows
<1>6. ClientsAccountedFor'
  BY NoneAssumption, OpsAssumption DEF CoreInv, ReportError, Goto, Over, requestVars,
         rowVars, ClientsAccountedFor, MapHoldsOpenClients, HeldOK, RaceOK, Opening, TypeOK,
         RequestOK, Knows
<1>7. AloneOK'
  <2>. SUFFICES ASSUME NEW t \in Server, ~dirty'[t]
               PROVE  Alone(t)'
    BY DEF AloneOK
  <2>1. CASE t # srv[r]
    <3>1. ~dirty[t]
      BY <2>1 DEF CoreInv, TypeOK, ReportError, Goto, Over, requestVars, rowVars
    <3>2. Alone(t)
      BY <3>1 DEF CoreInv, AloneOK
    <3>3. /\ row'[t] = row[t] /\ active'[t] = active[t] /\ conns'[t] = conns[t]
          /\ health'[t] = health[t] /\ kind'[t] = kind[t] /\ again'[t] = again[t]
      BY <2>1 DEF CoreInv, TypeOK, ReportError, Goto, Over, requestVars, rowVars
    <3>4. /\ \A q \in Request : On(q, t)' <=> On(q, t)
          /\ \A q \in Request : On(q, t) => pc'[q] = pc[q]
      BY <2>1, NoneAssumption DEF CoreInv, TypeOK, On, ReportError, Goto, Over, requestVars,
         rowVars
    <3>. QED  BY <3>2, <3>3, <3>4, AloneFrame
  <2>2. CASE t = srv[r]
    BY <2>2, NoneAssumption DEF CoreInv, TypeOK, AloneOK, Alone, On, Stage, Agree,
           RequestOK, Knows, Reported, Status, ReportError, Goto, Over, requestVars, rowVars
  <2>. QED  BY <2>1, <2>2
<1>. QED  BY <1>1, <1>2, <1>3, <1>4, <1>5, <1>6, <1>7 DEF CoreInv

\* The ERROR update fails.
LEMMA RecordErrorRaisesStep ==
  ASSUME NEW r \in Request, CoreInv, RecordErrorRaises(r)
  PROVE  CoreInv'
<1>1. TypeOK'
  BY NoneAssumption, OpsAssumption DEF CoreInv, RecordErrorRaises, Goto, Over, Taint,
         requestVars, rowVars, TypeOK, Kind, Status, Op, Pc
<1>2. HeldOK'
  BY NoneAssumption, OpsAssumption DEF CoreInv, RecordErrorRaises, Goto, Over, Taint,
         requestVars, rowVars, HeldOK, TypeOK, MapHoldsOpenClients
<1>3. RaceOK'
  BY NoneAssumption, OpsAssumption DEF CoreInv, RecordErrorRaises, Goto, Over, Taint,
         requestVars, rowVars, RaceOK, Opening, TypeOK, RequestOK, Knows
<1>4. RequestOK'
  BY NoneAssumption, OpsAssumption DEF CoreInv, RecordErrorRaises, Goto, Over, Taint,
         requestVars, rowVars, RequestOK, Knows, TypeOK, Status
<1>5. MapHoldsOpenClients'
  BY NoneAssumption, OpsAssumption DEF CoreInv, RecordErrorRaises, Goto, Over, Taint,
         requestVars, rowVars, MapHoldsOpenClients, HeldOK, TypeOK, RequestOK, Knows
<1>6. ClientsAccountedFor'
  BY NoneAssumption, OpsAssumption DEF CoreInv, RecordErrorRaises, Goto, Over, Taint,
         requestVars, rowVars, ClientsAccountedFor, MapHoldsOpenClients, HeldOK, RaceOK,
         Opening, TypeOK, RequestOK, Knows
<1>7. AloneOK'
  <2>. SUFFICES ASSUME NEW t \in Server, ~dirty'[t]
               PROVE  Alone(t)'
    BY DEF AloneOK
  <2>1. CASE t # srv[r]
    <3>1. ~dirty[t]
      BY <2>1 DEF CoreInv, TypeOK, RecordErrorRaises, Goto, Over, Taint, requestVars,
         rowVars
    <3>2. Alone(t)
      BY <3>1 DEF CoreInv, AloneOK
    <3>3. /\ row'[t] = row[t] /\ active'[t] = active[t] /\ conns'[t] = conns[t]
          /\ health'[t] = health[t] /\ kind'[t] = kind[t] /\ again'[t] = again[t]
      BY <2>1 DEF CoreInv, TypeOK, RecordErrorRaises, Goto, Over, Taint, requestVars,
         rowVars
    <3>4. /\ \A q \in Request : On(q, t)' <=> On(q, t)
          /\ \A q \in Request : On(q, t) => pc'[q] = pc[q]
      BY <2>1, NoneAssumption DEF CoreInv, TypeOK, On, RecordErrorRaises, Goto, Over, Taint,
         requestVars, rowVars
    <3>. QED  BY <3>2, <3>3, <3>4, AloneFrame
  <2>2. CASE t = srv[r]
    BY <2>2, NoneAssumption DEF CoreInv, TypeOK, AloneOK, Alone, On, Stage, Agree,
           RequestOK, Knows, Reported, Status, RecordErrorRaises, Goto, Over, Taint,
           requestVars, rowVars
  <2>. QED  BY <2>1, <2>2
<1>. QED  BY <1>1, <1>2, <1>3, <1>4, <1>5, <1>6, <1>7 DEF CoreInv

\* A disconnect takes the client out of the map.
LEMMA DisconnectBeginStep ==
  ASSUME NEW r \in Request, NEW s \in Server, CoreInv, DisconnectBegin(r, s)
  PROVE  CoreInv'
<1>1. TypeOK'
  BY NoneAssumption, OpsAssumption DEF CoreInv, DisconnectBegin, Goto, Exists, Pop, Busy,
         requestVars, rowVars, TypeOK, Kind, Status, Op, Pc
<1>2. HeldOK'
  BY NoneAssumption, OpsAssumption DEF CoreInv, DisconnectBegin, Goto, Exists, Pop, Busy,
         requestVars, rowVars, HeldOK, TypeOK, MapHoldsOpenClients
<1>3. RaceOK'
  BY NoneAssumption, OpsAssumption DEF CoreInv, DisconnectBegin, Goto, Exists, Pop, Busy,
         requestVars, rowVars, RaceOK, Opening, TypeOK, RequestOK, Knows
<1>4. RequestOK'
  BY NoneAssumption, OpsAssumption DEF CoreInv, DisconnectBegin, Goto, Exists, Pop, Busy,
         requestVars, rowVars, RequestOK, Knows, TypeOK, Status
<1>5. MapHoldsOpenClients'
  BY NoneAssumption, OpsAssumption DEF CoreInv, DisconnectBegin, Goto, Exists, Pop, Busy,
         requestVars, rowVars, MapHoldsOpenClients, HeldOK, TypeOK, RequestOK, Knows
<1>6. ClientsAccountedFor'
  BY NoneAssumption, OpsAssumption DEF CoreInv, DisconnectBegin, Goto, Exists, Pop, Busy,
         requestVars, rowVars, ClientsAccountedFor, MapHoldsOpenClients, HeldOK, RaceOK,
         Opening, TypeOK, RequestOK, Knows
<1>7. AloneOK'
  <2>. SUFFICES ASSUME NEW t \in Server, ~dirty'[t]
               PROVE  Alone(t)'
    BY DEF AloneOK
  <2>1. CASE t # s
    <3>1. ~dirty[t]
      BY <2>1 DEF CoreInv, TypeOK, DisconnectBegin, Goto, Exists, Pop, Busy, requestVars,
         rowVars
    <3>2. Alone(t)
      BY <3>1 DEF CoreInv, AloneOK
    <3>3. /\ row'[t] = row[t] /\ active'[t] = active[t] /\ conns'[t] = conns[t]
          /\ health'[t] = health[t] /\ kind'[t] = kind[t] /\ again'[t] = again[t]
      BY <2>1 DEF CoreInv, TypeOK, DisconnectBegin, Goto, Exists, Pop, Busy, requestVars,
         rowVars
    <3>4. /\ \A q \in Request : On(q, t)' <=> On(q, t)
          /\ \A q \in Request : On(q, t) => pc'[q] = pc[q]
      BY <2>1, NoneAssumption DEF CoreInv, TypeOK, On, DisconnectBegin, Goto, Exists, Pop,
         Busy, requestVars, rowVars
    <3>. QED  BY <3>2, <3>3, <3>4, AloneFrame
  <2>2. CASE t = s
    <3>1. \A q \in Request : ~On(q, s)
      BY <2>2, BusyEmpty DEF CoreInv, TypeOK, DisconnectBegin
    <3>2. /\ pc'[r] \in {"deactivating", "closing"} /\ On(r, s)'
          /\ \A q \in Request : q # r => ~On(q, s)'
      BY <3>1 DEF CoreInv, TypeOK, On, DisconnectBegin, Goto
    <3>3. Stage(s, pc[r])'
      BY <3>2 DEF CoreInv, TypeOK, Stage, DisconnectBegin, Pop, Exists, rowVars
    <3>. QED  BY <2>2, <3>2, <3>3 DEF Alone
  <2>. QED  BY <2>1, <2>2
<1>. QED  BY <1>1, <1>2, <1>3, <1>4, <1>5, <1>6, <1>7 DEF CoreInv

\* The popped client is closed.
LEMMA CloseClientStep ==
  ASSUME NEW r \in Request, CoreInv, CloseClient(r)
  PROVE  CoreInv'
<1>1. TypeOK'
  <2>1. held[r] # None /\ held[r] \in open \ torn
    BY DEF CoreInv, HeldOK, MapHoldsOpenClients, CloseClient
  <2>2. open' \in SUBSET Client /\ torn' \in SUBSET open'
    BY <2>1 DEF CoreInv, TypeOK, CloseClient
  <2>. QED  BY <2>2, NoneAssumption DEF CoreInv, CloseClient, Goto, rowVars, TypeOK, Pc
<1>2. HeldOK'
  BY NoneAssumption, OpsAssumption DEF CoreInv, CloseClient, Goto, requestVars, rowVars,
         HeldOK, TypeOK, MapHoldsOpenClients
<1>3. RaceOK'
  BY NoneAssumption, OpsAssumption DEF CoreInv, CloseClient, Goto, requestVars, rowVars,
         RaceOK, Opening, TypeOK, RequestOK, Knows
<1>4. RequestOK'
  BY NoneAssumption, OpsAssumption DEF CoreInv, CloseClient, Goto, requestVars, rowVars,
         RequestOK, Knows, TypeOK, Status
<1>5. MapHoldsOpenClients'
  BY NoneAssumption, OpsAssumption DEF CoreInv, CloseClient, Goto, requestVars, rowVars,
         MapHoldsOpenClients, HeldOK, TypeOK, RequestOK, Knows
<1>6. ClientsAccountedFor'
  BY NoneAssumption, OpsAssumption DEF CoreInv, CloseClient, Goto, requestVars, rowVars,
         ClientsAccountedFor, MapHoldsOpenClients, HeldOK, RaceOK, Opening, TypeOK,
         RequestOK, Knows
<1>7. AloneOK'
  <2>. SUFFICES ASSUME NEW t \in Server, ~dirty'[t]
               PROVE  Alone(t)'
    BY DEF AloneOK
  <2>1. CASE t # srv[r]
    <3>1. ~dirty[t]
      BY <2>1 DEF CoreInv, TypeOK, CloseClient, Goto, requestVars, rowVars
    <3>2. Alone(t)
      BY <3>1 DEF CoreInv, AloneOK
    <3>3. /\ row'[t] = row[t] /\ active'[t] = active[t] /\ conns'[t] = conns[t]
          /\ health'[t] = health[t] /\ kind'[t] = kind[t] /\ again'[t] = again[t]
      BY <2>1 DEF CoreInv, TypeOK, CloseClient, Goto, requestVars, rowVars
    <3>4. /\ \A q \in Request : On(q, t)' <=> On(q, t)
          /\ \A q \in Request : On(q, t) => pc'[q] = pc[q]
      BY <2>1, NoneAssumption DEF CoreInv, TypeOK, On, CloseClient, Goto, requestVars,
         rowVars
    <3>. QED  BY <3>2, <3>3, <3>4, AloneFrame
  <2>2. CASE t = srv[r]
    BY <2>2, NoneAssumption DEF CoreInv, TypeOK, AloneOK, Alone, On, Stage, Agree,
           RequestOK, Knows, Reported, Status, CloseClient, Goto, requestVars, rowVars
  <2>. QED  BY <2>1, <2>2
<1>. QED  BY <1>1, <1>2, <1>3, <1>4, <1>5, <1>6, <1>7 DEF CoreInv

\* The INACTIVE update.
LEMMA DeactivateStep ==
  ASSUME NEW r \in Request, CoreInv, ConnsOK, Deactivate(r)
  PROVE  CoreInv'
<1>1. TypeOK'
  <2>0. srv[r] \in Server
    BY DEF CoreInv, RequestOK, Knows, Deactivate
  <2>1. LatestClosed(conns[srv[r]]) \in Nat
    BY <2>0 DEF CoreInv, TypeOK, LatestClosed
  <2>2. conns' \in [Server -> Nat]
    BY <2>0, <2>1 DEF CoreInv, TypeOK, Deactivate
  <2>3. \A s \in Server : conns'[s] > 0 => row'[s] \in Status
    BY <2>0, <2>2 DEF CoreInv, TypeOK, Deactivate, SetRow, Exists, LatestClosed, Status
  <2>. QED  BY <2>0, <2>2, <2>3 DEF CoreInv, Deactivate, Goto, SetRow, Exists, requestVars,
                TypeOK, Kind, Status, Op, Pc
<1>2. HeldOK'
  BY NoneAssumption, OpsAssumption DEF CoreInv, Deactivate, Goto, SetRow, Exists,
         LatestClosed, requestVars, rowVars, HeldOK, TypeOK, MapHoldsOpenClients
<1>3. RaceOK'
  BY NoneAssumption, OpsAssumption DEF CoreInv, Deactivate, Goto, SetRow, Exists,
         LatestClosed, requestVars, rowVars, RaceOK, Opening, TypeOK, RequestOK, Knows
<1>4. RequestOK'
  BY NoneAssumption, OpsAssumption DEF CoreInv, Deactivate, Goto, SetRow, Exists,
         LatestClosed, requestVars, rowVars, RequestOK, Knows, TypeOK, Status
<1>5. MapHoldsOpenClients'
  BY NoneAssumption, OpsAssumption DEF CoreInv, Deactivate, Goto, SetRow, Exists,
         LatestClosed, requestVars, rowVars, MapHoldsOpenClients, HeldOK, TypeOK,
         RequestOK, Knows
<1>6. ClientsAccountedFor'
  BY NoneAssumption, OpsAssumption DEF CoreInv, Deactivate, Goto, SetRow, Exists,
         LatestClosed, requestVars, rowVars, ClientsAccountedFor, MapHoldsOpenClients,
         HeldOK, RaceOK, Opening, TypeOK, RequestOK, Knows
<1>7. AloneOK'
  <2>. SUFFICES ASSUME NEW t \in Server, ~dirty'[t]
               PROVE  Alone(t)'
    BY DEF AloneOK
  <2>1. CASE t # srv[r]
    <3>1. ~dirty[t]
      BY <2>1 DEF CoreInv, TypeOK, Deactivate, Goto, SetRow, Exists, LatestClosed,
         requestVars, rowVars
    <3>2. Alone(t)
      BY <3>1 DEF CoreInv, AloneOK
    <3>3. /\ row'[t] = row[t] /\ active'[t] = active[t] /\ conns'[t] = conns[t]
          /\ health'[t] = health[t] /\ kind'[t] = kind[t] /\ again'[t] = again[t]
      BY <2>1 DEF CoreInv, TypeOK, Deactivate, Goto, SetRow, Exists, LatestClosed,
         requestVars, rowVars
    <3>4. /\ \A q \in Request : On(q, t)' <=> On(q, t)
          /\ \A q \in Request : On(q, t) => pc'[q] = pc[q]
      BY <2>1, NoneAssumption DEF CoreInv, TypeOK, On, Deactivate, Goto, SetRow, Exists,
         LatestClosed, requestVars, rowVars
    <3>. QED  BY <3>2, <3>3, <3>4, AloneFrame
  <2>2. CASE t = srv[r]
    BY <2>2, NoneAssumption DEF CoreInv, TypeOK, AloneOK, Alone, On, Stage, Agree,
           RequestOK, Knows, Reported, Status, ConnsOK, Deactivate, Goto, SetRow, Exists,
           LatestClosed, requestVars, rowVars
  <2>. QED  BY <2>1, <2>2
<1>. QED  BY <1>1, <1>2, <1>3, <1>4, <1>5, <1>6, <1>7 DEF CoreInv

\* The health entry of a disconnect.
LEMMA ReportDisconnectedStep ==
  ASSUME NEW r \in Request, CoreInv, ReportDisconnected(r)
  PROVE  CoreInv'
<1>1. TypeOK'
  <2>0. srv[r] \in Server
    BY DEF CoreInv, RequestOK, Knows, ReportDisconnected
  <2>1. CASE op[r] = "unregister"
    BY <2>0, <2>1 DEF CoreInv, ReportDisconnected, Goto, Over, AfterDisconnect, requestVars,
       rowVars, TypeOK, Kind, Status, Op, Pc
  <2>2. CASE op[r] # "unregister"
    BY <2>0, <2>2 DEF CoreInv, ReportDisconnected, Goto, Over, AfterDisconnect, requestVars,
       rowVars, TypeOK, Kind, Status, Op, Pc
  <2>. QED  BY <2>1, <2>2 DEF CoreInv, ReportDisconnected, TypeOK
<1>2. HeldOK'
  BY NoneAssumption, OpsAssumption DEF CoreInv, ReportDisconnected, Goto, Over,
         AfterDisconnect, requestVars, rowVars, HeldOK, TypeOK, MapHoldsOpenClients
<1>3. RaceOK'
  BY NoneAssumption, OpsAssumption DEF CoreInv, ReportDisconnected, Goto, Over,
         AfterDisconnect, requestVars, rowVars, RaceOK, Opening, TypeOK, RequestOK,
         Knows
<1>4. RequestOK'
  BY NoneAssumption, OpsAssumption DEF CoreInv, ReportDisconnected, Goto, Over,
         AfterDisconnect, requestVars, rowVars, RequestOK, Knows, TypeOK, Status
<1>5. MapHoldsOpenClients'
  BY NoneAssumption, OpsAssumption DEF CoreInv, ReportDisconnected, Goto, Over,
         AfterDisconnect, requestVars, rowVars, MapHoldsOpenClients, HeldOK, TypeOK,
         RequestOK, Knows
<1>6. ClientsAccountedFor'
  BY NoneAssumption, OpsAssumption DEF CoreInv, ReportDisconnected, Goto, Over,
         AfterDisconnect, requestVars, rowVars, ClientsAccountedFor, MapHoldsOpenClients,
         HeldOK, RaceOK, Opening, TypeOK, RequestOK, Knows
<1>7. AloneOK'
  <2>. SUFFICES ASSUME NEW t \in Server, ~dirty'[t]
               PROVE  Alone(t)'
    BY DEF AloneOK
  <2>1. CASE t # srv[r]
    <3>1. ~dirty[t]
      BY <2>1 DEF CoreInv, TypeOK, ReportDisconnected, Goto, Over, AfterDisconnect,
         requestVars, rowVars
    <3>2. Alone(t)
      BY <3>1 DEF CoreInv, AloneOK
    <3>3. /\ row'[t] = row[t] /\ active'[t] = active[t] /\ conns'[t] = conns[t]
          /\ health'[t] = health[t] /\ kind'[t] = kind[t] /\ again'[t] = again[t]
      BY <2>1 DEF CoreInv, TypeOK, ReportDisconnected, Goto, Over, AfterDisconnect,
         requestVars, rowVars
    <3>4. /\ \A q \in Request : On(q, t)' <=> On(q, t)
          /\ \A q \in Request : On(q, t) => pc'[q] = pc[q]
      BY <2>1, NoneAssumption DEF CoreInv, TypeOK, On, ReportDisconnected, Goto, Over,
         AfterDisconnect, requestVars, rowVars
    <3>. QED  BY <3>2, <3>3, <3>4, AloneFrame
  <2>2. CASE t = srv[r]
    BY <2>2, NoneAssumption DEF CoreInv, TypeOK, AloneOK, Alone, On, Stage, Agree,
           RequestOK, Knows, Reported, Status, ReportDisconnected, Goto, Over,
           AfterDisconnect, requestVars, rowVars
  <2>. QED  BY <2>1, <2>2
<1>. QED  BY <1>1, <1>2, <1>3, <1>4, <1>5, <1>6, <1>7 DEF CoreInv

\* A write of a disconnect fails.
LEMMA DisconnectRaisesStep ==
  ASSUME NEW r \in Request, CoreInv, DisconnectRaises(r)
  PROVE  CoreInv'
<1>1. TypeOK'
  <2>0. srv[r] \in Server
    BY DEF CoreInv, RequestOK, Knows, DisconnectRaises
  <2>1. CASE op[r] = "unregister"
    BY <2>0, <2>1 DEF CoreInv, DisconnectRaises, Goto, Over, AfterDisconnect, Taint,
       requestVars, rowVars,
           TypeOK, Kind, Status, Op, Pc
  <2>2. CASE op[r] # "unregister"
    BY <2>0, <2>2 DEF CoreInv, DisconnectRaises, Goto, Over, AfterDisconnect, Taint,
       requestVars, rowVars,
           TypeOK, Kind, Status, Op, Pc
  <2>. QED  BY <2>1, <2>2 DEF CoreInv, DisconnectRaises, TypeOK
<1>2. HeldOK'
  BY NoneAssumption, OpsAssumption DEF CoreInv, DisconnectRaises, Goto, Over,
         AfterDisconnect, Taint, requestVars, rowVars, HeldOK, TypeOK,
         MapHoldsOpenClients
<1>3. RaceOK'
  BY NoneAssumption, OpsAssumption DEF CoreInv, DisconnectRaises, Goto, Over,
         AfterDisconnect, Taint, requestVars, rowVars, RaceOK, Opening, TypeOK,
         RequestOK, Knows
<1>4. RequestOK'
  BY NoneAssumption, OpsAssumption DEF CoreInv, DisconnectRaises, Goto, Over,
         AfterDisconnect, Taint, requestVars, rowVars, RequestOK, Knows, TypeOK, Status
<1>5. MapHoldsOpenClients'
  BY NoneAssumption, OpsAssumption DEF CoreInv, DisconnectRaises, Goto, Over,
         AfterDisconnect, Taint, requestVars, rowVars, MapHoldsOpenClients, HeldOK,
         TypeOK, RequestOK, Knows
<1>6. ClientsAccountedFor'
  BY NoneAssumption, OpsAssumption DEF CoreInv, DisconnectRaises, Goto, Over,
         AfterDisconnect, Taint, requestVars, rowVars, ClientsAccountedFor,
         MapHoldsOpenClients, HeldOK, RaceOK, Opening, TypeOK, RequestOK, Knows
<1>7. AloneOK'
  <2>. SUFFICES ASSUME NEW t \in Server, ~dirty'[t]
               PROVE  Alone(t)'
    BY DEF AloneOK
  <2>1. CASE t # srv[r]
    <3>1. ~dirty[t]
      BY <2>1 DEF CoreInv, TypeOK, DisconnectRaises, Goto, Over, AfterDisconnect, Taint,
         requestVars, rowVars
    <3>2. Alone(t)
      BY <3>1 DEF CoreInv, AloneOK
    <3>3. /\ row'[t] = row[t] /\ active'[t] = active[t] /\ conns'[t] = conns[t]
          /\ health'[t] = health[t] /\ kind'[t] = kind[t] /\ again'[t] = again[t]
      BY <2>1 DEF CoreInv, TypeOK, DisconnectRaises, Goto, Over, AfterDisconnect, Taint,
         requestVars, rowVars
    <3>4. /\ \A q \in Request : On(q, t)' <=> On(q, t)
          /\ \A q \in Request : On(q, t) => pc'[q] = pc[q]
      BY <2>1, NoneAssumption DEF CoreInv, TypeOK, On, DisconnectRaises, Goto, Over,
         AfterDisconnect, Taint, requestVars, rowVars
    <3>. QED  BY <3>2, <3>3, <3>4, AloneFrame
  <2>2. CASE t = srv[r]
    BY <2>2, NoneAssumption DEF CoreInv, TypeOK, AloneOK, Alone, On, Stage, Agree,
           RequestOK, Knows, Reported, Status, DisconnectRaises, Goto, Over,
           AfterDisconnect, Taint, requestVars, rowVars
  <2>. QED  BY <2>1, <2>2
<1>. QED  BY <1>1, <1>2, <1>3, <1>4, <1>5, <1>6, <1>7 DEF CoreInv

\* The row is deleted.
LEMMA DeleteServerStep ==
  ASSUME NEW r \in Request, CoreInv, DeleteServer(r)
  PROVE  CoreInv'
<1>1. TypeOK'
  <2>0. srv[r] \in Server
    BY DEF CoreInv, RequestOK, Knows, DeleteServer
  <2>1. /\ conns' \in [Server -> Nat]
        /\ \A s \in Server : conns'[s] > 0 => row'[s] \in Status
    BY <2>0 DEF CoreInv, TypeOK, DeleteServer
  <2>. QED  BY <2>0, <2>1 DEF CoreInv, DeleteServer, Goto, Over, TypeOK, Kind, Status, Op,
               Pc
<1>2. HeldOK'
  BY NoneAssumption, OpsAssumption DEF CoreInv, DeleteServer, Goto, Over, Exists,
         requestVars, rowVars, HeldOK, TypeOK, MapHoldsOpenClients
<1>3. RaceOK'
  BY NoneAssumption, OpsAssumption DEF CoreInv, DeleteServer, Goto, Over, Exists,
         requestVars, rowVars, RaceOK, Opening, TypeOK, RequestOK, Knows
<1>4. RequestOK'
  BY NoneAssumption, OpsAssumption DEF CoreInv, DeleteServer, Goto, Over, Exists,
         requestVars, rowVars, RequestOK, Knows, TypeOK, Status
<1>5. MapHoldsOpenClients'
  BY NoneAssumption, OpsAssumption DEF CoreInv, DeleteServer, Goto, Over, Exists,
         requestVars, rowVars, MapHoldsOpenClients, HeldOK, TypeOK, RequestOK, Knows
<1>6. ClientsAccountedFor'
  BY NoneAssumption, OpsAssumption DEF CoreInv, DeleteServer, Goto, Over, Exists,
         requestVars, rowVars, ClientsAccountedFor, MapHoldsOpenClients, HeldOK, RaceOK,
         Opening, TypeOK, RequestOK, Knows
<1>7. AloneOK'
  <2>. SUFFICES ASSUME NEW t \in Server, ~dirty'[t]
               PROVE  Alone(t)'
    BY DEF AloneOK
  <2>1. CASE t # srv[r]
    <3>1. ~dirty[t]
      BY <2>1 DEF CoreInv, TypeOK, DeleteServer, Goto, Over, Exists, requestVars, rowVars
    <3>2. Alone(t)
      BY <3>1 DEF CoreInv, AloneOK
    <3>3. /\ row'[t] = row[t] /\ active'[t] = active[t] /\ conns'[t] = conns[t]
          /\ health'[t] = health[t] /\ kind'[t] = kind[t] /\ again'[t] = again[t]
      BY <2>1 DEF CoreInv, TypeOK, DeleteServer, Goto, Over, Exists, requestVars, rowVars
    <3>4. /\ \A q \in Request : On(q, t)' <=> On(q, t)
          /\ \A q \in Request : On(q, t) => pc'[q] = pc[q]
      BY <2>1, NoneAssumption DEF CoreInv, TypeOK, On, DeleteServer, Goto, Over, Exists,
         requestVars, rowVars
    <3>. QED  BY <3>2, <3>3, <3>4, AloneFrame
  <2>2. CASE t = srv[r]
    BY <2>2, NoneAssumption DEF CoreInv, TypeOK, AloneOK, Alone, On, Stage, Agree,
           RequestOK, Knows, Reported, Status, DeleteServer, Goto, Over, Exists,
           requestVars, rowVars
  <2>. QED  BY <2>1, <2>2
<1>. QED  BY <1>1, <1>2, <1>3, <1>4, <1>5, <1>6, <1>7 DEF CoreInv

\* The delete fails.
LEMMA DeleteServerRaisesStep ==
  ASSUME NEW r \in Request, CoreInv, DeleteServerRaises(r)
  PROVE  CoreInv'
<1>1. TypeOK'
  BY NoneAssumption, OpsAssumption DEF CoreInv, DeleteServerRaises, Goto, Over,
         requestVars, rowVars, TypeOK, Kind, Status, Op, Pc
<1>2. HeldOK'
  BY NoneAssumption, OpsAssumption DEF CoreInv, DeleteServerRaises, Goto, Over,
         requestVars, rowVars, HeldOK, TypeOK, MapHoldsOpenClients
<1>3. RaceOK'
  BY NoneAssumption, OpsAssumption DEF CoreInv, DeleteServerRaises, Goto, Over,
         requestVars, rowVars, RaceOK, Opening, TypeOK, RequestOK, Knows
<1>4. RequestOK'
  BY NoneAssumption, OpsAssumption DEF CoreInv, DeleteServerRaises, Goto, Over,
         requestVars, rowVars, RequestOK, Knows, TypeOK, Status
<1>5. MapHoldsOpenClients'
  BY NoneAssumption, OpsAssumption DEF CoreInv, DeleteServerRaises, Goto, Over,
         requestVars, rowVars, MapHoldsOpenClients, HeldOK, TypeOK, RequestOK, Knows
<1>6. ClientsAccountedFor'
  BY NoneAssumption, OpsAssumption DEF CoreInv, DeleteServerRaises, Goto, Over,
         requestVars, rowVars, ClientsAccountedFor, MapHoldsOpenClients, HeldOK, RaceOK,
         Opening, TypeOK, RequestOK, Knows
<1>7. AloneOK'
  <2>. SUFFICES ASSUME NEW t \in Server, ~dirty'[t]
               PROVE  Alone(t)'
    BY DEF AloneOK
  <2>1. CASE t # srv[r]
    <3>1. ~dirty[t]
      BY <2>1 DEF CoreInv, TypeOK, DeleteServerRaises, Goto, Over, requestVars, rowVars
    <3>2. Alone(t)
      BY <3>1 DEF CoreInv, AloneOK
    <3>3. /\ row'[t] = row[t] /\ active'[t] = active[t] /\ conns'[t] = conns[t]
          /\ health'[t] = health[t] /\ kind'[t] = kind[t] /\ again'[t] = again[t]
      BY <2>1 DEF CoreInv, TypeOK, DeleteServerRaises, Goto, Over, requestVars, rowVars
    <3>4. /\ \A q \in Request : On(q, t)' <=> On(q, t)
          /\ \A q \in Request : On(q, t) => pc'[q] = pc[q]
      BY <2>1, NoneAssumption DEF CoreInv, TypeOK, On, DeleteServerRaises, Goto, Over,
         requestVars, rowVars
    <3>. QED  BY <3>2, <3>3, <3>4, AloneFrame
  <2>2. CASE t = srv[r]
    BY <2>2, NoneAssumption DEF CoreInv, TypeOK, AloneOK, Alone, On, Stage, Agree,
           RequestOK, Knows, Reported, Status, DeleteServerRaises, Goto, Over, requestVars,
           rowVars
  <2>. QED  BY <2>1, <2>2
<1>. QED  BY <1>1, <1>2, <1>3, <1>4, <1>5, <1>6, <1>7 DEF CoreInv

\* The process is restarted.
LEMMA RestartStep ==
  ASSUME CoreInv, Restart
  PROVE  CoreInv'
<1>1. TypeOK'
  BY NoneAssumption, OpsAssumption DEF CoreInv, Restart, Busy, requestVars, rowVars,
         TypeOK, Kind, Status, Op, Pc
<1>2. HeldOK'
  BY NoneAssumption, OpsAssumption DEF CoreInv, Restart, Busy, requestVars, rowVars,
         HeldOK, TypeOK, MapHoldsOpenClients
<1>3. RaceOK'
  BY NoneAssumption, OpsAssumption DEF CoreInv, Restart, Busy, requestVars, rowVars,
         RaceOK, Opening, TypeOK, RequestOK, Knows
<1>4. RequestOK'
  BY NoneAssumption, OpsAssumption DEF CoreInv, Restart, Busy, requestVars, rowVars,
         RequestOK, Knows, TypeOK, Status
<1>5. MapHoldsOpenClients'
  BY NoneAssumption, OpsAssumption DEF CoreInv, Restart, Busy, requestVars, rowVars,
         MapHoldsOpenClients, HeldOK, TypeOK, RequestOK, Knows
<1>6. ClientsAccountedFor'
  BY NoneAssumption, OpsAssumption DEF CoreInv, Restart, Busy, requestVars, rowVars,
         ClientsAccountedFor, MapHoldsOpenClients, HeldOK, RaceOK, Opening, TypeOK,
         RequestOK, Knows
<1>7. AloneOK'
  BY NoneAssumption DEF CoreInv, Restart, Busy, requestVars, rowVars, AloneOK, Alone, On,
     Stage, Agree, TypeOK
<1>. QED  BY <1>1, <1>2, <1>3, <1>4, <1>5, <1>6, <1>7 DEF CoreInv

-----------------------------------------------------------------------------
(***************************************************************************)
(* The invariant and what it implies.                                          *)
(***************************************************************************)

\* Before the first request no server is born and nothing is open.
LEMMA InitOK == Init => IndInv
<1>. SUFFICES ASSUME Init PROVE IndInv
  OBVIOUS
<1>1. TypeOK
  BY OpsAssumption DEF Init, TypeOK, Kind, Status, Op, Pc
<1>2. HeldOK /\ RaceOK /\ RequestOK
  BY DEF Init, HeldOK, RaceOK, RequestOK, Opening
<1>3. AloneOK
  BY DEF Init, AloneOK, Alone, On, Agree, Reported
<1>4. MapHoldsOpenClients /\ ClientsAccountedFor
  BY DEF Init, MapHoldsOpenClients, ClientsAccountedFor
<1>5. ConnsOK
  BY DEF Init, ConnsOK
<1>. QED  BY <1>1, <1>2, <1>3, <1>4, <1>5 DEF IndInv, CoreInv

\* A stuttering step changes nothing the invariant reads.
LEMMA StutterStep == CoreInv /\ UNCHANGED vars => CoreInv'
<1>. SUFFICES ASSUME CoreInv, UNCHANGED vars PROVE CoreInv'
  OBVIOUS
<1>1. /\ TypeOK' /\ HeldOK' /\ RaceOK' /\ RequestOK'
      /\ MapHoldsOpenClients' /\ ClientsAccountedFor'
  BY DEF CoreInv, vars, TypeOK, HeldOK, RaceOK, Opening, RequestOK, Knows,
         MapHoldsOpenClients, ClientsAccountedFor
<1>2. AloneOK'
  BY DEF CoreInv, vars, AloneOK, Alone, On, Stage, Agree
<1>. QED  BY <1>1, <1>2 DEF CoreInv

\* Every step, and every stutter, keeps what does not count connection rows.
LEMMA CoreStep == IndInv /\ [Next]_vars => CoreInv'
<1>. SUFFICES ASSUME CoreInv, ConnsOK, [Next]_vars PROVE CoreInv'
  BY DEF IndInv
<1>1. ASSUME NEW s \in Server, Register(s) \/ Update(s) \/ Expire(s)
      PROVE  CoreInv'
  BY <1>1, RegisterStep, UpdateStep, ExpireStep
<1>2. ASSUME NEW r \in Request, NEW s \in Server,
             ConnectBegin(r, s) \/ DisconnectBegin(r, s)
      PROVE  CoreInv'
  BY <1>2, ConnectBeginStep, DisconnectBeginStep
<1>3. ASSUME NEW r \in Request, Connect(r)
      PROVE  CoreInv'
  BY <1>3, MarkConnectingStep, MarkConnectingRaisesStep, DialStep, DialFailsStep,
     CacheCapabilitiesStep, RecordConnectedStep, ReportConnectedStep,
     ConnectRaisesStep, RecordErrorStep, ReportErrorStep, RecordErrorRaisesStep
     DEF Connect
<1>4. ASSUME NEW r \in Request, Disconnect(r)
      PROVE  CoreInv'
  BY <1>4, CloseClientStep, DeactivateStep, ReportDisconnectedStep,
     DisconnectRaisesStep, DeleteServerStep, DeleteServerRaisesStep DEF Disconnect
<1>5. ASSUME Restart PROVE CoreInv'
  BY <1>5, RestartStep
<1>6. CASE UNCHANGED vars
  BY <1>6, StutterStep
<1>. QED  BY <1>1, <1>2, <1>3, <1>4, <1>5, <1>6 DEF Next

\* Only a recorded connect, a disconnect and a delete touch the connection rows.
LEMMA ConnsStep == IndInv /\ [Next]_vars => ConnsOK'
<1>. SUFFICES ASSUME IndInv, [Next]_vars PROVE ConnsOK'
  OBVIOUS
<1>1. CASE UNCHANGED <<conns, again>>
  BY <1>1 DEF IndInv, ConnsOK
<1>2. ASSUME NEW r \in Request, RecordConnected(r)
      PROVE  ConnsOK'
  <2>1. /\ srv[r] \in Server /\ conns[srv[r]] \in Nat
        /\ conns' = [conns EXCEPT ![srv[r]] = @ + 1]
        /\ again'[srv[r]] = (again[srv[r]] \/ conns[srv[r]] > 0)
        /\ \A s \in Server : s # srv[r] => again'[s] = again[s]
    BY <1>2 DEF IndInv, CoreInv, TypeOK, RequestOK, Knows, RecordConnected
  <2>2. ~again'[srv[r]] => ~(conns[srv[r]] > 0)
    BY <2>1, Zenon
  <2>. QED  BY <2>1, <2>2 DEF IndInv, CoreInv, TypeOK, ConnsOK
<1>3. ASSUME NEW r \in Request, Deactivate(r)
      PROVE  ConnsOK'
  BY <1>3 DEF IndInv, CoreInv, TypeOK, RequestOK, Knows, ConnsOK, Deactivate, LatestClosed
<1>4. ASSUME NEW r \in Request, DeleteServer(r)
      PROVE  ConnsOK'
  BY <1>4 DEF IndInv, CoreInv, TypeOK, RequestOK, Knows, ConnsOK, DeleteServer
<1>5. ASSUME NEW s \in Server, Register(s) \/ Update(s) \/ Expire(s)
      PROVE  UNCHANGED <<conns, again>>
  BY <1>5 DEF Register, Update, Expire, rowVars
<1>6. ASSUME NEW r \in Request, NEW s \in Server,
             ConnectBegin(r, s) \/ DisconnectBegin(r, s)
      PROVE  UNCHANGED <<conns, again>>
  BY <1>6 DEF ConnectBegin, DisconnectBegin, rowVars
<1>7. ASSUME NEW r \in Request, Connect(r), ~RecordConnected(r)
      PROVE  UNCHANGED <<conns, again>>
  BY <1>7 DEF Connect, MarkConnecting, MarkConnectingRaises, Dial, DialFails,
     CacheCapabilities, ReportConnected, ConnectRaises, RecordError, ReportError,
     RecordErrorRaises, rowVars
<1>8. ASSUME NEW r \in Request, Disconnect(r), ~Deactivate(r), ~DeleteServer(r)
      PROVE  UNCHANGED <<conns, again>>
  BY <1>8 DEF Disconnect, CloseClient, ReportDisconnected, DisconnectRaises,
     DeleteServerRaises, rowVars
<1>9. Restart \/ UNCHANGED vars => UNCHANGED <<conns, again>>
  BY DEF Restart, rowVars, vars
<1>. QED  BY <1>1, <1>2, <1>3, <1>4, <1>5, <1>6, <1>7, <1>8, <1>9 DEF Next

\* Every step, and every stutter, keeps the invariant.
LEMMA NextStep == IndInv /\ [Next]_vars => IndInv'
BY CoreStep, ConnsStep DEF IndInv

\* The inductive invariant holds of every behaviour of the registry API.
THEOREM Invariance == Spec => []IndInv
<1>1. Init => IndInv
  BY InitOK
<1>2. IndInv /\ [Next]_vars => IndInv'
  BY NextStep
<1>. QED  BY <1>1, <1>2, PTL DEF Spec

\* Every variable keeps its type; in particular a connection row never outlives its
\* server, and a client closed halfway is still counted as open.
THEOREM TypeCorrect == Spec => []TypeOK
<1>1. IndInv => TypeOK
  BY DEF IndInv, CoreInv
<1>. QED  BY <1>1, Invariance, PTL

\* What the map of live clients holds is open and belongs to its server, and a client
\* that a disconnect has popped is found in the map no more.
THEOREM MapOpen == Spec => []MapHoldsOpenClients
<1>1. IndInv => MapHoldsOpenClients
  BY DEF IndInv, CoreInv
<1>. QED  BY <1>1, Invariance, PTL

\* A transport is lost only where two connects of its server raced or its session raised
\* when it was left.
THEOREM NoOtherLeak == Spec => []ClientsAccountedFor
<1>1. IndInv => ClientsAccountedFor
  BY DEF IndInv, CoreInv
<1>. QED  BY <1>1, Invariance, PTL

\* Row, map and health entry agree about every server at rest that one undisturbed
\* operation after another has brought there, and its connection rows with them unless a
\* connect was recorded beside a row that said "connected".
THEOREM QuietAgreement == Spec => []QuietServersAgree
<1>1. ASSUME IndInv, NEW s \in Server, Busy(s) = {}, ~dirty[s]
      PROVE  Agree(s)
  BY <1>1, BusyEmpty DEF IndInv, CoreInv, AloneOK, Alone
<1>2. IndInv => QuietServersAgree
  BY <1>1 DEF QuietServersAgree, Agree
<1>. QED  BY <1>2, Invariance, PTL

=============================================================================
