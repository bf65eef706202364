--------------------------- MODULE ServerLifecycle ---------------------------
(***************************************************************************)
(* Registered MCP servers: ServerManager (app/core/lifecycle/server_manager.py)*)
(* behind the registry API (app/api/v1/registry.py).                           *)
(*                                                                         *)
(* One server is known in four places that no transaction spans: the row of     *)
(* mcp_servers, the rows of mcp_connections, the process-local map of live        *)
(* clients and the health entry in Redis.  A step is the code between two awaits;  *)
(* every database or Redis call may raise, a dial may fail, and the process may     *)
(* be restarted at any time.  A database transaction takes effect at its commit.     *)
(* The discovery that follows a connect changes nothing kept here.                    *)
(***************************************************************************)
EXTENDS Integers, FiniteSets

CONSTANTS Server,       \* server ids
          Request,      \* concurrent requests of the registry API
          Client,       \* MCPClientWrapper objects
          MaxOps,       \* bound: connects and disconnects, in all
          MaxRestarts,  \* bound: restarts of the process
          None

ASSUME NoneAssumption == None \notin Client \cup Server
ASSUME OpsAssumption == MaxOps \in Nat /\ MaxRestarts \in Nat

VARIABLES
  kind,      \* what connect looks at: local plugin, no endpoint URL, remote
  row,       \* mcp_servers.status; unborn before, deleted after
  conns,     \* its rows of mcp_connections that say "connected"
  health,    \* mcp:{org}:server:{id}:health in Redis
  active,    \* _active_connections: the client of each server
  open,      \* the clients whose connect has returned and whose transport is not left
  pc,        \* the await of each request
  op,        \* what it was asked to do
  srv,       \* its server
  seen,      \* the kind of the server it has loaded
  held,      \* the client a disconnect has popped
  ops,       \* operations begun
  restarts,  \* restarts so far
  \* History, read by no guard:
  of,        \* the server a client was opened for
  torn,      \* the clients closed halfway: the session, not the transport
  again,     \* a connect was recorded beside a row that said "connected"
  raced,     \* two connects of the server were under way together
  dirty      \* since the last disconnect that began alone: operations of the server
             \* have overlapped, a write has failed, or its state was lost or edited

requestVars == <<pc, op, srv, seen, held>>
rowVars == <<kind, row, conns, again>>
vars == <<kind, row, conns, again, health, active, open, torn, pc, op, srv, seen, held,
          ops, restarts, of, raced, dirty>>

Kind == {"local", "noUrl", "remote"}
Status == {"inactive", "connecting", "active", "error"}
Op == {"connect", "disconnect", "unregister"}

\* marking: the CONNECTING update; dialing: client.connect; caching: the
\* capabilities; recording, reporting: _record_connected; erring, reportingError:
\* _record_error; closing: client.disconnect; deactivating: the INACTIVE update;
\* reportingDown: its health entry; deleting: delete_server.
Pc == {"idle", "marking", "dialing", "caching", "recording", "reporting", "erring",
       "reportingError", "closing", "deactivating", "reportingDown", "deleting"}

TypeOK ==
  /\ kind \in [Server -> Kind]
  /\ row \in [Server -> Status \cup {"unborn", "deleted"}]
  /\ conns \in [Server -> Nat]
  /\ \A s \in Server : conns[s] > 0 => row[s] \in Status
  /\ again \in [Server -> BOOLEAN]
  /\ health \in [Server -> {"none", "connected", "error", "disconnected"}]
  /\ active \in [Server -> Client \cup {None}]
  /\ open \in SUBSET Client
  /\ torn \in SUBSET open
  /\ pc \in [Request -> Pc]
  /\ op \in [Request -> Op]
  /\ srv \in [Request -> Server \cup {None}]
  /\ seen \in [Request -> Kind]
  /\ held \in [Request -> Client \cup {None}]
  /\ ops \in 0 .. MaxOps
  /\ restarts \in 0 .. MaxRestarts
  /\ of \in [Client -> Server \cup {None}]
  /\ raced \in [Server -> BOOLEAN]
  /\ dirty \in [Server -> BOOLEAN]

Init ==
  /\ kind \in [Server -> {"remote"}]
  /\ row = [s \in Server |-> "unborn"]
  /\ conns = [s \in Server |-> 0]
  /\ again = [s \in Server |-> FALSE]
  /\ health = [s \in Server |-> "none"]
  /\ active = [s \in Server |-> None]
  /\ open = {}
  /\ torn = {}
  /\ pc = [r \in Request |-> "idle"]
  /\ op = [r \in Request |-> "connect"]
  /\ srv = [r \in Request |-> None]
  /\ seen = [r \in Request |-> "remote"]
  /\ held = [r \in Request |-> None]
  /\ ops = 0
  /\ restarts = 0
  /\ of = [c \in Client |-> None]
  /\ raced = [s \in Server |-> FALSE]
  /\ dirty = [s \in Server |-> FALSE]

-----------------------------------------------------------------------------
Exists(s) == row[s] \in Status

\* The requests at work on s.
Busy(s) == {r \in Request : pc[r] # "idle" /\ srv[r] = s}

Goto(r, p) == pc' = [pc EXCEPT ![r] = p]

\* The handler has answered, or its error has.
Over(r) == /\ Goto(r, "idle")
           /\ srv' = [srv EXCEPT ![r] = None]
           /\ op' = [op EXCEPT ![r] = "connect"]
           /\ seen' = [seen EXCEPT ![r] = "remote"]

\* UPDATE mcp_servers ... WHERE id: no row, no effect.
SetRow(s, st) == row' = IF Exists(s) THEN [row EXCEPT ![s] = st] ELSE row

Taint(s) == dirty' = [dirty EXCEPT ![s] = TRUE]

-----------------------------------------------------------------------------
(***************************************************************************)
(* The rows: POST and PUT /servers.                                           *)
(***************************************************************************)
Register(s) ==
  /\ row[s] = "unborn"
  /\ row' = [row EXCEPT ![s] = "inactive"]
  /\ \E k \in Kind : kind' = [kind EXCEPT ![s] = k]
  /\ UNCHANGED <<conns, again, health, active, open, torn, requestVars, ops, restarts, of,
                 raced,
                 dirty>>

\* An endpoint URL is set or blanked, or the status is written by hand.
Update(s) ==
  /\ Exists(s)
  /\ \/ /\ kind[s] # "local"
        /\ \E k \in {"noUrl", "remote"} : kind' = [kind EXCEPT ![s] = k]
        /\ UNCHANGED <<row, dirty>>
     \/ /\ \E st \in Status : row' = [row EXCEPT ![s] = st]
        /\ Taint(s)
        /\ UNCHANGED kind
  /\ UNCHANGED <<conns, again, health, active, open, torn, requestVars, ops, restarts, of,
                 raced>>

-----------------------------------------------------------------------------
(***************************************************************************)
(* connect.                                                                   *)
(***************************************************************************)

\* Mutant: connect does not ask whether the server is connected.
NotConnected_Unchecked(s) == TRUE

\* Otherwise the answer is already_connected.
NotConnected(s) == active[s] = None

ConnectBegin(r, s) ==
  /\ pc[r] = "idle" /\ ops < MaxOps
  /\ Exists(s) /\ NotConnected(s)
  /\ ops' = ops + 1
  /\ Goto(r, "marking")
  /\ srv' = [srv EXCEPT ![r] = s]
  /\ op' = [op EXCEPT ![r] = "connect"]
  /\ seen' = [seen EXCEPT ![r] = kind[s]]
  /\ dirty' = [dirty EXCEPT ![s] = @ \/ Busy(s) # {}]
  /\ raced' = [raced EXCEPT ![s] = @ \/ \E q \in Busy(s) : pc[q] \in {"marking", "dialing"}]
  /\ UNCHANGED <<rowVars, health, active, open, torn, held, restarts, of>>

MarkConnecting(r) ==
  /\ pc[r] = "marking"
  /\ SetRow(srv[r], "connecting")
  /\ Goto(r, CASE seen[r] = "local" -> "recording"
               [] seen[r] = "noUrl" -> "erring"
               [] seen[r] = "remote" -> "dialing")
  /\ UNCHANGED <<kind, conns, again, health, active, open, torn, op, srv, seen, held, ops,
                 restarts,
                 of, raced, dirty>>

\* Not inside the try: the row keeps what it has.
MarkConnectingRaises(r) ==
  /\ pc[r] = "marking"
  /\ Taint(srv[r])
  /\ Over(r)
  /\ UNCHANGED <<rowVars, health, active, open, torn, held, ops, restarts, of, raced>>

\* The new client is entered into the map whatever the map holds by now.
Dial(r) ==
  /\ pc[r] = "dialing"
  /\ \E c \in Client \ open :
       /\ open' = open \cup {c}
       /\ active' = [active EXCEPT ![srv[r]] = c]
       /\ of' = [of EXCEPT ![c] = srv[r]]
  /\ Goto(r, "caching")
  /\ UNCHANGED <<rowVars, health, torn, op, srv, seen, held, ops, restarts, raced, dirty>>

\* Mutant: a server that does not answer is left as it was found.
DialFails_NoRecord(r) ==
  /\ pc[r] = "dialing"
  /\ Over(r)
  /\ UNCHANGED <<rowVars, health, active, open, torn, held, ops, restarts, of, raced,
                 dirty>>

DialFails(r) ==
  /\ pc[r] = "dialing"
  /\ Goto(r, "erring")
  /\ UNCHANGED <<rowVars, health, active, open, torn, op, srv, seen, held, ops, restarts,
                 of,
                 raced, dirty>>

CacheCapabilities(r) ==
  /\ pc[r] = "caching"
  /\ Goto(r, "recording")
  /\ UNCHANGED <<rowVars, health, active, open, torn, op, srv, seen, held, ops, restarts,
                 of,
                 raced, dirty>>

\* Mutant: mcp_connections.server_id is no foreign key.
RefersTo_Anything(s) == TRUE

\* The row of mcp_connections refers to its server: without one the insert fails.
RefersTo(s) == Exists(s)

\* The row and a row of mcp_connections.
RecordConnected(r) ==
  /\ pc[r] = "recording" /\ RefersTo(srv[r])
  /\ SetRow(srv[r], "active")
  /\ conns' = [conns EXCEPT ![srv[r]] = @ + 1]
  /\ again' = [again EXCEPT ![srv[r]] = @ \/ conns[srv[r]] > 0]
  /\ Goto(r, "reporting")
  /\ UNCHANGED <<kind, health, active, open, torn, op, srv, seen, held, ops, restarts, of,
                 raced, dirty>>

ReportConnected(r) ==
  /\ pc[r] = "reporting"
  /\ health' = [health EXCEPT ![srv[r]] = "connected"]
  /\ Over(r)
  /\ UNCHANGED <<rowVars, active, open, torn, held, ops, restarts, of, raced, dirty>>

\* A write after the dial raises.  For a remote server _record_error follows and the
\* client stays in the map; a local plugin is connected outside the try.
ConnectRaises(r) ==
  /\ pc[r] \in {"caching", "recording", "reporting"}
  /\ Taint(srv[r])
  /\ \/ seen[r] = "remote" /\ Goto(r, "erring") /\ UNCHANGED <<op, srv, seen>>
     \/ seen[r] # "remote" /\ Over(r)
  /\ UNCHANGED <<rowVars, health, active, open, torn, held, ops, restarts, of, raced>>

RecordError(r) ==
  /\ pc[r] = "erring"
  /\ SetRow(srv[r], "error")
  /\ Goto(r, "reportingError")
  /\ UNCHANGED <<kind, conns, again, health, active, open, torn, op, srv, seen, held, ops,
                 restarts,
                 of, raced, dirty>>

ReportError(r) ==
  /\ pc[r] = "reportingError"
  /\ health' = [health EXCEPT ![srv[r]] = "error"]
  /\ Over(r)
  /\ UNCHANGED <<rowVars, active, open, torn, held, ops, restarts, of, raced, dirty>>

RecordErrorRaises(r) ==
  /\ pc[r] \in {"erring", "reportingError"}
  /\ Taint(srv[r])
  /\ Over(r)
  /\ UNCHANGED <<rowVars, health, active, open, torn, held, ops, restarts, of, raced>>

-----------------------------------------------------------------------------
(***************************************************************************)
(* disconnect, alone or as the first half of DELETE /servers/{id}.             *)
(***************************************************************************)

\* Mutant: the client is taken out of the map when its session has been closed.
Pop_Late(r, s) == /\ held' = [held EXCEPT ![r] = active[s]]
                  /\ UNCHANGED active

\* The client leaves the map before its session is closed.
Pop(r, s) == /\ held' = [held EXCEPT ![r] = active[s]]
             /\ active' = [active EXCEPT ![s] = None]

DisconnectBegin(r, s) ==
  /\ pc[r] = "idle" /\ ops < MaxOps
  /\ Exists(s)
  /\ ops' = ops + 1
  /\ Pop(r, s)
  /\ Goto(r, IF active[s] = None THEN "deactivating" ELSE "closing")
  /\ srv' = [srv EXCEPT ![r] = s]
  /\ \E o \in {"disconnect", "unregister"} : op' = [op EXCEPT ![r] = o]
  /\ seen' = [seen EXCEPT ![r] = kind[s]]
  /\ dirty' = [dirty EXCEPT ![s] = Busy(s) # {}]
  /\ UNCHANGED <<rowVars, health, open, torn, restarts, of, raced>>

\* MCPClientWrapper.disconnect leaves the session, then the transport, and forgets both
\* on every path: when the session raises, nobody leaves the transport.
CloseClient(r) ==
  /\ pc[r] = "closing"
  /\ \/ open' = open \ {held[r]} /\ UNCHANGED torn
     \/ torn' = torn \cup {held[r]} /\ UNCHANGED open
  /\ held' = [held EXCEPT ![r] = None]
  /\ Goto(r, "deactivating")
  /\ UNCHANGED <<rowVars, health, active, op, srv, seen, ops, restarts, of, raced, dirty>>

\* The latest connection that says "connected", if there is one, no longer does.
LatestClosed(n) == IF n > 0 THEN n - 1 ELSE 0

Deactivate(r) ==
  /\ pc[r] = "deactivating"
  /\ SetRow(srv[r], "inactive")
  /\ conns' = [conns EXCEPT ![srv[r]] = LatestClosed(@)]
  /\ again' = [again EXCEPT ![srv[r]] = @ /\ conns[srv[r]] > 1]
  /\ Goto(r, "reportingDown")
  /\ UNCHANGED <<kind, health, active, open, torn, op, srv, seen, held, ops, restarts, of,
                 raced, dirty>>

\* Where a disconnect goes when it returns or raises: DELETE ignores its errors.
AfterDisconnect(r) ==
  \/ op[r] = "unregister" /\ Goto(r, "deleting") /\ UNCHANGED <<op, srv, seen>>
  \/ op[r] # "unregister" /\ Over(r)

ReportDisconnected(r) ==
  /\ pc[r] = "reportingDown"
  /\ health' = [health EXCEPT ![srv[r]] = "disconnected"]
  /\ AfterDisconnect(r)
  /\ UNCHANGED <<rowVars, active, open, torn, held, ops, restarts, of, raced, dirty>>

DisconnectRaises(r) ==
  /\ pc[r] \in {"deactivating", "reportingDown"}
  /\ Taint(srv[r])
  /\ AfterDisconnect(r)
  /\ UNCHANGED <<rowVars, health, active, open, torn, held, ops, restarts, of, raced>>

\* The row goes, and its connections with it.
DeleteServer(r) ==
  /\ pc[r] = "deleting" /\ Exists(srv[r])
  /\ row' = [row EXCEPT ![srv[r]] = "deleted"]
  /\ conns' = [conns EXCEPT ![srv[r]] = 0]
  /\ again' = [again EXCEPT ![srv[r]] = FALSE]
  /\ Over(r)
  /\ UNCHANGED <<kind, health, active, open, torn, held, ops, restarts, of, raced, dirty>>

DeleteServerRaises(r) ==
  /\ pc[r] = "deleting"
  /\ Over(r)
  /\ UNCHANGED <<rowVars, health, active, open, torn, held, ops, restarts, of, raced,
                 dirty>>

-----------------------------------------------------------------------------
\* The TTL of a health entry.
Expire(s) ==
  /\ health[s] # "none"
  /\ health' = [health EXCEPT ![s] = "none"]
  /\ UNCHANGED <<rowVars, active, open, torn, requestVars, ops, restarts, of, raced, dirty>>

\* The process ends, orderly or not, and is started again: the map and the sessions
\* are gone, the rows and the health entries are not, and nothing looks at them.
Restart ==
  /\ restarts < MaxRestarts
  /\ restarts' = restarts + 1
  /\ active' = [s \in Server |-> None]
  /\ open' = {}
  /\ torn' = {}
  /\ pc' = [r \in Request |-> "idle"]
  /\ op' = [r \in Request |-> "connect"]
  /\ srv' = [r \in Request |-> None]
  /\ seen' = [r \in Request |-> "remote"]
  /\ held' = [r \in Request |-> None]
  /\ raced' = [s \in Server |-> FALSE]
  /\ dirty' = [s \in Server |-> dirty[s] \/ Busy(s) # {} \/ active[s] # None]
  /\ UNCHANGED <<rowVars, health, ops, of>>

Connect(r) == \/ MarkConnecting(r) \/ MarkConnectingRaises(r)
              \/ Dial(r) \/ DialFails(r) \/ CacheCapabilities(r)
              \/ RecordConnected(r) \/ ReportConnected(r) \/ ConnectRaises(r)
              \/ RecordError(r) \/ ReportError(r) \/ RecordErrorRaises(r)

Disconnect(r) == \/ CloseClient(r) \/ Deactivate(r) \/ ReportDisconnected(r)
                 \/ DisconnectRaises(r) \/ DeleteServer(r) \/ DeleteServerRaises(r)

Next == \/ \E s \in Server : Register(s) \/ Update(s) \/ Expire(s)
        \/ \E r \in Request, s \in Server : ConnectBegin(r, s) \/ DisconnectBegin(r, s)
        \/ \E r \in Request : Connect(r) \/ Disconnect(r)
        \/ Restart

Spec == Init /\ [][Next]_vars

-----------------------------------------------------------------------------
(***************************************************************************)
(* Properties.                                                                *)
(***************************************************************************)

\* What get_client hands to a discovery, and the health monitor finds in the map, has
\* an open session of its own: no order of connects and disconnects leaves a closed
\* client behind, or one client under two servers.
MapHoldsOpenClients ==
  /\ \A s \in Server : active[s] # None => active[s] \in open \ torn /\ of[active[s]] = s
  /\ \A r \in Request : held[r] # None =>
       /\ held[r] \in open \ torn
       /\ \A s \in Server : active[s] # held[r]

\* An open transport belongs to a client that is in the map or is being closed.  There
\* are two ways to lose one: two connects of a server that both ask the map before either
\* has dialled, of which the second to finish replaces the client of the first; and a
\* session that raises when it is left.  (What a failed client.connect leaves half open
\* is its own and not counted here.)
ClientsAccountedFor ==
  \A c \in open : \/ \E s \in Server : active[s] = c
                  \/ \E r \in Request : held[r] = c
                  \/ c \in torn
                  \/ raced[of[c]]

\* What the health entry may say beside each status of the row.
Reported == [inactive |-> "disconnected", active |-> "connected", error |-> "error",
             unborn |-> "none", deleted |-> "disconnected"]

\* As long as the operations on a server do not overlap and no write fails, the row, the
\* map and the health entry agree once it is at rest, failed dials and expired health
\* entries included; and whatever has happened to it, one disconnect that is left alone
\* restores the agreement.  The connection rows agree too -- one says "connected" exactly
\* while the server is active -- unless a connect was recorded beside a row that still
\* said so (a local plugin connected twice, or a connect after a restart): a disconnect
\* closes only the latest row, so until they are all closed an active server has one at
\* least, and an inactive one may have some.
QuietServersAgree ==
  \A s \in Server : Busy(s) = {} /\ ~dirty[s] =>
    /\ row[s] # "connecting"
    /\ active[s] # None <=> row[s] = "active" /\ kind[s] # "local"
    /\ row[s] = "active" => conns[s] > 0
    /\ again[s] \/ conns[s] = IF row[s] = "active" THEN 1 ELSE 0
    /\ health[s] \in {"none", Reported[row[s]]}

=============================================================================
