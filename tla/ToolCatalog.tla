----------------------------- MODULE ToolCatalog -----------------------------
(***************************************************************************)
(* The tools of one organisation: the table mcp_tools that discovery fills      *)
(* (app/services/discovery_service.py, app/core/registry/tool_registry.py) and   *)
(* the lists of it that GET /tools keeps in Redis (app/api/v1/discovery.py).      *)
(*                                                                         *)
(* A step is the code between two awaits; a statement of PostgreSQL, at READ        *)
(* COMMITTED, sees what is committed when it starts and waits for the rows that     *)
(* other transactions have written.  Every database, Redis and network call may      *)
(* raise.  Which servers are ACTIVE and which have a live client is the   *)
(* business of ServerLifecycle: here a discovery may find any set of registered     *)
(* servers and any of them without a client.  The capability entries it stores       *)
(* are read by nobody and left out.                                                   *)
(***************************************************************************)
EXTENDS Integers, FiniteSets

CONSTANTS Server,    \* registered servers, all of one org
          Tool,      \* tool names
          Tagged,    \* the tools whose HTTP listing carries the category asked for
          Offers,    \* the sets of tools a server may list
          Project,   \* project ids a list may be asked for
          Request,   \* concurrent requests
          MaxOps,    \* bound: changes of what the servers offer
          None

ASSUME TaggedAssumption == Tagged \subseteq Tool
ASSUME OffersAssumption == Offers \subseteq SUBSET Tool /\ Tool \in Offers
ASSUME NoneAssumption == None \notin Server \cup Project
ASSUME OpsAssumption == MaxOps \in Nat

VARIABLES
  registered,  \* the rows of mcp_servers
  table,       \* mcp_tools: status of each (server, tool), and whether it has the category
  cache,       \* the list under each key, with the filter of the query that made it
  offer,       \* what each server would list now
  ops,         \* such changes so far
  pc,          \* the await of each request
  key,         \* the cache key of its list
  filter,      \* "all", or "category"
  got,         \* the rows its query returned
  todo,        \* the servers its discovery still has to visit
  cur,         \* the server it is at
  listing,     \* what that server listed
  target,      \* the rows the UPDATE of its transaction has seen
  broken,      \* its database transaction was aborted by an error
  \* History, read by no guard:
  raced,       \* the table has changed since the query of the request
  old,         \* the server has changed its offer since it listed
  owes,        \* the request has changed the table and not yet the cache
  excused,     \* the org list was put there by a raced query, or its deletion failed
  fresh        \* the last listing stored for the server is what it still offers

requestVars == <<pc, key, filter, got, todo, cur, listing, target, broken, raced, old,
                 owes>>
vars == <<registered, table, cache, offer, ops, requestVars, excused, fresh>>

Org == "org"
Key == {Org} \cup Project
Filter == {"all", "category"}
Status == {"absent", "available", "unavailable"}
Line == [server : Server, tool : Tool, status : Status]
NoListing == [names |-> {}, http |-> FALSE]
Absent == [status |-> "absent", tagged |-> FALSE]

\* The awaits of upsert_tools: its UPDATE to be sent, waiting for rows, done; its INSERT
\* done and the commit to come.
Upserting == {"upserting", "marking", "inserting", "committing"}

Pc == {"idle", "getting", "querying", "setting", "looping", "sweeping"} \cup Upserting

\* The cache of key k holds something.
Cached(k) == cache[k] # None

TypeOK ==
  /\ registered \in SUBSET Server
  /\ table \in [Server -> [Tool -> [status : Status, tagged : BOOLEAN]]]
  /\ \A k \in Key : Cached(k) =>
       cache[k] \in [lines : SUBSET Line, filter : Filter]
  /\ DOMAIN cache = Key
  /\ offer \in [Server -> SUBSET Tool]
  /\ ops \in 0 .. MaxOps
  /\ pc \in [Request -> Pc]
  /\ key \in [Request -> Key]
  /\ filter \in [Request -> Filter]
  /\ got \in [Request -> SUBSET Line]
  /\ todo \in [Request -> SUBSET Server]
  /\ cur \in [Request -> Server \cup {None}]
  /\ listing \in [Request -> [names : SUBSET Tool, http : BOOLEAN]]
  /\ target \in [Request -> SUBSET Tool]
  /\ broken \in [Request -> BOOLEAN]
  /\ raced \in [Request -> BOOLEAN]
  /\ old \in [Request -> BOOLEAN]
  /\ owes \in [Request -> BOOLEAN]
  /\ excused \in BOOLEAN
  /\ fresh \in [Server -> BOOLEAN]

Init ==
  /\ registered = Server
  /\ table = [s \in Server |-> [t \in Tool |-> Absent]]
  /\ cache = [k \in Key |-> None]
  /\ offer = [s \in Server |-> Tool]
  /\ ops = 0
  /\ pc = [r \in Request |-> "idle"]
  /\ key = [r \in Request |-> Org]
  /\ filter = [r \in Request |-> "all"]
  /\ got = [r \in Request |-> {}]
  /\ todo = [r \in Request |-> {}]
  /\ cur = [r \in Request |-> None]
  /\ listing = [r \in Request |-> NoListing]
  /\ target = [r \in Request |-> {}]
  /\ broken = [r \in Request |-> FALSE]
  /\ raced = [r \in Request |-> FALSE]
  /\ old = [r \in Request |-> FALSE]
  /\ owes = [r \in Request |-> FALSE]
  /\ excused = FALSE
  /\ fresh = [s \in Server |-> FALSE]

-----------------------------------------------------------------------------
\* The rows the query of list_tools selects.  No row has a project: upsert_tools
\* sets none, so the project filter keeps them all.
Rows(f) ==
  {l \in Line : LET w == table[l.server][l.tool] IN
                  /\ w.status # "absent" /\ l.status = w.status
                  /\ f = "category" => w.tagged}

Goto(r, p) == pc' = [pc EXCEPT ![r] = p]

\* The handler has answered, or its error has.
Over(r) ==
  /\ Goto(r, "idle")
  /\ key' = [key EXCEPT ![r] = Org]
  /\ filter' = [filter EXCEPT ![r] = "all"]
  /\ got' = [got EXCEPT ![r] = {}]
  /\ todo' = [todo EXCEPT ![r] = {}]
  /\ cur' = [cur EXCEPT ![r] = None]
  /\ listing' = [listing EXCEPT ![r] = NoListing]
  /\ target' = [target EXCEPT ![r] = {}]
  /\ broken' = [broken EXCEPT ![r] = FALSE]
  /\ raced' = [raced EXCEPT ![r] = FALSE]
  /\ old' = [old EXCEPT ![r] = FALSE]
  /\ owes' = [owes EXCEPT ![r] = FALSE]

\* Request r has committed a change of the table.
Committed(r) ==
  /\ owes' = [owes EXCEPT ![r] = TRUE]
  /\ raced' = [q \in Request |-> raced[q] \/ pc[q] = "setting"]

-----------------------------------------------------------------------------
(***************************************************************************)
(* GET /tools.  The local tools it adds to the answer are not cached.           *)
(***************************************************************************)

ListBegin(r, k, f) ==
  /\ pc[r] = "idle"
  /\ Goto(r, "getting")
  /\ key' = [key EXCEPT ![r] = k]
  /\ filter' = [filter EXCEPT ![r] = f]
  /\ UNCHANGED <<registered, table, cache, offer, ops, got, todo, cur, listing, target,
                 broken, raced, old, owes, excused, fresh>>

\* cache_get answers a list that is not empty: whatever its filter was.
Hit(r) ==
  /\ pc[r] = "getting"
  /\ Cached(key[r]) /\ cache[key[r]].lines # {}
  /\ Over(r)
  /\ UNCHANGED <<registered, table, cache, offer, ops, excused, fresh>>

\* Nothing, or a cached empty list, which the code takes for nothing.
Miss(r) ==
  /\ pc[r] = "getting"
  /\ Cached(key[r]) => cache[key[r]].lines = {}
  /\ Goto(r, "querying")
  /\ UNCHANGED <<registered, table, cache, offer, ops, key, filter, got, todo, cur,
                 listing, target, broken, raced, old, owes, excused, fresh>>

RunQuery(r) ==
  /\ pc[r] = "querying"
  /\ Goto(r, "setting")
  /\ got' = [got EXCEPT ![r] = Rows(filter[r])]
  /\ UNCHANGED <<registered, table, cache, offer, ops, key, filter, todo, cur, listing,
                 target, broken, raced, old, owes, excused, fresh>>

\* What cache_set stores, with TTL_TOOLS: the category is in neither key nor value.
Entry(r) == [lines |-> got[r], filter |-> filter[r]]

Fill(r) ==
  /\ pc[r] = "setting"
  /\ cache' = [cache EXCEPT ![key[r]] = Entry(r)]
  /\ excused' = IF key[r] = Org THEN raced[r] ELSE excused
  /\ Over(r)
  /\ UNCHANGED <<registered, table, offer, ops, fresh>>

\* Redis or the database raises: the request fails.
ListRaises(r) ==
  /\ pc[r] \in {"getting", "querying", "setting"}
  /\ Over(r)
  /\ UNCHANGED <<registered, table, cache, offer, ops, excused, fresh>>

-----------------------------------------------------------------------------
(***************************************************************************)
(* POST /tools/discover, and the discovery that follows a connect.              *)
(***************************************************************************)

\* The one server asked for, or the ACTIVE servers of the org.
DiscoverBegin(r) ==
  /\ pc[r] = "idle"
  /\ Goto(r, "looping")
  /\ \E sel \in SUBSET registered : todo' = [todo EXCEPT ![r] = sel]
  /\ UNCHANGED <<registered, table, cache, offer, ops, key, filter, got, cur, listing,
                 target, broken, raced, old, owes, excused, fresh>>

\* A local plugin, no live client, or a list_tools that raises.
SkipServer(r, s) ==
  /\ pc[r] = "looping" /\ s \in todo[r]
  /\ todo' = [todo EXCEPT ![r] = @ \ {s}]
  /\ UNCHANGED <<registered, table, cache, offer, ops, pc, key, filter, got, cur,
                 listing, target, broken, raced, old, owes, excused, fresh>>

\* The SDK session lists names, descriptions and schemas; the HTTP fallback
\* hands on what the server sent, the category included.
ListServer(r, s) ==
  /\ pc[r] = "looping" /\ s \in todo[r]
  /\ Goto(r, "upserting")
  /\ todo' = [todo EXCEPT ![r] = @ \ {s}]
  /\ cur' = [cur EXCEPT ![r] = s]
  /\ \E h \in BOOLEAN : listing' = [listing EXCEPT ![r] = [names |-> offer[s], http |-> h]]
  /\ old' = [old EXCEPT ![r] = FALSE]
  /\ UNCHANGED <<registered, table, cache, offer, ops, key, filter, got, target, broken,
                 raced, owes, excused, fresh>>

\* On to the next server.
NextServer(r) ==
  /\ Goto(r, "looping")
  /\ cur' = [cur EXCEPT ![r] = None]
  /\ listing' = [listing EXCEPT ![r] = NoListing]
  /\ target' = [target EXCEPT ![r] = {}]
  /\ old' = [old EXCEPT ![r] = FALSE]

\* An empty list returns before the vanished tools are marked.
UpsertNothing(r) ==
  /\ pc[r] = "upserting" /\ listing[r].names = {}
  /\ NextServer(r)
  /\ UNCHANGED <<registered, table, cache, offer, ops, key, filter, got, todo, broken,
                 raced, owes, excused, fresh>>

\* Mutant: a conflicting row keeps its status.
Stored_StatusKept(w, t, l) ==
  IF t \in l.names
  THEN IF w = Absent THEN [status |-> "available", tagged |-> l.http /\ t \in Tagged] ELSE w
  ELSE IF w = Absent THEN w ELSE [w EXCEPT !.status = "unavailable"]

\* Mutant: a vanished tool gets another status of ToolStatus.
Stored_Deprecated(w, t, l) ==
  IF t \in l.names
  THEN [status |-> "available",
        tagged |-> IF w = Absent THEN l.http /\ t \in Tagged ELSE w.tagged]
  ELSE IF w = Absent THEN w ELSE [w EXCEPT !.status = "deprecated"]

\* Row w of tool t after the list l was stored: a new row is inserted with its
\* category, an old one is made available again and keeps its category, and one
\* that is not in the list becomes unavailable.
Stored(w, t, l) ==
  IF t \in l.names
  THEN [status |-> "available",
        tagged |-> IF w = Absent THEN l.http /\ t \in Tagged ELSE w.tagged]
  ELSE IF w = Absent THEN w ELSE [w EXCEPT !.status = "unavailable"]

\* The rows of its server that r has written and not committed, locked until it has.
Written(r) ==
  CASE pc[r] = "inserting"  -> target[r]
    [] pc[r] = "committing" -> target[r] \cup listing[r].names
    [] OTHER                -> {}

\* No other transaction has written one of the rows ts of server s.
Unlocked(r, s, ts) ==
  \A q \in Request \ {r} : cur[q] = s => Written(q) \cap ts = {}

\* The UPDATE starts: it will mark the rows it sees now, not those committed later.
UpdateStarts(r) ==
  /\ pc[r] = "upserting" /\ listing[r].names # {} /\ ~broken[r]
  /\ target' = [target EXCEPT ![r] =
                  {t \in Tool \ listing[r].names : table[cur[r]][t] # Absent}]
  /\ Goto(r, "marking")
  /\ UNCHANGED <<registered, table, cache, offer, ops, key, filter, got, todo, cur,
                 listing, broken, raced, old, owes, excused, fresh>>

\* It has the rows, but for those deleted meanwhile with their server.
MarkVanished(r) ==
  /\ pc[r] = "marking" /\ Unlocked(r, cur[r], target[r])
  /\ target' = [target EXCEPT ![r] = {t \in @ : table[cur[r]][t] # Absent}]
  /\ Goto(r, "inserting")
  /\ UNCHANGED <<registered, table, cache, offer, ops, key, filter, got, todo, cur,
                 listing, broken, raced, old, owes, excused, fresh>>

\* INSERT ... ON CONFLICT DO UPDATE: it waits for the rows of the listing, whoever has
\* written them, and for the server to be there.
InsertListed(r) ==
  /\ pc[r] = "inserting"
  /\ cur[r] \in registered /\ Unlocked(r, cur[r], listing[r].names)
  /\ Goto(r, "committing")
  /\ UNCHANGED <<registered, table, cache, offer, ops, key, filter, got, todo, cur,
                 listing, target, broken, raced, old, owes, excused, fresh>>

\* A row that is available, is not in the listing and was not there for the UPDATE to
\* see: another discovery of the server has committed it since.
Phantom(r) ==
  \E t \in Tool \ listing[r].names :
    table[cur[r]][t].status = "available" /\ t \notin target[r]

\* The rows written have been locked since: what the table says of them is what the
\* statements have found.
CommitUpsert(r) ==
  /\ pc[r] = "committing"
  /\ table' = [table EXCEPT ![cur[r]] =
                 [t \in Tool |-> IF t \in Written(r) THEN Stored(@[t], t, listing[r])
                                                     ELSE @[t]]]
  /\ fresh' = [fresh EXCEPT ![cur[r]] = ~old[r] /\ ~Phantom(r)]
  /\ Committed(r)
  /\ NextServer(r)
  /\ UNCHANGED <<registered, cache, offer, ops, key, filter, got, todo, broken, excused>>

\* The database raises, and the transaction is rolled back: always once the server is
\* gone (its foreign key), and after an error that aborted the transaction, which
\* discover never ends; one of two discoveries that wait for each other's rows too.
UpsertRaises(r) ==
  /\ pc[r] \in Upserting /\ listing[r].names # {}
  /\ broken' = [broken EXCEPT ![r] = TRUE]
  /\ NextServer(r)
  /\ UNCHANGED <<registered, table, cache, offer, ops, key, filter, got, todo, raced,
                 owes, excused, fresh>>

\* cache_delete of the org key, the last thing discover does.  The lists kept for
\* projects stay.
Invalidate(r) ==
  /\ pc[r] = "looping" /\ todo[r] = {}
  /\ cache' = [cache EXCEPT ![Org] = None]
  /\ excused' = FALSE
  /\ Over(r)
  /\ UNCHANGED <<registered, table, offer, ops, fresh>>

InvalidateRaises(r) ==
  /\ pc[r] \in {"looping", "sweeping"} /\ todo[r] = {}
  /\ excused' = (excused \/ owes[r])
  /\ Over(r)
  /\ UNCHANGED <<registered, table, cache, offer, ops, fresh>>

-----------------------------------------------------------------------------
(***************************************************************************)
(* DELETE /servers/{id}: the rows of its tools go with the row of the server.    *)
(***************************************************************************)
\* The row is deleted, once no transaction has written rows of the server, and the
\* request goes on to the cache.  A request that raises
\* before that (or finds the row gone) has changed nothing kept here.
DeleteServer(r, s) ==
  /\ pc[r] = "idle"
  /\ s \in registered /\ Unlocked(r, s, Tool)
  /\ registered' = registered \ {s}
  /\ table' = [table EXCEPT ![s] = [t \in Tool |-> Absent]]
  /\ fresh' = [fresh EXCEPT ![s] = FALSE]
  /\ Committed(r)
  /\ Goto(r, "sweeping")
  /\ UNCHANGED <<cache, offer, ops, key, filter, got, todo, cur, listing, target, broken,
                 old, excused>>

\* Mutant: the sweep looks for the lists of projects.
Swept_ProjectKeys == Project

\* The keys cache_delete_pattern finds: the pattern is the org key itself, without
\* a wildcard.
Swept == {Org}

Sweep(r) ==
  /\ pc[r] = "sweeping"
  /\ cache' = [k \in Key |-> IF k \in Swept THEN None ELSE cache[k]]
  /\ excused' = FALSE
  /\ Over(r)
  /\ UNCHANGED <<registered, table, offer, ops, fresh>>

-----------------------------------------------------------------------------
\* A server gains or loses tools.
OfferChanges(s) ==
  /\ ops < MaxOps /\ s \in registered
  /\ ops' = ops + 1
  /\ \E o \in Offers \ {offer[s]} : offer' = [offer EXCEPT ![s] = o]
  /\ fresh' = [fresh EXCEPT ![s] = FALSE]
  /\ old' = [r \in Request |-> old[r] \/ cur[r] = s]
  /\ UNCHANGED <<registered, table, cache, pc, key, filter, got, todo, cur, listing,
                 target, broken, raced, owes, excused>>

\* The time to live has run out.
Expire(k) ==
  /\ Cached(k)
  /\ cache' = [cache EXCEPT ![k] = None]
  /\ excused' = IF k = Org THEN FALSE ELSE excused
  /\ UNCHANGED <<registered, table, offer, ops, requestVars, fresh>>

ListStep(r) ==
  \/ \E k \in Key, f \in Filter : ListBegin(r, k, f)
  \/ Hit(r)
  \/ Miss(r)
  \/ RunQuery(r)
  \/ Fill(r)
  \/ ListRaises(r)

DiscoverStep(r) ==
  \/ DiscoverBegin(r)
  \/ \E s \in Server : SkipServer(r, s) \/ ListServer(r, s)
  \/ UpsertNothing(r)
  \/ UpdateStarts(r)
  \/ MarkVanished(r)
  \/ InsertListed(r)
  \/ CommitUpsert(r)
  \/ UpsertRaises(r)
  \/ Invalidate(r)
  \/ InvalidateRaises(r)

UnregisterStep(r) ==
  \/ \E s \in Server : DeleteServer(r, s)
  \/ Sweep(r)

Next ==
  \/ \E r \in Request : ListStep(r) \/ DiscoverStep(r) \/ UnregisterStep(r)
  \/ \E s \in Server : OfferChanges(s)
  \/ \E k \in Key : Expire(k)

Spec == Init /\ [][Next]_vars

\* Redis drops an entry whose time has come.
FairSpec == Spec /\ \A k \in Key : WF_vars(Expire(k))

-----------------------------------------------------------------------------
\* The list under k is not what its query would return now.
Stale(k) == Cached(k) /\ cache[k].lines # Rows(cache[k].filter)

\* A stale org list has an excuse: a request that changed the table has its
\* deletion still ahead, or the list was stored by a query older than the last
\* deletion, or a deletion raised (discover, unregister_server, list_tools).
OrgListFollowsTable ==
  Stale(Org) => excused \/ \E r \in Request : owes[r]

\* A server that offers what it last listed has exactly those tools available,
\* through tools that vanish and come back and discoveries that overlap or fail.  Three
\* cases are left out, and in each of them a vanished tool may stay available, against
\* the docstring of upsert_tools: an empty listing, which returns early; a listing that
\* the server has changed its mind about before it was stored; and a row that another
\* discovery has committed after the UPDATE had started.
RowsFollowServer ==
  \A s \in Server : fresh[s] =>
    {t \in Tool : table[s][t].status = "available"} = offer[s]

\* "List all tools available to the requesting org/project" (list_tools): a list
\* asked for without a category and served from the cache was made by a query
\* without one.
FullListIsFull ==
  [][\A r \in Request : Hit(r) /\ filter[r] = "all" => cache[key[r]].filter = "all"]_vars

=============================================================================
