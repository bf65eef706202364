-------------------------- MODULE ToolCatalogProofs --------------------------
(***************************************************************************)
(* Machine-checked proofs about ToolCatalog: for every set of servers, tools,     *)
(* projects and requests.                                                         *)
(***************************************************************************)
EXTENDS ToolCatalog, TLAPS

-----------------------------------------------------------------------------
(***************************************************************************)
(* The inductive invariant: what the requests carry from one await to the next.   *)
(***************************************************************************)

\* Only a discovery or a deletion under way owes the cache an invalidation.
OwesOK ==
  \A r \in Request : owes[r] => pc[r] \in Upserting \cup {"looping", "sweeping"}

\* The rows a list is about to store are the table's, unless the table has changed
\* since the query.
GotOK ==
  \A r \in Request : pc[r] = "setting" /\ ~raced[r] => got[r] = Rows(filter[r])

\* A listing about to be stored is what its server offers, unless the server has
\* changed since.
ListedOK ==
  \A r \in Request : pc[r] \in Upserting =>
    cur[r] \in Server /\ (~old[r] => listing[r].names = offer[cur[r]])

IndInv == /\ TypeOK /\ OwesOK /\ GotOK /\ ListedOK
          /\ OrgListFollowsTable /\ RowsFollowServer

\* The two halves of the type invariant: what the requests hold, and the rest.
RequestTypes ==
  /\ pc \in [Request -> Pc]
  /\ key \in [Request -> Key]
  /\ filter \in [Request -> Filter]
  /\ got \in [Request -> SUBSET Line]
  /\ todo \in [Request -> SUBSET Server]
  /\ cur \in [Request -> Server \cup {None}]
  /\ listing \in [Request -> [names : SUBSET Tool, http : BOOLEAN]]
  /\ target \in [Request -> SUBSET Tool]
  /\ broken \in [Request -> BOOLEAN]
  /\ raced \in [Request -> BOOLEAN]
  /\ old \in [Request -> BOOLEAN]
  /\ owes \in [Request -> BOOLEAN]

StoreTypes ==
  /\ registered \in SUBSET Server
  /\ table \in [Server -> [Tool -> [status : Status, tagged : BOOLEAN]]]
  /\ \A k \in Key : Cached(k) =>
       cache[k] \in [lines : SUBSET Line, filter : Filter]
  /\ DOMAIN cache = Key
  /\ offer \in [Server -> SUBSET Tool]
  /\ ops \in 0 .. MaxOps
  /\ excused \in BOOLEAN
  /\ fresh \in [Server -> BOOLEAN]

-----------------------------------------------------------------------------
(***************************************************************************)
(* Lemmas.                                                                     *)
(***************************************************************************)

\* The halves are the whole.
LEMMA TypeHalves == TypeOK <=> RequestTypes /\ StoreTypes
BY DEF TypeOK, RequestTypes, StoreTypes

\* So they are after a step.
LEMMA TypeHalvesNext == TypeOK' <=> RequestTypes' /\ StoreTypes'
BY DEF TypeOK, RequestTypes, StoreTypes

\* A request that is over has forgotten everything.
LEMMA OverTypes ==
  ASSUME RequestTypes, NEW r \in Request, Over(r)
  PROVE  RequestTypes'
<1>1. NoListing \in [names : SUBSET Tool, http : BOOLEAN]
  BY DEF NoListing
<1>2. listing' \in [Request -> [names : SUBSET Tool, http : BOOLEAN]]
  BY <1>1 DEF RequestTypes, Over
<1>. QED  BY <1>2 DEF RequestTypes, Over, Goto, Pc, Upserting, Key, Filter

\* So has a discovery of the server it leaves.
LEMMA NextServerTypes ==
  ASSUME RequestTypes, NEW r \in Request, NextServer(r)
  PROVE  /\ pc' \in [Request -> Pc]
         /\ cur' \in [Request -> Server \cup {None}]
         /\ listing' \in [Request -> [names : SUBSET Tool, http : BOOLEAN]]
         /\ target' \in [Request -> SUBSET Tool]
         /\ old' \in [Request -> BOOLEAN]
<1>1. NoListing \in [names : SUBSET Tool, http : BOOLEAN]
  BY DEF NoListing
<1>2. listing' \in [Request -> [names : SUBSET Tool, http : BOOLEAN]]
  BY <1>1 DEF RequestTypes, NextServer
<1>. QED  BY <1>2 DEF RequestTypes, NextServer, Goto, Pc, Upserting

\* A commit is noted by the request itself and by the lists about to be stored.
LEMMA CommittedTypes ==
  ASSUME RequestTypes, NEW r \in Request, Committed(r)
  PROVE  owes' \in [Request -> BOOLEAN] /\ raced' \in [Request -> BOOLEAN]
<1>1. \A q \in Request : (raced[q] \/ pc[q] = "setting") \in BOOLEAN
  OBVIOUS
<1>2. raced' \in [Request -> BOOLEAN]
  BY <1>1 DEF Committed
<1>. QED  BY <1>2 DEF RequestTypes, Committed

\* A query reads the table and nothing else.
LEMMA RowsSame == table' = table => \A f \in Filter : Rows(f)' = Rows(f)
BY DEF Rows

\* A query returns lines.
LEMMA RowsType == \A f \in Filter : Rows(f) \in SUBSET Line
BY DEF Rows

\* What a stored listing leaves in a row: a status of ToolStatus, "available" exactly
\* for the tools listed.
LEMMA StoredEffect ==
  ASSUME NEW w \in [status : Status, tagged : BOOLEAN], NEW t \in Tool,
         NEW l \in [names : SUBSET Tool, http : BOOLEAN]
  PROVE  /\ Stored(w, t, l) \in [status : Status, tagged : BOOLEAN]
         /\ t \in l.names => Stored(w, t, l).status = "available"
         /\ t \notin l.names => Stored(w, t, l).status # "available"
<1>1. CASE t \in l.names
  <2>1. (l.http /\ t \in Tagged) \in BOOLEAN /\ w.tagged \in BOOLEAN
    OBVIOUS
  <2>2. Stored(w, t, l) = [status |-> "available",
          tagged |-> IF w = Absent THEN l.http /\ t \in Tagged ELSE w.tagged]
    BY <1>1 DEF Stored
  <2>3. (IF w = Absent THEN l.http /\ t \in Tagged ELSE w.tagged) \in BOOLEAN
    BY <2>1
  <2>4. Stored(w, t, l).status = "available" /\ "available" \in Status
    BY <2>2 DEF Status
  <2>5. Stored(w, t, l) \in [status : Status, tagged : BOOLEAN]
    <3>. DEFINE b == IF w = Absent THEN l.http /\ t \in Tagged ELSE w.tagged
    <3>. HIDE DEF b
    <3>1. b \in BOOLEAN /\ Stored(w, t, l) = [status |-> "available", tagged |-> b]
      BY <2>2, <2>3 DEF b
    <3>. QED  BY <3>1, <2>4
  <2>. QED  BY <1>1, <2>4, <2>5
<1>2. CASE t \notin l.names /\ w = Absent
  BY <1>2 DEF Stored, Absent
<1>3. CASE t \notin l.names /\ w # Absent
  BY <1>3 DEF Stored, Status
<1>. QED  BY <1>1, <1>2, <1>3

-----------------------------------------------------------------------------
(***************************************************************************)
(* Steps, in the order of the module.                                          *)
(***************************************************************************)

\* A list is asked for.
LEMMA ListBeginStep ==
  ASSUME NEW r \in Request, NEW k \in Key, NEW f \in Filter, IndInv, ListBegin(r, k, f)
  PROVE  IndInv'
<1>1. TypeOK'
  BY OpsAssumption DEF IndInv, ListBegin, Goto, TypeOK, Cached, Key, Filter, Pc, Upserting
<1>2. OwesOK'
  BY DEF IndInv, ListBegin, Goto, OwesOK, Upserting, TypeOK
<1>3. GotOK'
  BY RowsSame DEF IndInv, ListBegin, Goto, GotOK, TypeOK
<1>4. ListedOK'
  BY DEF IndInv, ListBegin, Goto, ListedOK, Upserting, TypeOK
<1>5. OrgListFollowsTable'
  BY RowsSame DEF IndInv, ListBegin, Goto, OrgListFollowsTable, Stale, Cached, OwesOK,
                  Upserting, TypeOK, Key
<1>6. RowsFollowServer'
  BY DEF IndInv, ListBegin, Goto, RowsFollowServer, TypeOK
<1>. QED  BY <1>1, <1>2, <1>3, <1>4, <1>5, <1>6 DEF IndInv

\* The cache answers.
LEMMA HitStep ==
  ASSUME NEW r \in Request, IndInv, Hit(r)
  PROVE  IndInv'
<1>1. TypeOK'
  <2>1. RequestTypes'
    BY TypeHalves, OverTypes DEF IndInv, Hit
  <2>2. StoreTypes'
    BY TypeHalves DEF IndInv, Hit, StoreTypes, Cached
  <2>. QED  BY <2>1, <2>2, TypeHalvesNext
<1>2. OwesOK'
  BY DEF IndInv, Hit, Over, Goto, OwesOK, Upserting, TypeOK
<1>3. GotOK'
  BY RowsSame DEF IndInv, Hit, Over, Goto, GotOK, TypeOK
<1>4. ListedOK'
  BY DEF IndInv, Hit, Over, Goto, ListedOK, Upserting, TypeOK
<1>5. OrgListFollowsTable'
  BY RowsSame DEF IndInv, Hit, Over, Goto, OrgListFollowsTable, Stale, Cached, OwesOK,
     Upserting, TypeOK, Key
<1>6. RowsFollowServer'
  BY DEF IndInv, Hit, Over, Goto, RowsFollowServer, TypeOK
<1>. QED  BY <1>1, <1>2, <1>3, <1>4, <1>5, <1>6 DEF IndInv

\* The cache does not answer.
LEMMA MissStep ==
  ASSUME NEW r \in Request, IndInv, Miss(r)
  PROVE  IndInv'
<1>1. TypeOK'
  BY OpsAssumption DEF IndInv, Miss, Goto, TypeOK, Cached, Key, Filter, Pc, Upserting
<1>2. OwesOK'
  BY DEF IndInv, Miss, Goto, OwesOK, Upserting, TypeOK
<1>3. GotOK'
  BY RowsSame DEF IndInv, Miss, Goto, GotOK, TypeOK
<1>4. ListedOK'
  BY DEF IndInv, Miss, Goto, ListedOK, Upserting, TypeOK
<1>5. OrgListFollowsTable'
  BY RowsSame DEF IndInv, Miss, Goto, OrgListFollowsTable, Stale, Cached, OwesOK, Upserting,
         TypeOK, Key
<1>6. RowsFollowServer'
  BY DEF IndInv, Miss, Goto, RowsFollowServer, TypeOK
<1>. QED  BY <1>1, <1>2, <1>3, <1>4, <1>5, <1>6 DEF IndInv

\* The query of a list.
LEMMA RunQueryStep ==
  ASSUME NEW r \in Request, IndInv, RunQuery(r)
  PROVE  IndInv'
<1>1. TypeOK'
  <2>1. Rows(filter[r]) \in SUBSET Line
    BY RowsType DEF IndInv, TypeOK
  <2>2. got' \in [Request -> SUBSET Line]
    BY <2>1 DEF IndInv, TypeOK, RunQuery
  <2>. QED  BY <2>2 DEF IndInv, TypeOK, RunQuery, Goto, Cached, Pc, Upserting
<1>2. OwesOK'
  BY DEF IndInv, RunQuery, Goto, OwesOK, Upserting, TypeOK
<1>3. GotOK'
  BY RowsSame DEF IndInv, RunQuery, Goto, GotOK, TypeOK
<1>4. ListedOK'
  BY DEF IndInv, RunQuery, Goto, ListedOK, Upserting, TypeOK
<1>5. OrgListFollowsTable'
  BY RowsSame DEF IndInv, RunQuery, Goto, OrgListFollowsTable, Stale, Cached, OwesOK,
     Upserting, TypeOK, Key
<1>6. RowsFollowServer'
  BY DEF IndInv, RunQuery, Goto, RowsFollowServer, TypeOK
<1>. QED  BY <1>1, <1>2, <1>3, <1>4, <1>5, <1>6 DEF IndInv

\* The list is stored.
LEMMA FillStep ==
  ASSUME NEW r \in Request, IndInv, Fill(r)
  PROVE  IndInv'
<1>1. TypeOK'
  <2>1. RequestTypes'
    BY TypeHalves, OverTypes DEF IndInv, Fill
  <2>2. StoreTypes'
    <3>1. Entry(r) \in [lines : SUBSET Line, filter : Filter]
      BY DEF IndInv, TypeOK, Entry
    <3>2. key[r] \in Key /\ raced[r] \in BOOLEAN /\ DOMAIN cache = Key
      BY DEF IndInv, TypeOK
    <3>3. /\ DOMAIN cache' = Key
          /\ \A k \in Key : cache'[k] = IF k = key[r] THEN Entry(r) ELSE cache[k]
      BY <3>2 DEF Fill
    <3>4. \A k \in Key : cache'[k] # None =>
             cache'[k] \in [lines : SUBSET Line, filter : Filter]
      BY <3>1, <3>3 DEF IndInv, TypeOK, Cached
    <3>5. excused' \in BOOLEAN
      BY <3>2 DEF IndInv, TypeOK, Fill
    <3>. QED  BY <3>3, <3>4, <3>5 DEF IndInv, TypeOK, StoreTypes, Cached, Fill
  <2>. QED  BY <2>1, <2>2, TypeHalvesNext
<1>2. OwesOK'
  BY DEF IndInv, Fill, Over, Goto, Entry, OwesOK, Upserting, TypeOK
<1>3. GotOK'
  BY RowsSame DEF IndInv, Fill, Over, Goto, Entry, GotOK, TypeOK
<1>4. ListedOK'
  BY DEF IndInv, Fill, Over, Goto, Entry, ListedOK, Upserting, TypeOK
<1>5. OrgListFollowsTable'
  <2>1. CASE key[r] = Org
    <3>1. PICK f \in Filter : f = filter[r]
      BY DEF IndInv, TypeOK
    <3>2. cache'[Org].lines = got[r] /\ cache'[Org].filter = f
      BY <2>1, <3>1 DEF IndInv, TypeOK, Fill, Key, Entry
    <3>3. Rows(f)' = Rows(f)
      BY RowsSame DEF Fill
    <3>4. Stale(Org)' => got[r] # Rows(f)
      BY <3>2, <3>3 DEF Stale, Rows
    <3>. QED  BY <2>1, <3>1, <3>4 DEF IndInv, GotOK, OrgListFollowsTable, Fill
  <2>2. CASE key[r] # Org
    <3>1. cache'[Org] = cache[Org] /\ excused' = excused /\ table' = table
      BY <2>2 DEF IndInv, TypeOK, Fill, Key
    <3>2. Stale(Org)' => Stale(Org)
      BY <3>1 DEF Stale, Cached, Rows
    <3>3. \A q \in Request : owes[q] => q # r /\ owes'[q]
      BY DEF IndInv, TypeOK, OwesOK, Upserting, Fill, Over
    <3>. QED  BY <3>1, <3>2, <3>3 DEF IndInv, OrgListFollowsTable
  <2>. QED  BY <2>1, <2>2
<1>6. RowsFollowServer'
  BY DEF IndInv, Fill, Over, Goto, Entry, RowsFollowServer, TypeOK
<1>. QED  BY <1>1, <1>2, <1>3, <1>4, <1>5, <1>6 DEF IndInv

\* A list fails.
LEMMA ListRaisesStep ==
  ASSUME NEW r \in Request, IndInv, ListRaises(r)
  PROVE  IndInv'
<1>1. TypeOK'
  <2>1. RequestTypes'
    BY TypeHalves, OverTypes DEF IndInv, ListRaises
  <2>2. StoreTypes'
    BY TypeHalves DEF IndInv, ListRaises, StoreTypes, Cached, Key
  <2>. QED  BY <2>1, <2>2, TypeHalvesNext
<1>2. OwesOK'
  BY DEF IndInv, ListRaises, Over, Goto, OwesOK, Upserting, TypeOK
<1>3. GotOK'
  BY RowsSame DEF IndInv, ListRaises, Over, Goto, GotOK, TypeOK
<1>4. ListedOK'
  BY DEF IndInv, ListRaises, Over, Goto, ListedOK, Upserting, TypeOK
<1>5. OrgListFollowsTable'
  BY RowsSame DEF IndInv, ListRaises, Over, Goto, OrgListFollowsTable, Stale, Cached,
         OwesOK, Upserting, TypeOK, Key
<1>6. RowsFollowServer'
  BY DEF IndInv, ListRaises, Over, Goto, RowsFollowServer, TypeOK
<1>. QED  BY <1>1, <1>2, <1>3, <1>4, <1>5, <1>6 DEF IndInv

\* A discovery has chosen its servers.
LEMMA DiscoverBeginStep ==
  ASSUME NEW r \in Request, IndInv, DiscoverBegin(r)
  PROVE  IndInv'
<1>1. TypeOK'
  BY OpsAssumption DEF IndInv, DiscoverBegin, Goto, TypeOK, Cached, Key, Filter, Pc,
     Upserting
<1>2. OwesOK'
  BY DEF IndInv, DiscoverBegin, Goto, OwesOK, Upserting, TypeOK
<1>3. GotOK'
  BY RowsSame DEF IndInv, DiscoverBegin, Goto, GotOK, TypeOK
<1>4. ListedOK'
  BY DEF IndInv, DiscoverBegin, Goto, ListedOK, Upserting, TypeOK
<1>5. OrgListFollowsTable'
  BY RowsSame DEF IndInv, DiscoverBegin, Goto, OrgListFollowsTable, Stale, Cached,
         OwesOK, Upserting, TypeOK, Key
<1>6. RowsFollowServer'
  BY DEF IndInv, DiscoverBegin, Goto, RowsFollowServer, TypeOK
<1>. QED  BY <1>1, <1>2, <1>3, <1>4, <1>5, <1>6 DEF IndInv

\* A server that cannot be listed.
LEMMA SkipServerStep ==
  ASSUME NEW r \in Request, NEW s \in Server, IndInv, SkipServer(r, s)
  PROVE  IndInv'
<1>1. TypeOK'
  BY OpsAssumption DEF IndInv, SkipServer, TypeOK, Cached, Key, Filter, Pc, Upserting
<1>2. OwesOK'
  BY DEF IndInv, SkipServer, OwesOK, Upserting, TypeOK
<1>3. GotOK'
  BY RowsSame DEF IndInv, SkipServer, GotOK, TypeOK
<1>4. ListedOK'
  BY DEF IndInv, SkipServer, ListedOK, Upserting, TypeOK
<1>5. OrgListFollowsTable'
  BY RowsSame DEF IndInv, SkipServer, OrgListFollowsTable, Stale, Cached, OwesOK, Upserting,
         TypeOK, Key
<1>6. RowsFollowServer'
  BY DEF IndInv, SkipServer, RowsFollowServer, TypeOK
<1>. QED  BY <1>1, <1>2, <1>3, <1>4, <1>5, <1>6 DEF IndInv

\* A server lists its tools.
LEMMA ListServerStep ==
  ASSUME NEW r \in Request, NEW s \in Server, IndInv, ListServer(r, s)
  PROVE  IndInv'
<1>1. TypeOK'
  BY OpsAssumption DEF IndInv, ListServer, Goto, TypeOK, Cached, Key, Filter, Pc, Upserting
<1>2. OwesOK'
  BY DEF IndInv, ListServer, Goto, OwesOK, Upserting, TypeOK
<1>3. GotOK'
  BY RowsSame DEF IndInv, ListServer, Goto, GotOK, TypeOK
<1>4. ListedOK'
  BY DEF IndInv, ListServer, Goto, ListedOK, Upserting, TypeOK
<1>5. OrgListFollowsTable'
  BY RowsSame DEF IndInv, ListServer, Goto, OrgListFollowsTable, Stale, Cached, OwesOK,
     Upserting, TypeOK, Key
<1>6. RowsFollowServer'
  BY DEF IndInv, ListServer, Goto, RowsFollowServer, TypeOK
<1>. QED  BY <1>1, <1>2, <1>3, <1>4, <1>5, <1>6 DEF IndInv

\* An empty listing.
LEMMA UpsertNothingStep ==
  ASSUME NEW r \in Request, IndInv, UpsertNothing(r)
  PROVE  IndInv'
<1>1. TypeOK'
  <2>1. RequestTypes'
    <3>1. RequestTypes
      BY TypeHalves DEF IndInv
    <3>. QED  BY <3>1, NextServerTypes DEF UpsertNothing, RequestTypes
  <2>2. StoreTypes'
    BY TypeHalves DEF IndInv, StoreTypes, Cached, UpsertNothing
  <2>. QED  BY <2>1, <2>2, TypeHalvesNext
<1>2. OwesOK'
  BY DEF IndInv, UpsertNothing, NextServer, Goto, OwesOK, Upserting, TypeOK
<1>3. GotOK'
  BY RowsSame DEF IndInv, UpsertNothing, NextServer, Goto, GotOK, TypeOK
<1>4. ListedOK'
  BY DEF IndInv, UpsertNothing, NextServer, Goto, ListedOK, Upserting, TypeOK
<1>5. OrgListFollowsTable'
  BY RowsSame DEF IndInv, UpsertNothing, NextServer, Goto, OrgListFollowsTable, Stale,
         Cached, OwesOK, Upserting, TypeOK, Key
<1>6. RowsFollowServer'
  BY DEF IndInv, UpsertNothing, NextServer, Goto, RowsFollowServer, TypeOK
<1>. QED  BY <1>1, <1>2, <1>3, <1>4, <1>5, <1>6 DEF IndInv

\* The UPDATE has taken its snapshot.
LEMMA UpdateStartsStep ==
  ASSUME NEW r \in Request, IndInv, UpdateStarts(r)
  PROVE  IndInv'
<1>1. TypeOK'
  BY DEF IndInv, UpdateStarts, Goto, TypeOK, Cached, Pc, Upserting
<1>2. OwesOK'
  BY DEF IndInv, UpdateStarts, Goto, OwesOK, Upserting, TypeOK
<1>3. GotOK'
  BY RowsSame DEF IndInv, UpdateStarts, Goto, GotOK, TypeOK
<1>4. ListedOK'
  BY DEF IndInv, UpdateStarts, Goto, ListedOK, Upserting, TypeOK
<1>5. OrgListFollowsTable'
  BY RowsSame DEF IndInv, UpdateStarts, Goto, OrgListFollowsTable, Stale, Cached, TypeOK,
     Key
<1>6. RowsFollowServer'
  BY DEF IndInv, UpdateStarts, Goto, RowsFollowServer, TypeOK
<1>. QED  BY <1>1, <1>2, <1>3, <1>4, <1>5, <1>6 DEF IndInv

\* The UPDATE has its rows.
LEMMA MarkVanishedStep ==
  ASSUME NEW r \in Request, IndInv, MarkVanished(r)
  PROVE  IndInv'
<1>1. TypeOK'
  BY DEF IndInv, MarkVanished, Goto, TypeOK, Cached, Pc, Upserting
<1>2. OwesOK'
  BY DEF IndInv, MarkVanished, Goto, OwesOK, Upserting, TypeOK
<1>3. GotOK'
  BY RowsSame DEF IndInv, MarkVanished, Goto, GotOK, TypeOK
<1>4. ListedOK'
  BY DEF IndInv, MarkVanished, Goto, ListedOK, Upserting, TypeOK
<1>5. OrgListFollowsTable'
  BY RowsSame DEF IndInv, MarkVanished, Goto, OrgListFollowsTable, Stale, Cached, TypeOK,
     Key
<1>6. RowsFollowServer'
  BY DEF IndInv, MarkVanished, Goto, RowsFollowServer, TypeOK
<1>. QED  BY <1>1, <1>2, <1>3, <1>4, <1>5, <1>6 DEF IndInv

\* The INSERT has its rows.
LEMMA InsertListedStep ==
  ASSUME NEW r \in Request, IndInv, InsertListed(r)
  PROVE  IndInv'
<1>1. TypeOK'
  BY DEF IndInv, InsertListed, Goto, TypeOK, Cached, Pc, Upserting
<1>2. OwesOK'
  BY DEF IndInv, InsertListed, Goto, OwesOK, Upserting, TypeOK
<1>3. GotOK'
  BY RowsSame DEF IndInv, InsertListed, Goto, GotOK, TypeOK
<1>4. ListedOK'
  BY DEF IndInv, InsertListed, Goto, ListedOK, Upserting, TypeOK
<1>5. OrgListFollowsTable'
  BY RowsSame DEF IndInv, InsertListed, Goto, OrgListFollowsTable, Stale, Cached, TypeOK,
     Key
<1>6. RowsFollowServer'
  BY DEF IndInv, InsertListed, Goto, RowsFollowServer, TypeOK
<1>. QED  BY <1>1, <1>2, <1>3, <1>4, <1>5, <1>6 DEF IndInv

\* A stored listing is committed.
LEMMA CommitUpsertStep ==
  ASSUME NEW r \in Request, IndInv, CommitUpsert(r)
  PROVE  IndInv'
<1>1. TypeOK'
  <2>1. RequestTypes'
    <3>1. RequestTypes
      BY TypeHalves DEF IndInv
    <3>. QED  BY <3>1, NextServerTypes, CommittedTypes DEF CommitUpsert, RequestTypes
  <2>2. StoreTypes'
    <3>1. cur[r] \in Server /\ listing[r] \in [names : SUBSET Tool, http : BOOLEAN]
      BY DEF IndInv, TypeOK, ListedOK, Upserting, CommitUpsert
    <3>2. [t \in Tool |-> IF t \in Written(r) THEN Stored(table[cur[r]][t], t, listing[r])
                                              ELSE table[cur[r]][t]]
            \in [Tool -> [status : Status, tagged : BOOLEAN]]
      BY <3>1, StoredEffect DEF IndInv, TypeOK
    <3>3. table' \in [Server -> [Tool -> [status : Status, tagged : BOOLEAN]]]
      BY <3>1, <3>2 DEF IndInv, TypeOK, CommitUpsert
    <3>4. fresh' \in [Server -> BOOLEAN]
      BY DEF IndInv, TypeOK, CommitUpsert
    <3>. QED  BY <3>3, <3>4, TypeHalves DEF IndInv, StoreTypes, Cached, CommitUpsert
  <2>. QED  BY <2>1, <2>2, TypeHalvesNext
<1>2. OwesOK'
  BY DEF IndInv, CommitUpsert, NextServer, Goto, Committed, OwesOK, Upserting, TypeOK
<1>3. GotOK'
  BY RowsSame DEF IndInv, CommitUpsert, NextServer, Goto, Committed, GotOK, TypeOK
<1>4. ListedOK'
  BY DEF IndInv, CommitUpsert, NextServer, Goto, Committed, ListedOK, Upserting, TypeOK
<1>5. OrgListFollowsTable'
  BY RowsSame DEF IndInv, CommitUpsert, NextServer, Goto, Committed, OrgListFollowsTable,
         Stale, Cached, OwesOK, Upserting, TypeOK, Key
<1>6. RowsFollowServer'
  <2>1. cur[r] \in Server /\ listing[r] \in [names : SUBSET Tool, http : BOOLEAN]
    BY DEF IndInv, TypeOK, ListedOK, Upserting, CommitUpsert
  <2>2. /\ table'[cur[r]] =
             [t \in Tool |-> IF t \in Written(r)
                             THEN Stored(table[cur[r]][t], t, listing[r])
                             ELSE table[cur[r]][t]]
        /\ Written(r) = target[r] \cup listing[r].names
    BY <2>1 DEF IndInv, TypeOK, CommitUpsert, Written
  <2>3. ~Phantom(r) => \A t \in Tool :
           table'[cur[r]][t].status = "available" <=> t \in listing[r].names
    <3>. SUFFICES ASSUME ~Phantom(r), NEW t \in Tool
                  PROVE  table'[cur[r]][t].status = "available" <=> t \in listing[r].names
      OBVIOUS
    <3>1. table[cur[r]][t] \in [status : Status, tagged : BOOLEAN]
      BY <2>1 DEF IndInv, TypeOK
    <3>2. CASE t \in Written(r)
      BY <2>1, <2>2, <3>1, <3>2, StoredEffect
    <3>3. CASE t \notin Written(r)
      BY <2>2, <3>3 DEF Phantom
    <3>. QED  BY <3>2, <3>3
  <2>4. fresh'[cur[r]] => ~Phantom(r) /\ listing[r].names = offer[cur[r]]
    BY <2>1 DEF IndInv, TypeOK, ListedOK, Upserting, CommitUpsert
  <2>5. \A s \in Server : s # cur[r] => table'[s] = table[s] /\ fresh'[s] = fresh[s]
    BY DEF IndInv, TypeOK, CommitUpsert
  <2>6. offer' = offer /\ listing[r].names \subseteq Tool
    BY <2>1 DEF CommitUpsert
  <2>7. ASSUME NEW s \in Server, fresh'[s], s = cur[r]
        PROVE  {t \in Tool : table'[s][t].status = "available"} = offer'[s]
    BY <2>3, <2>4, <2>6, <2>7
  <2>8. ASSUME NEW s \in Server, fresh'[s], s # cur[r]
        PROVE  {t \in Tool : table'[s][t].status = "available"} = offer'[s]
    BY <2>5, <2>6, <2>8 DEF IndInv, RowsFollowServer
  <2>. QED  BY <2>7, <2>8 DEF RowsFollowServer
<1>. QED  BY <1>1, <1>2, <1>3, <1>4, <1>5, <1>6 DEF IndInv

\* A listing cannot be stored.
LEMMA UpsertRaisesStep ==
  ASSUME NEW r \in Request, IndInv, UpsertRaises(r)
  PROVE  IndInv'
<1>1. TypeOK'
  <2>1. RequestTypes'
    <3>1. RequestTypes
      BY TypeHalves DEF IndInv
    <3>. QED  BY <3>1, NextServerTypes DEF UpsertRaises, RequestTypes
  <2>2. StoreTypes'
    BY TypeHalves DEF IndInv, StoreTypes, Cached, UpsertRaises
  <2>. QED  BY <2>1, <2>2, TypeHalvesNext
<1>2. OwesOK'
  BY DEF IndInv, UpsertRaises, NextServer, Goto, OwesOK, Upserting, TypeOK
<1>3. GotOK'
  BY RowsSame DEF IndInv, UpsertRaises, NextServer, Goto, GotOK, TypeOK
<1>4. ListedOK'
  BY DEF IndInv, UpsertRaises, NextServer, Goto, ListedOK, Upserting, TypeOK
<1>5. OrgListFollowsTable'
  BY RowsSame DEF IndInv, UpsertRaises, NextServer, Goto, OrgListFollowsTable, Stale,
         Cached, OwesOK, Upserting, TypeOK, Key
<1>6. RowsFollowServer'
  BY DEF IndInv, UpsertRaises, NextServer, Goto, RowsFollowServer, TypeOK
<1>. QED  BY <1>1, <1>2, <1>3, <1>4, <1>5, <1>6 DEF IndInv

\* A discovery deletes the org list.
LEMMA InvalidateStep ==
  ASSUME NEW r \in Request, IndInv, Invalidate(r)
  PROVE  IndInv'
<1>1. TypeOK'
  <2>1. RequestTypes'
    BY TypeHalves, OverTypes DEF IndInv, Invalidate
  <2>2. StoreTypes'
    BY TypeHalves DEF IndInv, Invalidate, StoreTypes, Cached, Key
  <2>. QED  BY <2>1, <2>2, TypeHalvesNext
<1>2. OwesOK'
  BY DEF IndInv, Invalidate, Over, Goto, OwesOK, Upserting, TypeOK
<1>3. GotOK'
  BY RowsSame DEF IndInv, Invalidate, Over, Goto, GotOK, TypeOK
<1>4. ListedOK'
  BY DEF IndInv, Invalidate, Over, Goto, ListedOK, Upserting, TypeOK
<1>5. OrgListFollowsTable'
  BY RowsSame DEF IndInv, Invalidate, Over, Goto, OrgListFollowsTable, Stale, Cached,
         OwesOK, Upserting, TypeOK, Key
<1>6. RowsFollowServer'
  BY DEF IndInv, Invalidate, Over, Goto, RowsFollowServer, TypeOK
<1>. QED  BY <1>1, <1>2, <1>3, <1>4, <1>5, <1>6 DEF IndInv

\* The deletion of the org list fails.
LEMMA InvalidateRaisesStep ==
  ASSUME NEW r \in Request, IndInv, InvalidateRaises(r)
  PROVE  IndInv'
<1>1. TypeOK'
  <2>1. RequestTypes'
    BY TypeHalves, OverTypes DEF IndInv, InvalidateRaises
  <2>2. StoreTypes'
    BY TypeHalves DEF IndInv, InvalidateRaises, StoreTypes, Cached, Key
  <2>. QED  BY <2>1, <2>2, TypeHalvesNext
<1>2. OwesOK'
  BY DEF IndInv, InvalidateRaises, Over, Goto, OwesOK, Upserting, TypeOK
<1>3. GotOK'
  BY RowsSame DEF IndInv, InvalidateRaises, Over, Goto, GotOK, TypeOK
<1>4. ListedOK'
  BY DEF IndInv, InvalidateRaises, Over, Goto, ListedOK, Upserting, TypeOK
<1>5. OrgListFollowsTable'
  BY RowsSame DEF IndInv, InvalidateRaises, Over, Goto, OrgListFollowsTable, Stale,
         Cached, OwesOK, Upserting, TypeOK, Key
<1>6. RowsFollowServer'
  BY DEF IndInv, InvalidateRaises, Over, Goto, RowsFollowServer, TypeOK
<1>. QED  BY <1>1, <1>2, <1>3, <1>4, <1>5, <1>6 DEF IndInv

\* A server is deleted, and its tools.
LEMMA DeleteServerStep ==
  ASSUME NEW r \in Request, NEW s \in Server, IndInv, DeleteServer(r, s)
  PROVE  IndInv'
<1>1. TypeOK'
  <2>1. RequestTypes'
    <3>1. RequestTypes
      BY TypeHalves DEF IndInv
    <3>. QED  BY <3>1, CommittedTypes DEF DeleteServer, RequestTypes, Goto, Pc, Upserting
  <2>2. StoreTypes'
    <3>1. Absent \in [status : Status, tagged : BOOLEAN]
      BY DEF Absent, Status
    <3>2. table' \in [Server -> [Tool -> [status : Status, tagged : BOOLEAN]]]
      BY <3>1 DEF IndInv, TypeOK, DeleteServer
    <3>. QED  BY <3>2, TypeHalves DEF IndInv, StoreTypes, Cached, DeleteServer
  <2>. QED  BY <2>1, <2>2, TypeHalvesNext
<1>2. OwesOK'
  BY DEF IndInv, DeleteServer, Goto, Committed, OwesOK, Upserting, TypeOK
<1>3. GotOK'
  BY RowsSame DEF IndInv, DeleteServer, Goto, Committed, GotOK, TypeOK
<1>4. ListedOK'
  BY DEF IndInv, DeleteServer, Goto, Committed, ListedOK, Upserting, TypeOK
<1>5. OrgListFollowsTable'
  BY RowsSame DEF IndInv, DeleteServer, Goto, Committed, OrgListFollowsTable, Stale,
         Cached, OwesOK, Upserting, TypeOK, Key
<1>6. RowsFollowServer'
  BY DEF IndInv, DeleteServer, Goto, Committed, RowsFollowServer, TypeOK
<1>. QED  BY <1>1, <1>2, <1>3, <1>4, <1>5, <1>6 DEF IndInv

\* The deletion of a server deletes the org list.
LEMMA SweepStep ==
  ASSUME NEW r \in Request, IndInv, Sweep(r)
  PROVE  IndInv'
<1>1. TypeOK'
  <2>1. RequestTypes'
    BY TypeHalves, OverTypes DEF IndInv, Sweep
  <2>2. StoreTypes'
    BY TypeHalves DEF IndInv, Sweep, Swept, StoreTypes, Cached, Key
  <2>. QED  BY <2>1, <2>2, TypeHalvesNext
<1>2. OwesOK'
  BY DEF IndInv, Sweep, Over, Goto, Swept, OwesOK, Upserting, TypeOK
<1>3. GotOK'
  BY RowsSame DEF IndInv, Sweep, Over, Goto, Swept, GotOK, TypeOK
<1>4. ListedOK'
  BY DEF IndInv, Sweep, Over, Goto, Swept, ListedOK, Upserting, TypeOK
<1>5. OrgListFollowsTable'
  BY RowsSame DEF IndInv, Sweep, Over, Goto, Swept, OrgListFollowsTable, Stale, Cached,
         OwesOK, Upserting, TypeOK, Key
<1>6. RowsFollowServer'
  BY DEF IndInv, Sweep, Over, Goto, Swept, RowsFollowServer, TypeOK
<1>. QED  BY <1>1, <1>2, <1>3, <1>4, <1>5, <1>6 DEF IndInv

\* A server gains or loses tools.
LEMMA OfferChangesStep ==
  ASSUME NEW s \in Server, IndInv, OfferChanges(s)
  PROVE  IndInv'
<1>1. TypeOK'
  <2>1. RequestTypes'
    <3>1. \A r \in Request : (old[r] \/ cur[r] = s) \in BOOLEAN
      OBVIOUS
    <3>2. old' \in [Request -> BOOLEAN]
      BY <3>1 DEF OfferChanges
    <3>. QED  BY <3>2 DEF IndInv, TypeOK, OfferChanges, RequestTypes
  <2>2. StoreTypes'
    BY OffersAssumption, OpsAssumption DEF IndInv, TypeOK, StoreTypes, Cached, OfferChanges
  <2>. QED  BY <2>1, <2>2, TypeHalvesNext
<1>2. OwesOK'
  BY DEF IndInv, OfferChanges, OwesOK, Upserting, TypeOK
<1>3. GotOK'
  BY RowsSame DEF IndInv, OfferChanges, GotOK, TypeOK
<1>4. ListedOK'
  BY DEF IndInv, OfferChanges, ListedOK, Upserting, TypeOK
<1>5. OrgListFollowsTable'
  BY RowsSame DEF IndInv, OfferChanges, OrgListFollowsTable, Stale, Cached, OwesOK,
     Upserting, TypeOK, Key
<1>6. RowsFollowServer'
  BY DEF IndInv, OfferChanges, RowsFollowServer, TypeOK
<1>. QED  BY <1>1, <1>2, <1>3, <1>4, <1>5, <1>6 DEF IndInv

\* A list runs out.
LEMMA ExpireStep ==
  ASSUME NEW k \in Key, IndInv, Expire(k)
  PROVE  IndInv'
<1>1. TypeOK'
  BY OpsAssumption DEF IndInv, Expire, requestVars, TypeOK, Cached, Key, Filter, Pc,
     Upserting
<1>2. OwesOK'
  BY DEF IndInv, Expire, requestVars, OwesOK, Upserting, TypeOK
<1>3. GotOK'
  BY RowsSame DEF IndInv, Expire, requestVars, GotOK, TypeOK
<1>4. ListedOK'
  BY DEF IndInv, Expire, requestVars, ListedOK, Upserting, TypeOK
<1>5. OrgListFollowsTable'
  BY RowsSame DEF IndInv, Expire, requestVars, OrgListFollowsTable, Stale, Cached,
         OwesOK, Upserting, TypeOK, Key
<1>6. RowsFollowServer'
  BY DEF IndInv, Expire, requestVars, RowsFollowServer, TypeOK
<1>. QED  BY <1>1, <1>2, <1>3, <1>4, <1>5, <1>6 DEF IndInv

-----------------------------------------------------------------------------
(***************************************************************************)
(* The invariant and what it implies.                                          *)
(***************************************************************************)

\* No tool has been discovered and nothing is cached.
LEMMA InitOK == Init => IndInv
<1>. SUFFICES ASSUME Init PROVE IndInv
  OBVIOUS
<1>1. TypeOK
  <2>1. RequestTypes
    BY DEF Init, RequestTypes, Pc, Upserting, Key, Filter, NoListing
  <2>2. Absent \in [status : Status, tagged : BOOLEAN]
    BY DEF Absent, Status
  <2>3. StoreTypes
    <3>1. table \in [Server -> [Tool -> [status : Status, tagged : BOOLEAN]]]
      BY <2>2 DEF Init
    <3>2. /\ DOMAIN cache = Key
          /\ \A k \in Key : ~Cached(k)
      BY DEF Init, Cached
    <3>3. /\ registered \in SUBSET Server /\ offer \in [Server -> SUBSET Tool]
          /\ ops \in 0 .. MaxOps
      BY OpsAssumption DEF Init
    <3>4. excused \in BOOLEAN /\ fresh \in [Server -> BOOLEAN]
      BY DEF Init
    <3>. QED  BY <3>1, <3>2, <3>3, <3>4 DEF StoreTypes
  <2>. QED  BY <2>1, <2>3, TypeHalves
<1>2. OwesOK /\ GotOK /\ ListedOK
  BY DEF Init, OwesOK, Upserting, GotOK, ListedOK
<1>3. OrgListFollowsTable /\ RowsFollowServer
  BY DEF Init, OrgListFollowsTable, Stale, Cached, Key, RowsFollowServer
<1>. QED  BY <1>1, <1>2, <1>3 DEF IndInv

\* A stuttering step changes nothing the invariant reads.
LEMMA StutterStep == IndInv /\ UNCHANGED vars => IndInv'
<1>. SUFFICES ASSUME IndInv, UNCHANGED vars PROVE IndInv'
  OBVIOUS
<1>1. TypeOK'
  BY DEF IndInv, TypeOK, Cached, vars, requestVars
<1>2. OwesOK' /\ GotOK' /\ ListedOK'
  BY DEF IndInv, OwesOK, Upserting, GotOK, ListedOK, Rows, vars, requestVars
<1>3. OrgListFollowsTable' /\ RowsFollowServer'
  BY DEF IndInv, OrgListFollowsTable, Stale, Cached, Rows, RowsFollowServer, vars,
         requestVars
<1>. QED  BY <1>1, <1>2, <1>3 DEF IndInv

\* Every step, and every stutter, keeps the invariant.
LEMMA NextStep == IndInv /\ [Next]_vars => IndInv'
<1>. SUFFICES ASSUME IndInv, [Next]_vars PROVE IndInv'
  OBVIOUS
<1>1. ASSUME NEW r \in Request, ListStep(r)
      PROVE  IndInv'
  BY <1>1, ListBeginStep, HitStep, MissStep, RunQueryStep, FillStep, ListRaisesStep
     DEF ListStep
<1>2. ASSUME NEW r \in Request, DiscoverStep(r)
      PROVE  IndInv'
  BY <1>2, DiscoverBeginStep, SkipServerStep, ListServerStep, UpsertNothingStep,
     UpdateStartsStep, MarkVanishedStep, InsertListedStep, CommitUpsertStep,
     UpsertRaisesStep, InvalidateStep, InvalidateRaisesStep DEF DiscoverStep
<1>3. ASSUME NEW r \in Request, UnregisterStep(r)
      PROVE  IndInv'
  BY <1>3, DeleteServerStep, SweepStep DEF UnregisterStep
<1>4. ASSUME NEW s \in Server, OfferChanges(s)
      PROVE  IndInv'
  BY <1>4, OfferChangesStep
<1>5. ASSUME NEW k \in Key, Expire(k)
      PROVE  IndInv'
  BY <1>5, ExpireStep
<1>6. CASE UNCHANGED vars
  BY <1>6, StutterStep
<1>. QED  BY <1>1, <1>2, <1>3, <1>4, <1>5, <1>6 DEF Next

\* The inductive invariant holds of every behaviour of the catalogue.
THEOREM Invariance == Spec => []IndInv
<1>1. Init => IndInv
  BY InitOK
<1>2. IndInv /\ [Next]_vars => IndInv'
  BY NextStep
<1>. QED  BY <1>1, <1>2, PTL DEF Spec

\* Every variable keeps its type; in particular no row of mcp_tools leaves the
\* statuses a listing can give it.
THEOREM TypeCorrect == Spec => []TypeOK
<1>1. IndInv => TypeOK
  BY DEF IndInv
<1>. QED  BY <1>1, Invariance, PTL

\* Whatever lists, discoveries and deletions overlap: an org list that is not what its
\* query would return is about to be deleted, was stored by an overtaken query, or
\* survived a deletion that raised.
THEOREM OrgListFollows == Spec => []OrgListFollowsTable
<1>1. IndInv => OrgListFollowsTable
  BY DEF IndInv
<1>. QED  BY <1>1, Invariance, PTL

\* The available rows of a server are what it offers, whatever transactions of other
\* discoveries overlap with the last one, unless its listing was overtaken by a change or
\* a row was committed behind its UPDATE.
THEOREM RowsFollow == Spec => []RowsFollowServer
<1>1. IndInv => RowsFollowServer
  BY DEF IndInv
<1>. QED  BY <1>1, Invariance, PTL

=============================================================================
