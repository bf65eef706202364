------------------------------ MODULE CloudSync ------------------------------
(***************************************************************************)
(* The files of the local tools and the two stores they come from: _S3Syncer       *)
(* (app/core/runtime/cloud_syncer.py) above the plugin runtime, and the requests      *)
(* that use both (app/api/legacy.py, app/api/ws/gateway.py, app/main.py).               *)
(*                                                                         *)
(* A request is a chain of blocking calls in the thread pool: a call of a tool, a        *)
(* pull from Supabase, a sync from S3, a reload.  An ETag is the hash of the content,     *)
(* so contents stand for their own ETags.  Only files that hold plugins are modelled.      *)
(***************************************************************************)
EXTENDS PluginRuntime

CONSTANTS Job,         \* what may be requested
          Change,      \* what clients may upload to or delete from the stores
          Bucket0, Supabase0, Files0,  \* the stores and the disk when the process starts
          MaxJobs,     \* bound: requests
          MaxUploads   \* bound: uploads and deletions by clients

ASSUME BoundAssumption == MaxJobs \in Nat /\ MaxUploads \in Nat

VARIABLES
  bucket,    \* the S3 bucket: the content of each file, None when it has none
  supabase,  \* the Supabase bucket
  etags,     \* .s3_etag_cache.json
  draft,     \* the copy of it the holder of _lock works on
  syncLock,  \* the holder of _S3Syncer._lock
  req,       \* per thread: where its request is, and what it holds
  jobs,      \* requests so far
  uploads,   \* uploads so far
  \* History, read by no guard:
  odd        \* the file on disk need not be what its ETag says: Supabase wrote it, the
             \* object changed after it was listed, or the ETag was not saved

syncVars == <<bucket, supabase, etags, draft, syncLock, jobs, uploads, odd>>
vars == <<pluginVars, syncVars, req>>

Kind == {"call", "legacyCall", "reload", "syncAll", "syncTool", "legacySync"}
JobType == [kind : Kind, who : User \cup {None}, file : File \cup {None}, form : Form,
            clean : BOOLEAN]

\* sync_all without arguments.
FullSync == [kind |-> "syncAll", who |-> None, file |-> None, form |-> "short",
             clean |-> FALSE]

\* calling, recalling: in call_tool_direct; pulling: in sync_tool_from_supabase;
\* listing: the bucket; waiting: for _lock; syncing: it is held; the others: in
\* reload_plugins, called by the pull, by the sync (or the client itself) or by
\* legacy_call_tool.
ReqPc == {"idle", "calling", "recalling", "pulling", "listing", "waiting",
          "syncing", "reloadPulled", "reloadSynced", "reloadLegacy"}

\* listing: what was listed, left: files still to handle, synced: files downloaded;
\* history: touched: it changed files and no reload followed, pulled: Supabase gave
\* it a good file that nobody else has changed since, calm: since the bucket was listed
\* no download has failed and nobody else has changed the bucket or the files.
Idle == [pc |-> "idle", job |-> None, listing |-> [f \in File |-> None], left |-> {},
         synced |-> {}, touched |-> FALSE, pulled |-> FALSE, calm |-> FALSE]

Stored == [File -> Content \cup {None}]

\* A key made with the category is made with the caller's own name, and what is pulled
\* or synced is found under it; a call by the short name is for anybody, with or
\* without a name of his own.
ASSUME JobAssumption ==
  /\ Job \subseteq JobType
  /\ \A j \in Job : /\ j.kind \in {"call", "legacyCall", "syncTool", "legacySync"} =>
                         j.file # None
                    /\ j.file # None /\ j.form = "category" => j.who = Owner[j.file]
                    /\ j.file # None /\ j.form = "short" /\ j.kind # "call" =>
                         j.who \in {Owner[j.file], None}
ASSUME ChangeAssumption ==
  Change \subseteq [store : {"s3", "supabase"}, file : File, content : Content \cup {None}]
ASSUME StoreAssumption == Bucket0 \in Stored /\ Supabase0 \in Stored /\ Files0 \in Stored

TypeOK ==
  /\ PluginTypeOK
  /\ bucket \in Stored /\ supabase \in Stored /\ etags \in Stored /\ draft \in Stored
  /\ syncLock \in Thread \cup {None}
  /\ req \in [Thread -> [pc : ReqPc, job : JobType \cup {None}, listing : Stored,
                         left : SUBSET File, synced : SUBSET File, touched : BOOLEAN,
                         pulled : BOOLEAN, calm : BOOLEAN]]
  /\ jobs \in 0 .. MaxJobs /\ uploads \in 0 .. MaxUploads
  /\ odd \in SUBSET File

\* The disk holds what earlier runs of the process synced.
Init ==
  /\ files = Files0
  /\ PluginInit
  /\ bucket = Bucket0 /\ supabase = Supabase0
  /\ etags = Files0 /\ draft = [f \in File |-> None]
  /\ syncLock = None
  /\ req = [t \in Thread |-> Idle]
  /\ jobs = 0 /\ uploads = 0
  /\ odd = {}

-----------------------------------------------------------------------------
\* Request t goes on as q, and the others are told of the files it changed.
Become(t, q, changed) ==
  req' = [u \in Thread |->
            IF u = t THEN q
            ELSE [req[u] EXCEPT !.calm = @ /\ changed = {},
                                !.pulled = @ /\ req[u].job.file \notin changed]]

To(t, p) == Become(t, [req[t] EXCEPT !.pc = p], {})

\* The request has answered.  Files it changed without a reload are not registered.
Answer(t) ==
  /\ Become(t, Idle, {})
  /\ suspect' = (suspect \/ req[t].touched)

StartReload(t) == loader' = [loader EXCEPT ![t].pc = "locking"]
StartCall(t, j) ==
  caller' = [caller EXCEPT ![t] = [NoCall EXCEPT !.pc = "gate", !.who = j.who,
                                                 !.file = j.file, !.form = j.form]]

Start(t, j, p) ==
  /\ req[t].pc = "idle" /\ jobs < MaxJobs
  /\ jobs' = jobs + 1
  /\ Become(t, [Idle EXCEPT !.job = j, !.pc = p], {})
  /\ UNCHANGED <<files, registryVars, suspect, bucket, supabase, etags, draft, syncLock,
                 uploads, odd>>

-----------------------------------------------------------------------------
(***************************************************************************)
(* What starts a request: one action per entry point.                            *)
(***************************************************************************)

\* tools/call of the gateway; the router's _run_local makes the same call.
ToolsCall(t, j) ==
  /\ j.kind = "call"
  /\ Start(t, j, "calling") /\ StartCall(t, j) /\ UNCHANGED loader

\* POST /api/tools/{name}
LegacyCallTool(t, j) ==
  /\ j.kind = "legacyCall"
  /\ Start(t, j, "calling") /\ StartCall(t, j) /\ UNCHANGED loader

\* POST /reload-tools, and tools/reload of the gateway
ReloadTools(t, j) ==
  /\ j.kind = "reload"
  /\ Start(t, j, "reloadSynced") /\ StartReload(t) /\ UNCHANGED caller

\* The sync of the gateway; POST /sync-tools-from-s3 has no clean_first.
SyncAll(t, j) ==
  /\ j.kind = "syncAll"
  /\ Start(t, j, "listing") /\ UNCHANGED <<loader, caller>>

\* The sync of the lifespan, before any request.
StartupSync(t) ==
  /\ jobs = 0
  /\ Start(t, FullSync, "listing") /\ UNCHANGED <<loader, caller>>

\* _periodic_s3_sync.
PeriodicSync(t) ==
  /\ Start(t, FullSync, "listing") /\ UNCHANGED <<loader, caller>>

\* The single-tool sync of the gateway.
SyncTool(t, j) ==
  /\ j.kind = "syncTool"
  /\ Start(t, j, "waiting") /\ UNCHANGED <<loader, caller>>

\* POST /sync-tool: Supabase first, then S3.
LegacySyncTool(t, j) ==
  /\ j.kind = "legacySync"
  /\ Start(t, j, "pulling") /\ UNCHANGED <<loader, caller>>

StartStep(t) ==
  \/ \E j \in Job : \/ ToolsCall(t, j)
                    \/ LegacyCallTool(t, j)
                    \/ ReloadTools(t, j)
                    \/ SyncAll(t, j)
                    \/ SyncTool(t, j)
                    \/ LegacySyncTool(t, j)
  \/ StartupSync(t)
  \/ PeriodicSync(t)

-----------------------------------------------------------------------------
(***************************************************************************)
(* Tool calls, and the retry of legacy_call_tool.                                *)
(***************************************************************************)

\* The handler answers what the call gave.  It may have given up before (wait_for):
\* the thread still ends its call here, and nobody retries.
CallAnswered(t) ==
  /\ caller[t].pc = "done"
  /\ caller' = [caller EXCEPT ![t] = NoCall]
  /\ Answer(t)
  /\ UNCHANGED <<files, registryVars, loader, syncVars>>

\* "Unknown tool": look in Supabase.
CallUnknown(t) ==
  /\ req[t].pc = "calling" /\ caller[t].pc = "done"
  /\ req[t].job.kind = "legacyCall" /\ caller[t].got = "unknown" /\ caller[t].who # None
  /\ caller' = [caller EXCEPT ![t] = NoCall]
  /\ To(t, "pulling")
  /\ UNCHANGED <<files, registryVars, loader, suspect, syncVars>>

-----------------------------------------------------------------------------
(***************************************************************************)
(* sync_tool_from_supabase, under no lock.                                        *)
(***************************************************************************)

\* Mutant: legacy_call_tool is told of the file before it is loaded.
Pull_NoReload(t) ==
  LET f == req[t].job.file IN
  /\ req[t].pc = "pulling" /\ req[t].job.kind = "legacyCall" /\ supabase[f] # None
  /\ files' = [files EXCEPT ![f] = supabase[f]]
  /\ odd' = odd \cup {f}
  /\ Become(t, [req[t] EXCEPT !.pc = "recalling", !.pulled = supabase[f] \in Good], {f})
  /\ StartCall(t, req[t].job)
  /\ UNCHANGED <<registryVars, loader, suspect, bucket, supabase, etags, draft, syncLock,
                 jobs, uploads>>

\* The file is found under one of the prefixes and written.
Pull(t) ==
  LET f == req[t].job.file IN
  /\ req[t].pc = "pulling" /\ supabase[f] # None /\ req[t].job.form # "key"
  /\ files' = [files EXCEPT ![f] = supabase[f]]
  /\ odd' = odd \cup {f}
  /\ Become(t, [req[t] EXCEPT !.pc = "reloadPulled", !.touched = TRUE,
                              !.pulled = supabase[f] \in Good], {f})
  /\ StartReload(t)
  /\ UNCHANGED <<registryVars, caller, suspect, bucket, supabase, etags, draft, syncLock,
                 jobs, uploads>>

\* The second half of legacy_sync_tool is a call of sync_tool.
AtS3(q) == [Idle EXCEPT !.pc = "waiting", !.job = [q.job EXCEPT !.kind = "syncTool"]]

\* Nothing is there, or a listing or download fails, or the credentials are missing.
PullNothing(t) ==
  /\ req[t].pc = "pulling"
  /\ IF req[t].job.kind = "legacyCall"
     THEN To(t, "reloadLegacy") /\ StartReload(t)
     ELSE Become(t, AtS3(req[t]), {}) /\ UNCHANGED loader
  /\ UNCHANGED <<files, registryVars, caller, suspect, syncVars>>

-----------------------------------------------------------------------------
(***************************************************************************)
(* sync_all and sync_tool.                                                        *)
(***************************************************************************)

\* The objects whose key names the user; all of them when none is given.
InScope(j) == {f \in File : j.who # None => Owner[f] = j.who}

\* The files under the directory that clean_first removes.
ToClean(j) ==
  IF j.clean /\ j.who # None THEN {f \in InScope(j) : files[f] # None} ELSE {}

\* The whole bucket is listed before the lock is taken; then clean_first removes the
\* directory of the user, except what cannot be removed (ignore_errors).
ListBucket(t) ==
  LET q == req[t] IN
  /\ q.pc = "listing"
  /\ \E f \in File : bucket[f] # None
  /\ \E gone \in SUBSET ToClean(q.job) :
       /\ files' = [f \in File |-> IF f \in gone THEN None ELSE files[f]]
       /\ Become(t, [q EXCEPT !.pc = "waiting", !.listing = bucket, !.calm = TRUE,
                              !.touched = gone # {}], gone)
  /\ UNCHANGED <<registryVars, loader, caller, suspect, syncVars>>

\* No object at all, or S3 raises, or it is not configured (sync_tool asks that too).
ListNothing(t) ==
  /\ req[t].pc = "listing" \/ (req[t].pc = "waiting" /\ req[t].job.kind # "syncAll")
  /\ Answer(t)
  /\ UNCHANGED <<files, registryVars, loader, caller, syncVars>>

\* with self._lock: the cache file is read, and sync_tool lists its one tool.
Lock(t, listing, scope) ==
  /\ req[t].pc = "waiting" /\ syncLock = None
  /\ syncLock' = t
  /\ draft' = etags
  /\ Become(t, [req[t] EXCEPT !.pc = "syncing", !.listing = listing,
                              !.calm = @ \/ req[t].job.kind # "syncAll",
                              !.left = {f \in scope : listing[f] # None}], {})
  /\ UNCHANGED <<pluginVars, bucket, supabase, etags, jobs, uploads, odd>>

LockAll(t) ==
  /\ req[t].pc = "waiting" /\ req[t].job.kind = "syncAll"
  /\ Lock(t, req[t].listing, InScope(req[t].job))

\* lookup_user_id remembers a user it could not find as user "10", under whom the
\* listing finds nothing: any earlier failure may have left that in its cache.
LockTool(t) ==
  /\ req[t].pc = "waiting" /\ req[t].job.kind # "syncAll"
  /\ \E found \in BOOLEAN :
       Lock(t, [f \in File |-> IF f = req[t].job.file /\ found THEN bucket[f] ELSE None],
            {req[t].job.file})

\* The ETag in the cache is the listed one and the file is there.
Unchanged(t, f) == draft[f] = req[t].listing[f] /\ files[f] # None

SkipFile(t, f) ==
  /\ req[t].pc = "syncing" /\ f \in req[t].left
  /\ Unchanged(t, f)
  /\ Become(t, [req[t] EXCEPT !.left = @ \ {f}], {})
  /\ UNCHANGED <<pluginVars, syncVars>>

\* The object is fetched as it is now; the ETag that was listed is noted.
Download(t, f) ==
  LET q == req[t] IN
  /\ q.pc = "syncing" /\ f \in q.left
  /\ ~Unchanged(t, f) /\ bucket[f] # None
  /\ files' = [files EXCEPT ![f] = bucket[f]]
  /\ draft' = [draft EXCEPT ![f] = q.listing[f]]
  /\ odd' = IF bucket[f] = q.listing[f] THEN odd \ {f} ELSE odd \cup {f}
  /\ Become(t, [q EXCEPT !.left = @ \ {f}, !.synced = @ \cup {f}, !.touched = TRUE], {f})
  /\ UNCHANGED <<registryVars, loader, caller, suspect, bucket, supabase, etags, syncLock,
                 jobs, uploads>>

\* Mutant: the ETag is noted before the download is tried.
Noted_Early(t, f) == [draft EXCEPT ![f] = req[t].listing[f]]

\* The draft after a download that failed.
Noted(t, f) == draft

DownloadFails(t, f) ==
  /\ req[t].pc = "syncing" /\ f \in req[t].left
  /\ ~Unchanged(t, f)
  /\ draft' = Noted(t, f)
  /\ Become(t, [req[t] EXCEPT !.left = @ \ {f}, !.calm = FALSE], {})
  /\ UNCHANGED <<pluginVars, bucket, supabase, etags, syncLock, jobs, uploads, odd>>

\* Mutant: files of the listing are deleted with the others.
Orphans_All(t) == {f \in File : files[f] # None}

\* Files that are not among the listed objects of the scope: with a user given, the
\* files of everybody else.  sync_tool removes nothing.
Orphans(t) ==
  IF req[t].job.kind = "syncAll"
  THEN {f \in File : /\ files[f] # None
                     /\ f \in InScope(req[t].job) => req[t].listing[f] = None}
  ELSE {}

\* The prune, the save of the ETags and the end of the with statement.  A file that
\* cannot be removed stays; a save that fails is only logged.
Finish(t) ==
  LET q == req[t] IN
  /\ q.pc = "syncing" /\ q.left = {}
  /\ \E gone \in SUBSET Orphans(t) :
       /\ files' = [f \in File |-> IF f \in gone THEN None ELSE files[f]]
       /\ IF q.synced # {} \/ gone # {}
          THEN /\ Become(t, [Idle EXCEPT !.pc = "reloadSynced", !.job = q.job,
                                         !.touched = TRUE], gone)
               /\ StartReload(t)
               /\ UNCHANGED suspect
          ELSE Answer(t) /\ UNCHANGED loader
  /\ \/ etags' = draft /\ UNCHANGED odd
     \/ UNCHANGED etags /\ odd' = odd \cup q.synced
  /\ syncLock' = None
  /\ draft' = [f \in File |-> None]
  /\ UNCHANGED <<registryVars, caller, bucket, supabase, jobs, uploads>>

\* Mutant: an error leaves the lock taken.
Released_Kept == syncLock

\* The lock after an error: the with statement lets it go.
Released == None

\* A directory cannot be made, or S3 stops answering: sync_all and sync_tool report
\* the error, without a save and without a reload.
SyncRaises(t) ==
  /\ req[t].pc = "syncing"
  /\ odd' = odd \cup req[t].synced
  /\ syncLock' = Released
  /\ draft' = [f \in File |-> None]
  /\ Answer(t)
  /\ UNCHANGED <<files, registryVars, loader, caller, bucket, supabase, etags, jobs,
                 uploads>>

-----------------------------------------------------------------------------
(***************************************************************************)
(* The return of reload_plugins.                                                 *)
(***************************************************************************)
Reloaded(t) == loader[t].pc \in {"returned", "raised"}

\* The end of sync_all, sync_tool and a plain reload, whatever it returned.
ReloadEndsRequest(t) ==
  /\ Reloaded(t)
  /\ \/ req[t].pc = "reloadSynced"
     \/ req[t].pc = "reloadLegacy" /\ loader[t].pc = "raised"
  /\ loader' = [loader EXCEPT ![t] = NoLoad]
  /\ Become(t, Idle, {})
  /\ UNCHANGED <<files, registryVars, caller, suspect, syncVars>>

\* legacy_sync_tool goes on to S3.
ReloadThenS3(t) ==
  /\ Reloaded(t)
  /\ req[t].pc = "reloadPulled" /\ req[t].job.kind = "legacySync"
  /\ loader' = [loader EXCEPT ![t] = NoLoad]
  /\ Become(t, AtS3(req[t]), {})
  /\ UNCHANGED <<files, registryVars, caller, suspect, syncVars>>

\* A pull whose reload raised reports no file, so legacy_call_tool reloads again.
ReloadAgain(t) ==
  /\ loader[t].pc = "raised"
  /\ req[t].pc = "reloadPulled" /\ req[t].job.kind = "legacyCall"
  /\ StartReload(t)
  /\ To(t, "reloadLegacy")
  /\ UNCHANGED <<files, registryVars, caller, suspect, syncVars>>

ReloadThenRecall(t) ==
  /\ loader[t].pc = "returned"
  /\ req[t].pc \in {"reloadPulled", "reloadLegacy"} /\ req[t].job.kind = "legacyCall"
  /\ loader' = [loader EXCEPT ![t] = NoLoad]
  /\ StartCall(t, req[t].job)
  /\ Become(t, [req[t] EXCEPT !.pc = "recalling", !.touched = FALSE], {})
  /\ UNCHANGED <<files, registryVars, suspect, syncVars>>

-----------------------------------------------------------------------------
\* A client uploads or deletes a file in one of the stores.
Upload(c) ==
  /\ uploads < MaxUploads
  /\ uploads' = uploads + 1
  /\ \/ /\ c.store = "s3"
        /\ bucket' = [bucket EXCEPT ![c.file] = c.content]
        /\ req' = [t \in Thread |-> [req[t] EXCEPT !.calm = FALSE]]
        /\ UNCHANGED supabase
     \/ /\ c.store = "supabase"
        /\ supabase' = [supabase EXCEPT ![c.file] = c.content]
        /\ UNCHANGED <<bucket, req>>
  /\ UNCHANGED <<pluginVars, etags, draft, syncLock, jobs, odd>>

ReqStep(t) ==
  \/ CallAnswered(t)
  \/ CallUnknown(t)
  \/ Pull(t)
  \/ PullNothing(t)
  \/ ListBucket(t)
  \/ ListNothing(t)
  \/ LockAll(t)
  \/ LockTool(t)
  \/ \E f \in File : SkipFile(t, f) \/ Download(t, f) \/ DownloadFails(t, f)
  \/ Finish(t)
  \/ SyncRaises(t)
  \/ ReloadEndsRequest(t)
  \/ ReloadThenS3(t)
  \/ ReloadAgain(t)
  \/ ReloadThenRecall(t)

\* A step of the plugin runtime, which knows nothing of requests and stores.
RuntimeStep(t) ==
  /\ LoadStep(t) \/ (t \in Thread /\ CallStep(t))
  /\ UNCHANGED <<syncVars, req>>

\* Every request has been answered and the bounds are used up.
Served ==
  /\ jobs = MaxJobs /\ uploads = MaxUploads /\ BootDone
  /\ \A t \in Thread : req[t].pc = "idle"
  /\ UNCHANGED vars

Next ==
  \/ Served
  \/ \E t \in Thread : StartStep(t) \/ ReqStep(t)
  \/ \E t \in Loaders : RuntimeStep(t)
  \/ \E c \in Change : Upload(c)

Spec == Init /\ [][Next]_vars

-----------------------------------------------------------------------------
\* Nothing is loading, and no request has changed files it has yet to reload.
AtRest ==
  /\ \A t \in Loaders : ~Loading(t)
  /\ \A t \in Thread : ~req[t].touched

\* At rest the registry is the disk: the event is set, every good file is registered
\* as it is and under its name, every bad one reported, nothing else is left.  The
\* exceptions are a reload that raised or could not list data/, a sync that changed
\* files and stopped short of its reload, and a reload that ran while the boot thread
\* was loading (reload_plugins, sync_all).
RegistryFollowsDisk ==
  AtRest /\ ~suspect =>
    /\ loaded /\ builtin
    /\ \A f \in File : /\ tools[f] = IF files[f] \in Good THEN files[f] ELSE None
                       /\ files[f] \in Content \ Good => f \in errors
    /\ index = {f \in File : tools[f] # None}

\* What sync_all and sync_tool rely on when they skip a file: with the lock free, a
\* file with an ETag is the object of that ETag, unless Supabase wrote over it, the
\* object changed between its listing and its download, or the ETags were not saved.
EtagsTellTruth ==
  \A f \in File :
    syncLock = None /\ etags[f] # None /\ files[f] # None /\ f \notin odd =>
      files[f] = etags[f]

\* Files whose ETag is the listed one, so that the sync leaves them alone, although
\* something else is on the disk.
Overlooked(t) == {f \in odd : Unchanged(t, f)}

\* A sync that nothing disturbed since its listing leaves on the disk what the bucket
\* has: sync_all every file, the files that only Supabase gave removed, and sync_tool
\* its one tool, when the user id is the right one.  The exceptions are exact: an
\* orphan that could not be removed, and a file that is skipped for its ETag although
\* Supabase wrote over it since, it was downloaded after its object changed, or its
\* ETag was not saved; such a file stays wrong through every sync until its object
\* changes.
SyncMirrors ==
  [][\A t \in Thread : req[t].calm /\ Finish(t) =>
       \A f \in File :
         \/ files'[f] = bucket[f]
         \/ f \in Overlooked(t)
         \/ f \in Orphans(t) /\ bucket[f] = None
         \/ req[t].job.kind = "syncAll" /\ f \notin InScope(req[t].job)
         \/ req[t].job.kind # "syncAll" /\ req[t].listing[f] = None]_vars

\* A caller who waited for the event and whom no reload overtook gets his own tool, as
\* it is registered: the very one he named by its category or its key, never the
\* built-in one of that name (call_tool_direct).
CallsFindOwnTool ==
  \A t \in Thread : LET c == caller[t] IN
    /\ c.pc = "done" /\ ~c.overlap /\ ~suspect
    /\ tools[c.file] # None /\ c.who = Owner[c.file]
    /\ c.form = "short" => Name[c.file] \notin BuiltinName
    => /\ c.from # None /\ Name[c.from] = Name[c.file] /\ c.got = tools[c.from]
       /\ c.form # "short" => c.from = c.file

\* Nobody, named or not, ever runs the tool of another user, whichever of the three
\* ways led to it (own key, whole key, NAME_INDEX) and whatever the registry went
\* through meanwhile (the authorization check of call_tool_direct).
NobodyElsesTool ==
  \A t \in Thread : LET c == caller[t] IN
    c.pc = "done" /\ c.got \in Good => c.from # None /\ c.who = Owner[c.from]

\* The retry of legacy_call_tool: a tool that Supabase holds and that was pulled is
\* what the second call runs, as it was pulled (a built-in one, or another of his by
\* that name, comes first only when no category is given), unless another request
\* changed the file, a reload overtook the call, or one has failed or met the boot
\* thread.
RetryFindsTool ==
  \A t \in Thread : LET c == caller[t] IN
    req[t].pc = "recalling" /\ c.pc = "done" /\ req[t].pulled =>
      \/ c.from = c.file /\ c.got = files[c.file]
      \/ c.form = "short" /\ c.got \in Good \cup {"builtin"}
      \/ c.overlap \/ suspect

\* A lock is held exactly while its holder is at work, so one request syncs and one
\* reloads at a time, and no error, in a reload or a sync, leaves a lock behind for
\* everybody else to wait on (sync_all, sync_tool, reload_plugins).
LocksFollowWork ==
  \A t \in Thread : /\ syncLock = t <=> req[t].pc = "syncing"
                    /\ reloadLock = t <=> Loading(t)

\* "Delete orphans" (sync_all): a file that the prune is about to remove is no object
\* of the bucket.
OnlyOrphansGo ==
  \A t \in Thread : req[t].pc = "syncing" =>
    \A f \in Orphans(t) : req[t].listing[f] = None

=============================================================================
