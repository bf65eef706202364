--------------------------- MODULE CloudSyncProofs ---------------------------
(***************************************************************************)
(* Machine-checked proofs about CloudSync and the PluginRuntime below it: for every  *)
(* set of files, users, contents and threads, and any number of requests and of       *)
(* changes to the stores.                                                              *)
(***************************************************************************)
EXTENDS CloudSync, TLAPS

-----------------------------------------------------------------------------
(***************************************************************************)
(* The inductive invariant, first the links between the parts of a thread.        *)
(***************************************************************************)
InReload == {"reloadPulled", "reloadSynced", "reloadLegacy"}
InCall == {"calling", "recalling"}

\* A load keeps what it has visited only while it is in the directories.  The boot thread
\* takes no lock.
LoaderOK ==
  \A t \in Loaders :
    /\ loader[t].pc \notin {"visiting", "checked"} => loader[t].seen = {}
    /\ IF loader[t].pc = "checked" THEN loader[t].cur \in loader[t].seen
                                   ELSE loader[t].cur = None
    /\ t = Boot => loader[t].pc # "locking"

\* A request is in a reload or in a call exactly when its thread is, its job fits the
\* place it is at, and it notes downloads only while it syncs.
ReqAt(t) ==
  LET q == req[t] IN
    /\ q.pc \in InReload <=> loader[t].pc # "out"
    /\ q.pc \in InCall <=> caller[t].pc # "out"
    /\ q.pc \in InCall \cup {"idle", "pulling", "listing"} => ~q.touched
    /\ q.pc # "idle" => q.job \in JobType
    /\ q.pc = "listing" => q.job.kind = "syncAll"
    /\ q.pc \in InCall => q.job.kind \in {"call", "legacyCall"}
    /\ q.pc \in {"pulling", "reloadPulled"} => q.job.kind \in {"legacyCall", "legacySync"}
    /\ q.pc \in {"reloadLegacy", "recalling"} => q.job.kind = "legacyCall"
    /\ q.pc \in {"waiting", "syncing"} => q.job.kind \in {"syncAll", "syncTool"}
    /\ q.pc # "idle" /\ q.job.kind \in {"call", "legacyCall", "syncTool", "legacySync"}
         => q.job.file \in File
    /\ q.pc # "idle" /\ q.job.file # None /\ q.job.form = "category"
         => q.job.who = Owner[q.job.file]
    /\ q.pc # "idle" /\ q.job.file # None /\ q.job.form = "short" /\ q.job.kind # "call"
         => q.job.who \in {Owner[q.job.file], None}
    /\ q.pc # "syncing" => q.synced = {}
ReqOK == \A t \in Thread : ReqAt(t)

\* The call of a request is the call its job asks for.  One that waited for the event
\* and that no reload has overtaken still finds it set.
CallAt(t) ==
  LET c == caller[t] IN
    /\ c.pc # "out" => /\ c.file = req[t].job.file /\ c.file \in File
                       /\ c.who = req[t].job.who /\ c.form = req[t].job.form
    /\ c.pc \in {"own", "fetchOwn"} => c.form = "category"
    /\ c.pc \notin {"out", "gate"} /\ ~c.overlap => loaded
CallerOK == \A t \in Thread : CallAt(t)

\* NAME_INDEX lists what is in TOOLS.
IndexOK == \A f \in File : f \in index <=> tools[f] # None

(***************************************************************************)
(* Loads against changes of the files.                                            *)
(***************************************************************************)

\* Request t has changed files and its reload has not begun.
Pending(t) == req[t].touched /\ loader[t].pc \in {"out", "locking"}
SomePending == \E t \in Thread : Pending(t)
NoLoading == \A t \in Loaders : ~Loading(t)

\* The registry has file f as it is on disk.
Exact(f) == /\ tools[f] = IF files[f] \in Good THEN files[f] ELSE None
            /\ files[f] \in Content \ Good => f \in errors

\* Unless something was suspect, one thread at a time fills the registry, with the event
\* cleared.
SoleOK ==
  ~suspect =>
    /\ \A t, u \in Loaders : Loading(t) /\ Loading(u) => t = u
    /\ \A t \in Loaders : Loading(t) => ~loaded

\* It has registered what it has visited, as it is now or as it was before a change whose
\* reload is to come, and nothing else.
ProgressOK ==
  ~suspect => \A t \in Loaders : Loading(t) =>
    /\ loader[t].pc # "starting" => builtin
    /\ \A f \in File :
         IF f \in loader[t].seen /\ f # loader[t].cur THEN Exact(f) \/ SomePending
                                                      ELSE tools[f] = None

\* With no load under way the registry is complete.
RestOK ==
  ~suspect /\ NoLoading => /\ loaded /\ builtin
                           /\ SomePending \/ \A f \in File : Exact(f)

(***************************************************************************)
(* The retry of legacy_call_tool.                                                 *)
(***************************************************************************)

\* The file a request has pulled is good, as long as nobody else changes it.
PulledAt(t) ==
  LET q == req[t] IN
    /\ q.pulled => /\ q.pc \in {"reloadPulled", "reloadLegacy", "recalling"}
                   /\ files[q.job.file] \in Good /\ q.job.file \in File
                   /\ q.job.form # "key"
                   /\ q.job.kind = "legacyCall" => q.job.who # None
    /\ q.pc = "pulling" /\ q.job.kind = "legacyCall" => q.job.who # None
PulledOK == \A t \in Thread : PulledAt(t)

\* Every load from its own on registers it as it was pulled.
PulledLoads ==
  ~suspect => \A t \in Thread : req[t].pulled /\ ~Pending(t) =>
    /\ NoLoading => tools[req[t].job.file] = files[req[t].job.file]
    /\ \A u \in Loaders : /\ Loading(u) /\ req[t].job.file \in loader[u].seen
                          /\ req[t].job.file # loader[u].cur
                          => tools[req[t].job.file] = files[req[t].job.file]

\* What a call has found so far is still so, when nothing has disturbed it.
SteadyAt(t) ==
  LET c == caller[t] IN ~suspect /\ ~c.overlap =>
    /\ c.pc = "fetchOwn" => tools[c.file] # None
    /\ c.pc \in {"direct", "fetchDirect", "scan"} /\ c.form = "category"
         => tools[c.file] = None
    /\ c.pc = "fetchDirect" /\ c.form = "key" => tools[c.file] # None
    /\ c.pc = "fetchDirect" /\ c.form # "key" => builtin /\ Name[c.file] \in BuiltinName
    /\ c.pc = "scan" /\ c.form = "key" => tools[c.file] = None
SteadyOK == \A t \in Thread : SteadyAt(t)

(***************************************************************************)
(* The ETags and what a sync has done so far.                                     *)
(***************************************************************************)

\* A file is the object of its ETag in the draft of the sync under way, and in the saved
\* cache unless that sync has replaced it.
EtagOK ==
  \A f \in File : files[f] # None /\ f \notin odd =>
    /\ draft[f] # None => files[f] = draft[f]
    /\ etags[f] # None /\ (\A t \in Thread : f \notin req[t].synced) => files[f] = etags[f]

\* The listing of an undisturbed sync is what the bucket holds, and the files it has
\* handled are as listed, or were skipped for an ETag that does not tell the truth.
CalmAt(t) ==
  LET q == req[t] IN q.calm =>
    /\ q.pc \in {"waiting", "syncing"}
    /\ q.job.kind = "syncAll" => q.listing = bucket
    /\ q.pc = "waiting" => q.job.kind = "syncAll"
    /\ q.pc = "syncing" => \A f \in File :
         /\ q.listing[f] # None => q.listing[f] = bucket[f]
         /\ q.listing[f] # None /\ f \notin q.left
              /\ (q.job.kind = "syncAll" => f \in InScope(q.job))
              => files[f] = bucket[f] \/ f \in Overlooked(t)
CalmOK == \A t \in Thread : CalmAt(t)

IndInv == /\ TypeOK /\ LocksFollowWork /\ LoaderOK /\ ReqOK /\ CallerOK /\ IndexOK
          /\ SoleOK /\ ProgressOK /\ RestOK /\ PulledOK /\ PulledLoads /\ SteadyOK
          /\ EtagOK /\ CalmOK /\ CallsFindOwnTool
          /\ NobodyElsesTool /\ RetryFindsTool

-----------------------------------------------------------------------------
(***************************************************************************)
(* Types, and what a step of a request does to the others.                       *)
(***************************************************************************)
LoadType == [pc : LoaderPc, seen : SUBSET File, cur : File \cup {None}]
CallType == [pc : CallerPc, who : User \cup {None}, file : File \cup {None}, form : Form,
             got : Good \cup Failure \cup {"builtin", None}, from : File \cup {None},
             overlap : BOOLEAN]
ReqType == [pc : ReqPc, job : JobType \cup {None}, listing : Stored, left : SUBSET File,
            synced : SUBSET File, touched : BOOLEAN, pulled : BOOLEAN, calm : BOOLEAN]

\* What a step of request t, which changes the given files, does to the other requests.
Others(t, changed) ==
  \A u \in Thread \ {t} :
    /\ req'[u].pc = req[u].pc /\ req'[u].job = req[u].job
    /\ req'[u].listing = req[u].listing /\ req'[u].left = req[u].left
    /\ req'[u].synced = req[u].synced /\ req'[u].touched = req[u].touched
    /\ req'[u].calm = (req[u].calm /\ changed = {})
    /\ req'[u].pulled = (req[u].pulled /\ req[u].job.file \notin changed)

\* The end of a sync: the prune of the given files and the save of the ETags.
Finishes(t, gone) ==
  /\ req[t].pc = "syncing" /\ req[t].left = {}
  /\ files' = [f \in File |-> IF f \in gone THEN None ELSE files[f]]
  /\ \/ etags' = draft /\ UNCHANGED odd
     \/ UNCHANGED etags /\ odd' = odd \cup req[t].synced
  /\ syncLock' = None
  /\ draft' = [f \in File |-> None]
  /\ UNCHANGED <<registryVars, caller, bucket, supabase, jobs, uploads>>

\* The types in the form the steps use.
LEMMA TypeFacts ==
  ASSUME TypeOK
  PROVE  /\ files \in [File -> Content \cup {None}] /\ tools \in [File -> Good \cup {None}]
         /\ loader \in [Loaders -> LoadType] /\ caller \in [Thread -> CallType]
         /\ req \in [Thread -> ReqType] /\ draft \in Stored /\ etags \in Stored
         /\ bucket \in Stored /\ supabase \in Stored
  BY DEF TypeOK, PluginTypeOK, LoadType, CallType, ReqType

\* No thread is nobody, and no content is missing.
LEMMA LockFacts ==
  /\ \A t \in Thread : t # None /\ t # Boot /\ t \in Loaders
  /\ Boot \in Loaders
  /\ \A x \in Content : x # None
  /\ \A x \in Good : x # None /\ x \in Content
  BY AbsentAssumption, ThreadAssumption, ContentAssumption DEF Loaders

\* A step of one request.
LEMMA Becomes ==
  ASSUME TypeOK, NEW t \in Thread, NEW q \in ReqType, NEW ch, Become(t, q, ch)
  PROVE  /\ req' \in [Thread -> ReqType] /\ Others(t, ch)
         /\ req'[t] = q
<1>1. req \in [Thread -> ReqType]
  BY TypeFacts
<1>2. ASSUME NEW u \in Thread \ {t}
      PROVE  /\ req'[u] \in ReqType
             /\ req'[u].pc = req[u].pc /\ req'[u].job = req[u].job
             /\ req'[u].listing = req[u].listing /\ req'[u].left = req[u].left
             /\ req'[u].synced = req[u].synced /\ req'[u].touched = req[u].touched
             /\ req'[u].calm = (req[u].calm /\ ch = {})
             /\ req'[u].pulled = (req[u].pulled /\ req[u].job.file \notin ch)
  <2>1. req'[u] = [req[u] EXCEPT !.calm = @ /\ ch = {},
                                 !.pulled = @ /\ req[u].job.file \notin ch]
    BY DEF Become
  <2>2. req[u] \in ReqType
    BY <1>1
  <2>. QED  BY <2>1, <2>2 DEF ReqType
<1>3. req'[t] = q
  BY DEF Become
<1>4. req' = [u \in Thread |-> req'[u]]
  BY DEF Become
<1>. QED  BY <1>2, <1>3, <1>4 DEF Others

-----------------------------------------------------------------------------
(***************************************************************************)
(* A step of a request, seen from the rest.                                       *)
(***************************************************************************)

\* Request t, whose thread is not loading, changes the files ch and goes on; it may start
\* a reload or a call.  The registry stays, and a change of the files leaves a reload to
\* come or is noted as suspect.
RequestSide(t, ch) ==
  /\ Others(t, ch)
  /\ \A u \in Loaders \ {t} : loader'[u] = loader[u]
  /\ \A u \in Thread \ {t} : caller'[u] = caller[u]
  /\ \A f \in File \ ch : files'[f] = files[f]
  /\ UNCHANGED registryVars /\ (suspect => suspect')
  /\ ~Loading(t) /\ loader'[t].pc \in {"out", "locking"}
  /\ loader'[t].seen = {} /\ loader'[t].cur = None
  /\ caller'[t] = caller[t] \/ caller'[t].pc \in {"out", "gate"}
  /\ req'[t].pc = "recalling" => caller'[t].pc \in {"out", "gate"}
  /\ suspect' \/ Pending(t)' \/ (files' = files /\ ~Pending(t))
  /\ req'[t].pulled /\ ~Pending(t)' => req[t].pulled /\ ~Pending(t) /\ req'[t].job = req[t].job
  /\ syncLock' = t <=> req'[t].pc = "syncing"
  /\ syncLock' = syncLock \/ {syncLock, syncLock'} \subseteq {t, None}
  /\ ReqAt(t)' /\ CallAt(t)' /\ PulledAt(t)'

\* The loads under way are the same before and after it, and where they are.
LEMMA SameLoads ==
  ASSUME NEW t \in Thread, NEW ch, RequestSide(t, ch)
  PROVE  /\ \A u \in Loaders : Loading(u)' <=> Loading(u)
         /\ \A u \in Loaders : Loading(u) => loader'[u] = loader[u]
         /\ NoLoading' <=> NoLoading
<1>1. ASSUME NEW u \in Loaders
      PROVE  (Loading(u)' <=> Loading(u)) /\ (Loading(u) => loader'[u] = loader[u])
  BY DEF RequestSide, Loading
<1>. QED  BY <1>1 DEF NoLoading

\* A change of the files is followed by a reload or noted.
LEMMA PendingKept ==
  ASSUME NEW t \in Thread, NEW ch, RequestSide(t, ch)
  PROVE  suspect' \/ SomePending' \/ (files' = files /\ ~SomePending)
<1>1. ASSUME NEW u \in Thread \ {t}
      PROVE  Pending(u)' <=> Pending(u)
  BY LockFacts DEF RequestSide, Others, Pending
<1>2. CASE Pending(t)'
  BY <1>2 DEF SomePending
<1>3. CASE files' = files /\ ~Pending(t)
  BY <1>1, <1>3 DEF SomePending
<1>. QED  BY <1>2, <1>3 DEF RequestSide

\* The links inside the other threads.
LEMMA OtherThreads ==
  ASSUME NEW t \in Thread, NEW ch, RequestSide(t, ch), IndInv
  PROVE  LocksFollowWork' /\ LoaderOK' /\ ReqOK' /\ CallerOK' /\ PulledOK'
<1>. USE LockFacts
<1>1. ASSUME NEW u \in Thread
      PROVE  (syncLock' = u <=> req'[u].pc = "syncing") /\ (reloadLock' = u <=> Loading(u)')
  <2>1. reloadLock' = u <=> Loading(u)'
    BY SameLoads DEF RequestSide, registryVars, IndInv, LocksFollowWork
  <2>2. CASE u = t
    BY <2>1, <2>2 DEF RequestSide
  <2>3. CASE u # t
    BY <2>1, <2>3 DEF RequestSide, Others, IndInv, LocksFollowWork
  <2>. QED  BY <2>2, <2>3
<1>2. LoaderOK'
  BY DEF RequestSide, IndInv, LoaderOK
<1>3. ASSUME NEW u \in Thread
      PROVE  ReqAt(u)' /\ CallAt(u)' /\ PulledAt(u)'
  <2>1. CASE u = t
    BY <2>1 DEF RequestSide
  <2>2. ASSUME u # t
        PROVE  /\ req'[u].pc = req[u].pc /\ req'[u].job = req[u].job
               /\ req'[u].touched = req[u].touched /\ req'[u].synced = req[u].synced
               /\ loader'[u] = loader[u] /\ caller'[u] = caller[u] /\ loaded' = loaded
               /\ req'[u].pulled => req[u].pulled /\ req[u].job.file \notin ch
    BY <2>2 DEF RequestSide, Others, registryVars
  <2>3. ReqAt(u) /\ CallAt(u) /\ PulledAt(u)
    BY DEF IndInv, ReqOK, CallerOK, PulledOK
  <2>4. CASE u # t
    <3>1. ReqAt(u)'
      BY <2>2, <2>3, <2>4 DEF ReqAt
    <3>2. CallAt(u)'
      BY <2>2, <2>3, <2>4 DEF CallAt
    <3>3. PulledAt(u)'
      BY <2>2, <2>3, <2>4 DEF PulledAt, RequestSide
    <3>. QED  BY <3>1, <3>2, <3>3
  <2>. QED  BY <2>1, <2>4
<1>. QED  BY <1>1, <1>2, <1>3 DEF LocksFollowWork, ReqOK, CallerOK, PulledOK

\* The registry and the loads under way.
LEMMA RegistryStays ==
  ASSUME NEW t \in Thread, NEW ch, RequestSide(t, ch), IndInv
  PROVE  IndexOK' /\ SoleOK' /\ ProgressOK' /\ RestOK' /\ PulledLoads'
<1>1. /\ tools' = tools /\ builtin' = builtin /\ index' = index /\ errors' = errors
      /\ loaded' = loaded /\ (~suspect' => ~suspect)
  BY DEF RequestSide, registryVars
<1>2. IndexOK'
  BY <1>1 DEF IndInv, IndexOK
<1>3. SoleOK'
  BY <1>1, SameLoads DEF IndInv, SoleOK
<1>4. ASSUME ~suspect'
      PROVE  /\ SomePending => SomePending'
             /\ \A f \in File : Exact(f) => Exact(f)' \/ SomePending'
  BY <1>1, <1>4, PendingKept DEF Exact
<1>5. ProgressOK'
  <2>1. SUFFICES ASSUME ~suspect', NEW u \in Loaders, Loading(u)'
                 PROVE  /\ loader'[u].pc # "starting" => builtin'
                        /\ \A f \in File :
                             IF f \in loader'[u].seen /\ f # loader'[u].cur
                             THEN Exact(f)' \/ SomePending' ELSE tools'[f] = None
    BY DEF ProgressOK
  <2>2. Loading(u) /\ loader'[u] = loader[u] /\ ~suspect
    BY <1>1, <2>1, SameLoads
  <2>. QED  BY <1>1, <1>4, <2>1, <2>2 DEF IndInv, ProgressOK
<1>6. RestOK'
  <2>1. SUFFICES ASSUME ~suspect', NoLoading'
                 PROVE  loaded' /\ builtin' /\ (SomePending' \/ \A f \in File : Exact(f)')
    BY DEF RestOK
  <2>2. NoLoading /\ ~suspect
    BY <1>1, <2>1, SameLoads
  <2>. QED  BY <1>1, <1>4, <2>1, <2>2 DEF IndInv, RestOK
<1>7. PulledLoads'
  <2>1. SUFFICES ASSUME ~suspect', NEW u \in Thread, req'[u].pulled, ~Pending(u)'
                 PROVE  /\ NoLoading' => tools'[req'[u].job.file] = files'[req'[u].job.file]
                        /\ \A v \in Loaders :
                             /\ Loading(v)' /\ req'[u].job.file \in loader'[v].seen
                             /\ req'[u].job.file # loader'[v].cur
                             => tools'[req'[u].job.file] = files'[req'[u].job.file]
    BY DEF PulledLoads
  <2>2. /\ req[u].pulled /\ ~Pending(u) /\ req'[u].job = req[u].job
        /\ files'[req[u].job.file] = files[req[u].job.file]
    <3>1. CASE u = t
      BY <2>1, <3>1 DEF RequestSide
    <3>2. CASE u # t
      <4>1. req[u].pulled /\ req[u].job.file \notin ch /\ req'[u].job = req[u].job
        BY <2>1, <3>2 DEF RequestSide, Others
      <4>2. req[u].job.file \in File
        BY <4>1 DEF IndInv, PulledOK, PulledAt
      <4>. QED  BY <2>1, <3>2, <4>1, <4>2, LockFacts DEF RequestSide, Others, Pending
    <3>. QED  BY <3>1, <3>2
  <2>. QED  BY <1>1, <2>1, <2>2, SameLoads DEF IndInv, PulledLoads
<1>. QED  BY <1>2, <1>3, <1>5, <1>6, <1>7

\* What callers have found.
LEMMA CallersStay ==
  ASSUME NEW t \in Thread, NEW ch, RequestSide(t, ch), IndInv
  PROVE  SteadyOK' /\ CallsFindOwnTool' /\ NobodyElsesTool' /\ RetryFindsTool'
<1>1. tools' = tools /\ builtin' = builtin /\ (~suspect' => ~suspect)
  BY DEF RequestSide, registryVars
<1>2. ASSUME NEW u \in Thread
      PROVE  caller'[u] = caller[u] \/ caller'[u].pc \in {"out", "gate"}
  BY DEF RequestSide
<1>3. ASSUME NEW u \in Thread
      PROVE  SteadyAt(u)'
  <2>1. CASE caller'[u] = caller[u]
    BY <1>1, <2>1 DEF IndInv, SteadyOK, SteadyAt
  <2>2. CASE caller'[u].pc \in {"out", "gate"}
    BY <2>2 DEF SteadyAt
  <2>. QED  BY <1>2, <2>1, <2>2
<1>4. CallsFindOwnTool' /\ NobodyElsesTool'
  <2>1. SUFFICES ASSUME NEW u \in Thread, caller'[u].pc = "done"
                 PROVE  caller'[u] = caller[u]
    BY <1>1 DEF IndInv, CallsFindOwnTool, NobodyElsesTool
  <2>. QED  BY <1>2, <2>1
<1>5. RetryFindsTool'
  <2>1. SUFFICES ASSUME NEW u \in Thread, req'[u].pc = "recalling", caller'[u].pc = "done",
                        req'[u].pulled
                 PROVE  /\ caller'[u] = caller[u] /\ req[u].pc = "recalling" /\ req[u].pulled
                        /\ files'[caller[u].file] = files[caller[u].file]
    BY <1>1 DEF IndInv, RetryFindsTool
  <2>2. u # t
    BY <2>1 DEF RequestSide
  <2>3. /\ caller'[u] = caller[u] /\ req[u].pc = "recalling" /\ req[u].pulled
        /\ req[u].job.file \notin ch
    BY <2>1, <2>2 DEF RequestSide, Others
  <2>4. caller[u].file = req[u].job.file /\ caller[u].file \in File
    BY <2>1, <2>3 DEF IndInv, CallerOK, CallAt
  <2>. QED  BY <2>3, <2>4 DEF RequestSide
<1>. QED  BY <1>3, <1>4, <1>5 DEF SteadyOK

\* So a step of a request has only its files, its ETags and its listing to account for.
LEMMA RequestKeeps ==
  ASSUME NEW t \in Thread, NEW ch, RequestSide(t, ch), IndInv, TypeOK', EtagOK', CalmOK'
  PROVE  IndInv'
  BY OtherThreads, RegistryStays, CallersStay DEF IndInv

\* The listings of the others.
LEMMA CalmKept ==
  ASSUME NEW t \in Thread, NEW ch, RequestSide(t, ch), IndInv, bucket' = bucket,
         ch = {} => odd \subseteq odd', draft' = draft \/ syncLock \in {t, None}, CalmAt(t)'
  PROVE  CalmOK'
<1>1. ASSUME NEW u \in Thread \ {t}
      PROVE  CalmAt(u)'
  <2>1. SUFFICES ASSUME req'[u].calm
                 PROVE  CalmAt(u)'
    BY DEF CalmAt
  <2>2. /\ req'[u].pc = req[u].pc /\ req'[u].job = req[u].job
        /\ req'[u].listing = req[u].listing /\ req'[u].left = req[u].left
        /\ req[u].calm /\ ch = {}
    BY <2>1 DEF RequestSide, Others
  <2>3. (\A f \in File : files'[f] = files[f]) /\ odd \subseteq odd'
    BY <2>2 DEF RequestSide
  <2>4. CalmAt(u)
    BY DEF IndInv, CalmOK
  <2>5. req[u].pc = "syncing" => draft' = draft
    BY LockFacts DEF IndInv, LocksFollowWork
  <2>6. req[u].pc = "syncing" => Overlooked(u) \subseteq Overlooked(u)'
    BY <2>2, <2>3, <2>5 DEF Overlooked, Unchanged, IndInv, TypeOK
  <2>. QED  BY <2>2, <2>3, <2>4, <2>6 DEF CalmAt
<1>. QED  BY <1>1 DEF CalmOK

\* The ETags, when neither they nor the files change.
LEMMA EtagsKept ==
  ASSUME NEW t \in Thread, NEW ch, RequestSide(t, ch), IndInv, files' = files,
         etags' = etags, draft' \in {draft, [f \in File |-> None]}, odd \subseteq odd',
         req[t].synced \subseteq req'[t].synced \cup odd'
  PROVE  EtagOK'
<1>1. SUFFICES ASSUME NEW f \in File, files[f] # None, f \notin odd'
               PROVE  /\ draft'[f] # None => files[f] = draft'[f]
                      /\ etags[f] # None /\ (\A u \in Thread : f \notin req'[u].synced)
                           => files[f] = etags[f]
  BY DEF EtagOK
<1>2. f \notin odd
  BY <1>1
<1>3. draft'[f] # None => files[f] = draft'[f]
  BY <1>1, <1>2 DEF IndInv, EtagOK
<1>4. ASSUME \A u \in Thread : f \notin req'[u].synced
      PROVE  \A u \in Thread : f \notin req[u].synced
  BY <1>1, <1>4 DEF RequestSide, Others
<1>. QED  BY <1>1, <1>2, <1>3, <1>4 DEF IndInv, EtagOK

\* The types of a step that leaves the registry alone.
LEMMA TypesKept ==
  ASSUME TypeOK, UNCHANGED registryVars, suspect' \in BOOLEAN, files' \in Stored,
         loader' \in [Loaders -> LoadType], caller' \in [Thread -> CallType],
         req' \in [Thread -> ReqType], bucket' \in Stored, supabase' \in Stored,
         etags' \in Stored, draft' \in Stored, syncLock' \in Thread \cup {None},
         jobs' \in 0 .. MaxJobs, uploads' \in 0 .. MaxUploads, odd' \in SUBSET File
  PROVE  TypeOK'
  BY DEF TypeOK, PluginTypeOK, Stored, LoadType, CallType, ReqType, registryVars

-----------------------------------------------------------------------------
(***************************************************************************)
(* The loads and the calls that a request starts and ends.                       *)
(***************************************************************************)
LoaderSide(t) ==
  /\ loader' \in [Loaders -> LoadType]
  /\ \A u \in Loaders \ {t} : loader'[u] = loader[u]
  /\ ~Loading(t) /\ loader'[t].seen = {} /\ loader'[t].cur = None

CallerSide(t) ==
  /\ caller' \in [Thread -> CallType]
  /\ \A u \in Thread \ {t} : caller'[u] = caller[u]

\* A request outside reload_plugins.
LEMMA NoReload ==
  ASSUME IndInv, NEW t \in Thread, req[t].pc \notin InReload, UNCHANGED loader
  PROVE  LoaderSide(t) /\ loader[t].pc = "out" /\ loader'[t].pc = "out"
<1>1. loader[t].pc = "out"
  BY DEF IndInv, ReqOK, ReqAt
<1>. QED  BY <1>1, LockFacts, TypeFacts DEF IndInv, LoaderOK, LoaderSide, Loading

\* A request calls reload_plugins.
LEMMA StartsReload ==
  ASSUME IndInv, NEW t \in Thread, StartReload(t), loader[t].pc \in {"out", "raised"}
  PROVE  LoaderSide(t) /\ loader'[t].pc = "locking"
<1>1. loader \in [Loaders -> LoadType] /\ t \in Loaders
  BY LockFacts, TypeFacts DEF IndInv
<1>2. loader' = [loader EXCEPT ![t] = [loader[t] EXCEPT !.pc = "locking"]]
  BY <1>1 DEF StartReload
<1>3. [loader[t] EXCEPT !.pc = "locking"] \in LoadType
  BY <1>1 DEF LoadType, LoaderPc
<1>4. loader[t].seen = {} /\ loader[t].cur = None
  BY <1>1 DEF IndInv, LoaderOK
<1>5. loader'[t] = [loader[t] EXCEPT !.pc = "locking"]
  BY <1>1, <1>2
<1>6. loader'[t].pc = "locking" /\ loader'[t].seen = {} /\ loader'[t].cur = None
  BY <1>1, <1>4, <1>5 DEF LoadType
<1>. QED  BY <1>1, <1>2, <1>3, <1>6 DEF LoaderSide, Loading

\* A request gets the answer of reload_plugins.
LEMMA EndsReload ==
  ASSUME IndInv, NEW t \in Thread, loader[t].pc \in {"returned", "raised"},
         loader' = [loader EXCEPT ![t] = NoLoad]
  PROVE  LoaderSide(t) /\ loader'[t].pc = "out"
<1>1. loader \in [Loaders -> LoadType] /\ t \in Loaders
  BY LockFacts, TypeFacts DEF IndInv
<1>2. NoLoad \in LoadType
  BY DEF NoLoad, LoadType, LoaderPc
<1>3. loader'[t] = NoLoad
  BY <1>1
<1>4. loader'[t].pc = "out" /\ loader'[t].seen = {} /\ loader'[t].cur = None
  BY <1>3 DEF NoLoad
<1>. QED  BY <1>1, <1>2, <1>4 DEF LoaderSide, Loading

\* A request outside call_tool_direct.
LEMMA NotCalling ==
  ASSUME IndInv, NEW t \in Thread, req[t].pc \notin InCall, UNCHANGED caller
  PROVE  CallerSide(t) /\ caller'[t] = caller[t] /\ caller'[t].pc = "out"
  BY TypeFacts DEF IndInv, ReqOK, ReqAt, CallerSide

\* A request calls call_tool_direct.
LEMMA StartsCall ==
  ASSUME IndInv, NEW t \in Thread, NEW j \in JobType, StartCall(t, j)
  PROVE  /\ CallerSide(t) /\ caller'[t].pc = "gate" /\ caller'[t].file = j.file
         /\ caller'[t].who = j.who /\ caller'[t].form = j.form
<1>1. caller \in [Thread -> CallType]
  BY TypeFacts DEF IndInv
<1>. DEFINE c == [NoCall EXCEPT !.pc = "gate", !.who = j.who, !.file = j.file, !.form = j.form]
<1>2. NoCall \in CallType
  BY DEF NoCall, CallType, CallerPc, Form
<1>3. /\ c \in CallType
      /\ c.pc = "gate" /\ c.who = j.who /\ c.file = j.file /\ c.form = j.form
  BY <1>2 DEF CallType, CallerPc, JobType
<1>4. caller' = [caller EXCEPT ![t] = c]
  BY DEF StartCall
<1>. QED  BY <1>1, <1>2, <1>3, <1>4 DEF CallerSide

\* A request gets the answer of call_tool_direct.
LEMMA EndsCall ==
  ASSUME IndInv, NEW t \in Thread, caller' = [caller EXCEPT ![t] = NoCall]
  PROVE  CallerSide(t) /\ caller'[t].pc = "out"
<1>1. caller \in [Thread -> CallType]
  BY TypeFacts DEF IndInv
<1>2. NoCall \in CallType
  BY DEF NoCall, CallType, CallerPc, Form
<1>. QED  BY <1>1, <1>2 DEF CallerSide, NoCall

\* A request that is over.
LEMMA IdleType ==
  /\ Idle \in ReqType /\ Idle.pc = "idle" /\ Idle.job = None
  /\ Idle.listing = [f \in File |-> None] /\ Idle.left = {} /\ Idle.synced = {}
  /\ Idle.touched = FALSE /\ Idle.pulled = FALSE /\ Idle.calm = FALSE
<1>1. [f \in File |-> None] \in Stored
  BY DEF Stored
<1>. QED  BY <1>1 DEF Idle, ReqType, ReqPc

\* What is requested is a job of the server.
LEMMA JobFacts ==
  ASSUME NEW j \in Job \cup {FullSync}
  PROVE  /\ j \in JobType
         /\ j.kind \in {"call", "legacyCall", "syncTool", "legacySync"} => j.file \in File
         /\ j.file # None /\ j.form = "category" => j.who = Owner[j.file]
         /\ j.file # None /\ j.form = "short" /\ j.kind # "call"
              => j.who \in {Owner[j.file], None}
<1>1. CASE j \in Job
  <2>1. j \in JobType
    BY <1>1, JobAssumption
  <2>2. j.file \in File \cup {None}
    BY <2>1 DEF JobType
  <2>. QED  BY <1>1, <2>1, <2>2, JobAssumption
<1>2. CASE j = FullSync
  BY <1>2 DEF FullSync, JobType, Kind, Form
<1>. QED  BY <1>1, <1>2

-----------------------------------------------------------------------------
(***************************************************************************)
(* The steps of the requests.                                                     *)
(***************************************************************************)

\* A request that calls a tool.
LEMMA BeginCallStep ==
  ASSUME NEW t \in Thread, NEW j \in Job, IndInv, j.kind \in {"call", "legacyCall"},
         Start(t, j, "calling"), StartCall(t, j), UNCHANGED loader
  PROVE  IndInv'
<1>1. /\ req[t].pc = "idle" /\ jobs < MaxJobs /\ jobs' = jobs + 1
      /\ Become(t, [Idle EXCEPT !.job = j, !.pc = "calling"], {})
      /\ UNCHANGED <<files, registryVars, loader, suspect, bucket, supabase, etags, draft,
                     syncLock, uploads, odd>>
      /\ j \in JobType /\ j.file \in File
  BY JobFacts DEF Start
<1>2. /\ req[t] \in ReqType /\ ReqAt(t) /\ PulledAt(t) /\ TypeOK
      /\ syncLock = t <=> req[t].pc = "syncing"
  BY TypeFacts DEF IndInv, ReqOK, PulledOK, LocksFollowWork
<1>3. LoaderSide(t) /\ loader[t].pc = "out" /\ loader'[t].pc = "out"
  BY <1>1, <1>2, NoReload DEF InReload
<1>4. /\ CallerSide(t) /\ caller'[t].pc = "gate" /\ caller'[t].file = j.file
      /\ caller'[t].who = j.who /\ caller'[t].form = j.form
  BY <1>1, <1>2, StartsCall
<1>5. /\ req' \in [Thread -> ReqType] /\ Others(t, {})
      /\ req'[t] = [Idle EXCEPT !.job = j, !.pc = "calling"]
  <2>1. [Idle EXCEPT !.job = j, !.pc = "calling"] \in ReqType
    BY <1>1, IdleType DEF ReqType, ReqPc
  <2>. QED  BY <1>1, <1>2, <2>1, Becomes
<1>6. /\ req'[t].pc = "calling" /\ req'[t].job = j
      /\ req'[t].listing = [f \in File |-> None] /\ req'[t].left = {}
      /\ req'[t].synced = {} /\ req'[t].touched = FALSE /\ req'[t].pulled = FALSE
      /\ req'[t].calm = FALSE
  BY <1>1, <1>5, IdleType DEF ReqType
<1>7. RequestSide(t, {})
  <2>1. ReqAt(t)'
    BY <1>1, <1>2, <1>3, <1>4, <1>6, JobFacts DEF ReqAt, InReload, InCall
  <2>2. CallAt(t)' /\ PulledAt(t)'
    BY <1>1, <1>2, <1>4, <1>6 DEF CallAt, PulledAt
  <2>3. suspect' \/ Pending(t)' \/ (files' = files /\ ~Pending(t))
    BY <1>1, <1>2, <1>3, <1>6 DEF Pending, ReqAt, InReload
  <2>4. req'[t].pulled /\ ~Pending(t)' =>
          req[t].pulled /\ ~Pending(t) /\ req'[t].job = req[t].job
    BY <1>1, <1>2, <1>3, <1>6 DEF Pending, ReqAt, InReload, PulledAt
  <2>. QED  BY <1>1, <1>2, <1>3, <1>4, <1>5, <1>6, <2>1, <2>2, <2>3, <2>4, LockFacts
            DEF RequestSide, LoaderSide, CallerSide
<1>8. TypeOK'
  BY <1>1, <1>2, <1>3, <1>4, <1>5, TypesKept, BoundAssumption DEF TypeOK, PluginTypeOK,
         Stored, registryVars, LoaderSide, CallerSide
<1>9. EtagOK'
  BY <1>1, <1>2, <1>6, <1>7, EtagsKept DEF ReqAt
<1>10. CalmOK'
  <2>1. CalmAt(t)'
    BY <1>6 DEF CalmAt
  <2>. QED  BY <1>1, <1>2, <1>7, <2>1, CalmKept
<1>. QED  BY <1>7, <1>8, <1>9, <1>10, RequestKeeps

\* A request to reload.
LEMMA BeginReloadStep ==
  ASSUME NEW t \in Thread, NEW j \in Job, IndInv, j.kind = "reload",
         Start(t, j, "reloadSynced"), StartReload(t), UNCHANGED caller
  PROVE  IndInv'
<1>1. /\ req[t].pc = "idle" /\ jobs < MaxJobs /\ jobs' = jobs + 1
      /\ Become(t, [Idle EXCEPT !.job = j, !.pc = "reloadSynced"], {})
      /\ UNCHANGED <<files, registryVars, caller, suspect, bucket, supabase, etags, draft,
                     syncLock, uploads, odd>>
      /\ j \in JobType
  BY JobFacts DEF Start
<1>2. /\ req[t] \in ReqType /\ ReqAt(t) /\ PulledAt(t) /\ TypeOK
      /\ syncLock = t <=> req[t].pc = "syncing"
  BY TypeFacts DEF IndInv, ReqOK, PulledOK, LocksFollowWork
<1>3. LoaderSide(t) /\ loader'[t].pc = "locking"
  BY <1>1, <1>2, StartsReload DEF ReqAt, InReload
<1>4. CallerSide(t) /\ caller'[t] = caller[t] /\ caller'[t].pc = "out"
  BY <1>1, NotCalling DEF InCall
<1>5. /\ req' \in [Thread -> ReqType] /\ Others(t, {})
      /\ req'[t] = [Idle EXCEPT !.job = j, !.pc = "reloadSynced"]
  <2>1. [Idle EXCEPT !.job = j, !.pc = "reloadSynced"] \in ReqType
    BY <1>1, IdleType DEF ReqType, ReqPc
  <2>. QED  BY <1>1, <1>2, <2>1, Becomes
<1>6. /\ req'[t].pc = "reloadSynced" /\ req'[t].job = j
      /\ req'[t].listing = [f \in File |-> None] /\ req'[t].left = {}
      /\ req'[t].synced = {} /\ req'[t].touched = FALSE /\ req'[t].pulled = FALSE
      /\ req'[t].calm = FALSE
  BY <1>1, <1>5, IdleType DEF ReqType
<1>7. RequestSide(t, {})
  <2>1. ReqAt(t)'
    BY <1>1, <1>2, <1>3, <1>4, <1>6, JobFacts DEF ReqAt, InReload, InCall
  <2>2. CallAt(t)' /\ PulledAt(t)'
    BY <1>1, <1>2, <1>4, <1>6 DEF CallAt, PulledAt
  <2>3. suspect' \/ Pending(t)' \/ (files' = files /\ ~Pending(t))
    BY <1>1, <1>2, <1>3, <1>6 DEF Pending, ReqAt, InReload
  <2>4. req'[t].pulled /\ ~Pending(t)' =>
          req[t].pulled /\ ~Pending(t) /\ req'[t].job = req[t].job
    BY <1>1, <1>2, <1>3, <1>6 DEF Pending, ReqAt, InReload, PulledAt
  <2>. QED  BY <1>1, <1>2, <1>3, <1>4, <1>5, <1>6, <2>1, <2>2, <2>3, <2>4, LockFacts
            DEF RequestSide, LoaderSide, CallerSide
<1>8. TypeOK'
  BY <1>1, <1>2, <1>3, <1>4, <1>5, TypesKept, BoundAssumption DEF TypeOK, PluginTypeOK,
         Stored, registryVars, LoaderSide, CallerSide
<1>9. EtagOK'
  BY <1>1, <1>2, <1>6, <1>7, EtagsKept DEF ReqAt
<1>10. CalmOK'
  <2>1. CalmAt(t)'
    BY <1>6 DEF CalmAt
  <2>. QED  BY <1>1, <1>2, <1>7, <2>1, CalmKept
<1>. QED  BY <1>7, <1>8, <1>9, <1>10, RequestKeeps

\* A request to sync or to pull.
LEMMA BeginSyncStep ==
  ASSUME NEW t \in Thread, NEW j \in Job \cup {FullSync}, NEW p, IndInv, 
         \/ j.kind = "syncAll" /\ p = "listing"
         \/ j.kind = "syncTool" /\ p = "waiting"
         \/ j.kind = "legacySync" /\ p = "pulling",
         Start(t, j, p), UNCHANGED <<loader, caller>>
  PROVE  IndInv'
<1>1. /\ req[t].pc = "idle" /\ jobs < MaxJobs /\ jobs' = jobs + 1
      /\ Become(t, [Idle EXCEPT !.job = j, !.pc = p], {})
      /\ UNCHANGED <<files, registryVars, loader, caller, suspect, bucket, supabase, etags,
                     draft, syncLock, uploads, odd>>
      /\ j \in JobType /\ p \in {"listing", "waiting", "pulling"}
  BY JobFacts DEF Start
<1>2. /\ req[t] \in ReqType /\ ReqAt(t) /\ PulledAt(t) /\ TypeOK
      /\ syncLock = t <=> req[t].pc = "syncing"
  BY TypeFacts DEF IndInv, ReqOK, PulledOK, LocksFollowWork
<1>3. LoaderSide(t) /\ loader[t].pc = "out" /\ loader'[t].pc = "out"
  BY <1>1, <1>2, NoReload DEF InReload
<1>4. CallerSide(t) /\ caller'[t] = caller[t] /\ caller'[t].pc = "out"
  BY <1>1, NotCalling DEF InCall
<1>5. /\ req' \in [Thread -> ReqType] /\ Others(t, {})
      /\ req'[t] = [Idle EXCEPT !.job = j, !.pc = p]
  <2>1. [Idle EXCEPT !.job = j, !.pc = p] \in ReqType
    BY <1>1, IdleType DEF ReqType, ReqPc
  <2>. QED  BY <1>1, <1>2, <2>1, Becomes
<1>6. /\ req'[t].pc = p /\ req'[t].job = j /\ req'[t].listing = [f \in File |-> None]
      /\ req'[t].left = {} /\ req'[t].synced = {} /\ req'[t].touched = FALSE
      /\ req'[t].pulled = FALSE /\ req'[t].calm = FALSE
  BY <1>1, <1>5, IdleType DEF ReqType
<1>7. RequestSide(t, {})
  <2>1. ReqAt(t)'
    BY <1>1, <1>2, <1>3, <1>4, <1>6, JobFacts DEF ReqAt, InReload, InCall
  <2>2. CallAt(t)' /\ PulledAt(t)'
    BY <1>1, <1>2, <1>4, <1>6 DEF CallAt, PulledAt
  <2>3. suspect' \/ Pending(t)' \/ (files' = files /\ ~Pending(t))
    BY <1>1, <1>2, <1>3, <1>6 DEF Pending, ReqAt, InReload
  <2>4. req'[t].pulled /\ ~Pending(t)' =>
          req[t].pulled /\ ~Pending(t) /\ req'[t].job = req[t].job
    BY <1>1, <1>2, <1>3, <1>6 DEF Pending, ReqAt, InReload, PulledAt
  <2>. QED  BY <1>1, <1>2, <1>3, <1>4, <1>5, <1>6, <2>1, <2>2, <2>3, <2>4, LockFacts
            DEF RequestSide, LoaderSide, CallerSide
<1>8. TypeOK'
  BY <1>1, <1>2, <1>3, <1>4, <1>5, TypesKept, BoundAssumption DEF TypeOK, PluginTypeOK,
         Stored, registryVars, LoaderSide, CallerSide
<1>9. EtagOK'
  BY <1>1, <1>2, <1>6, <1>7, EtagsKept DEF ReqAt
<1>10. CalmOK'
  <2>1. CalmAt(t)'
    BY <1>6 DEF CalmAt
  <2>. QED  BY <1>1, <1>2, <1>7, <2>1, CalmKept
<1>. QED  BY <1>7, <1>8, <1>9, <1>10, RequestKeeps

\* A call is answered.
LEMMA CallAnsweredStep ==
  ASSUME NEW t \in Thread, IndInv, CallAnswered(t)
  PROVE  IndInv'
<1>1. /\ caller[t].pc = "done" /\ caller' = [caller EXCEPT ![t] = NoCall]
      /\ Become(t, Idle, {}) /\ suspect' = (suspect \/ req[t].touched)
      /\ UNCHANGED <<files, registryVars, loader, bucket, supabase, etags, draft, syncLock,
                     jobs, uploads, odd>>
      /\ req[t].pc \in {"calling", "recalling"}
  BY DEF CallAnswered, Answer, syncVars, IndInv, ReqOK, ReqAt, InCall
<1>2. /\ req[t] \in ReqType /\ ReqAt(t) /\ PulledAt(t) /\ TypeOK
      /\ syncLock = t <=> req[t].pc = "syncing"
  BY TypeFacts DEF IndInv, ReqOK, PulledOK, LocksFollowWork
<1>3. LoaderSide(t) /\ loader[t].pc = "out" /\ loader'[t].pc = "out"
  BY <1>1, NoReload DEF InReload
<1>4. CallerSide(t) /\ caller'[t].pc = "out"
  BY <1>1, EndsCall
<1>5. /\ req' \in [Thread -> ReqType] /\ Others(t, {})
      /\ req'[t] = Idle
  <2>1. Idle \in ReqType
    BY IdleType
  <2>. QED  BY <1>1, <1>2, <2>1, Becomes
<1>6. /\ req'[t].pc = "idle" /\ req'[t].job = None
      /\ req'[t].listing = [f \in File |-> None] /\ req'[t].left = {}
      /\ req'[t].synced = {} /\ req'[t].touched = FALSE /\ req'[t].pulled = FALSE
      /\ req'[t].calm = FALSE
  BY <1>5, IdleType
<1>7. RequestSide(t, {})
  <2>1. ReqAt(t)'
    BY <1>1, <1>2, <1>3, <1>4, <1>6 DEF ReqAt, InReload, InCall
  <2>2. CallAt(t)' /\ PulledAt(t)'
    BY <1>1, <1>2, <1>4, <1>6 DEF CallAt, PulledAt
  <2>3. suspect' \/ Pending(t)' \/ (files' = files /\ ~Pending(t))
    BY <1>1, <1>2, <1>3, <1>6 DEF Pending, ReqAt, InReload
  <2>4. req'[t].pulled /\ ~Pending(t)' =>
          req[t].pulled /\ ~Pending(t) /\ req'[t].job = req[t].job
    BY <1>1, <1>2, <1>3, <1>6 DEF Pending, ReqAt, InReload, PulledAt
  <2>. QED  BY <1>1, <1>2, <1>3, <1>4, <1>5, <1>6, <2>1, <2>2, <2>3, <2>4, LockFacts
            DEF RequestSide, LoaderSide, CallerSide
<1>8. TypeOK'
  BY <1>1, <1>2, <1>3, <1>4, <1>5, TypesKept DEF TypeOK, PluginTypeOK, Stored,
         registryVars, LoaderSide, CallerSide
<1>9. EtagOK'
  BY <1>1, <1>2, <1>6, <1>7, EtagsKept DEF ReqAt
<1>10. CalmOK'
  <2>1. CalmAt(t)'
    BY <1>6 DEF CalmAt
  <2>. QED  BY <1>1, <1>2, <1>7, <2>1, CalmKept
<1>. QED  BY <1>7, <1>8, <1>9, <1>10, RequestKeeps

\* An unknown tool is looked for in Supabase.
LEMMA CallUnknownStep ==
  ASSUME NEW t \in Thread, IndInv, CallUnknown(t)
  PROVE  IndInv'
<1>1. /\ req[t].pc = "calling" /\ req[t].job.kind = "legacyCall" /\ caller[t].pc = "done"
      /\ caller[t].who # None /\ caller' = [caller EXCEPT ![t] = NoCall]
      /\ Become(t, [req[t] EXCEPT !.pc = "pulling"], {})
      /\ UNCHANGED <<files, registryVars, suspect, bucket, supabase, etags, draft, syncLock,
                     jobs, uploads, odd>>
      /\ UNCHANGED loader /\ CallAt(t) /\ CalmAt(t)
  BY DEF CallUnknown, To, syncVars, IndInv, CallerOK, CalmOK
<1>2. /\ req[t] \in ReqType /\ ReqAt(t) /\ PulledAt(t) /\ TypeOK
      /\ syncLock = t <=> req[t].pc = "syncing"
  BY TypeFacts DEF IndInv, ReqOK, PulledOK, LocksFollowWork
<1>3. LoaderSide(t) /\ loader[t].pc = "out" /\ loader'[t].pc = "out"
  BY <1>1, <1>2, NoReload DEF InReload
<1>4. CallerSide(t) /\ caller'[t].pc = "out"
  BY <1>1, EndsCall
<1>5. /\ req' \in [Thread -> ReqType] /\ Others(t, {})
      /\ req'[t] = [req[t] EXCEPT !.pc = "pulling"]
  <2>1. [req[t] EXCEPT !.pc = "pulling"] \in ReqType
    BY <1>2 DEF ReqType, ReqPc
  <2>. QED  BY <1>1, <1>2, <2>1, Becomes
<1>6. /\ req'[t].pc = "pulling" /\ req'[t].job = req[t].job
      /\ req'[t].listing = req[t].listing /\ req'[t].left = req[t].left
      /\ req'[t].synced = req[t].synced /\ req'[t].touched = req[t].touched
      /\ req'[t].pulled = req[t].pulled /\ req'[t].calm = req[t].calm
  BY <1>2, <1>5 DEF ReqType
<1>7. RequestSide(t, {})
  <2>1. ReqAt(t)'
    BY <1>1, <1>2, <1>3, <1>4, <1>6 DEF ReqAt, InReload, InCall
  <2>2. CallAt(t)' /\ PulledAt(t)'
    BY <1>1, <1>2, <1>4, <1>6 DEF CallAt, PulledAt
  <2>3. suspect' \/ Pending(t)' \/ (files' = files /\ ~Pending(t))
    BY <1>1, <1>2, <1>3, <1>6 DEF Pending, ReqAt, InReload
  <2>4. req'[t].pulled /\ ~Pending(t)' =>
          req[t].pulled /\ ~Pending(t) /\ req'[t].job = req[t].job
    BY <1>1, <1>2, <1>3, <1>6 DEF Pending, ReqAt, InReload, PulledAt
  <2>. QED  BY <1>1, <1>2, <1>3, <1>4, <1>5, <1>6, <2>1, <2>2, <2>3, <2>4, LockFacts
            DEF RequestSide, LoaderSide, CallerSide
<1>8. TypeOK'
  BY <1>1, <1>2, <1>3, <1>4, <1>5, TypesKept DEF TypeOK, PluginTypeOK, Stored,
         registryVars, LoaderSide, CallerSide
<1>9. EtagOK'
  BY <1>1, <1>2, <1>6, <1>7, EtagsKept DEF ReqAt
<1>10. CalmOK'
  <2>1. CalmAt(t)'
    BY <1>1, <1>6 DEF CalmAt
  <2>. QED  BY <1>1, <1>2, <1>7, <2>1, CalmKept
<1>. QED  BY <1>7, <1>8, <1>9, <1>10, RequestKeeps

\* A file is pulled.
LEMMA PullStep ==
  ASSUME NEW t \in Thread, IndInv, Pull(t)
  PROVE  IndInv'
<1>1. /\ req[t].pc = "pulling" /\ supabase[req[t].job.file] # None
      /\ req[t].job.form # "key"
      /\ files' = [files EXCEPT ![req[t].job.file] = supabase[req[t].job.file]]
      /\ odd' = odd \cup {req[t].job.file} /\ StartReload(t)
      /\ Become(t, [req[t] EXCEPT !.pc = "reloadPulled", !.touched = TRUE,
                                 !.pulled = supabase[req[t].job.file] \in Good],
                {req[t].job.file})
      /\ UNCHANGED <<registryVars, caller, suspect, bucket, supabase, etags, draft,
                     syncLock, jobs, uploads>>
      /\ req[t].job.file \in File /\ CalmAt(t)
  BY DEF Pull, IndInv, ReqOK, ReqAt, CalmOK
<1>2. /\ req[t] \in ReqType /\ ReqAt(t) /\ PulledAt(t) /\ TypeOK
      /\ syncLock = t <=> req[t].pc = "syncing"
  BY TypeFacts DEF IndInv, ReqOK, PulledOK, LocksFollowWork
<1>3. LoaderSide(t) /\ loader'[t].pc = "locking"
  BY <1>1, <1>2, StartsReload DEF ReqAt, InReload
<1>4. CallerSide(t) /\ caller'[t] = caller[t] /\ caller'[t].pc = "out"
  BY <1>1, NotCalling DEF InCall
<1>5. /\ req' \in [Thread -> ReqType] /\ Others(t, {req[t].job.file})
      /\ req'[t] = [req[t] EXCEPT !.pc = "reloadPulled", !.touched = TRUE,
              !.pulled = supabase[req[t].job.file] \in Good]
  <2>1. [req[t] EXCEPT !.pc = "reloadPulled", !.touched = TRUE,
              !.pulled = supabase[req[t].job.file] \in Good] \in ReqType
    <3>. DEFINE ok == supabase[req[t].job.file] \in Good
    <3>1. ok \in BOOLEAN
      OBVIOUS
    <3>. HIDE DEF ok
    <3>2. [req[t] EXCEPT !.pc = "reloadPulled", !.touched = TRUE, !.pulled = ok] \in ReqType
      BY <1>2, <3>1 DEF ReqType, ReqPc
    <3>. QED  BY <3>2 DEF ok
  <2>. QED  BY <1>1, <1>2, <2>1, Becomes
<1>6. /\ req'[t].pc = "reloadPulled" /\ req'[t].job = req[t].job
      /\ req'[t].listing = req[t].listing /\ req'[t].left = req[t].left
      /\ req'[t].synced = req[t].synced /\ req'[t].touched = TRUE
      /\ req'[t].pulled = (supabase[req[t].job.file] \in Good)
      /\ req'[t].calm = req[t].calm
  BY <1>2, <1>5 DEF ReqType
<1>7. RequestSide(t, {req[t].job.file})
  <2>1. ReqAt(t)'
    BY <1>1, <1>2, <1>3, <1>4, <1>6 DEF ReqAt, InReload, InCall
  <2>2. CallAt(t)' /\ PulledAt(t)'
    BY <1>1, <1>2, <1>4, <1>6, TypeFacts DEF CallAt, PulledAt
  <2>3. suspect' \/ Pending(t)' \/ (files' = files /\ ~Pending(t))
    BY <1>1, <1>2, <1>3, <1>6 DEF Pending, ReqAt, InReload
  <2>4. req'[t].pulled /\ ~Pending(t)' =>
          req[t].pulled /\ ~Pending(t) /\ req'[t].job = req[t].job
    BY <1>1, <1>2, <1>3, <1>6 DEF Pending, ReqAt, InReload, PulledAt
  <2>. QED  BY <1>1, <1>2, <1>3, <1>4, <1>5, <1>6, <2>1, <2>2, <2>3, <2>4, LockFacts
            DEF RequestSide, LoaderSide, CallerSide
<1>8. TypeOK'
  BY <1>1, <1>2, <1>3, <1>4, <1>5, TypesKept DEF TypeOK, PluginTypeOK, Stored,
         registryVars, LoaderSide, CallerSide
<1>9. EtagOK'
  <2>1. /\ files \in Stored /\ \A f \in File \ {req[t].job.file} : files'[f] = files[f]
        /\ \A u \in Thread : req'[u].synced = req[u].synced
    BY <1>1, <1>2, <1>5, <1>6, TypeFacts DEF Others, Stored
  <2>. QED  BY <1>1, <2>1 DEF EtagOK, IndInv
<1>10. CalmOK'
  <2>1. CalmAt(t)'
    BY <1>1, <1>6 DEF CalmAt
  <2>. QED  BY <1>1, <1>2, <1>7, <2>1, CalmKept
<1>. QED  BY <1>7, <1>8, <1>9, <1>10, RequestKeeps

\* Nothing is pulled for a call: it reloads.
LEMMA PullNothingCallStep ==
  ASSUME NEW t \in Thread, IndInv, req[t].pc = "pulling",
         req[t].job.kind = "legacyCall", To(t, "reloadLegacy"), StartReload(t),
         UNCHANGED <<files, registryVars, caller, suspect, syncVars>>
  PROVE  IndInv'
<1>1. /\ req[t].pc = "pulling" /\ req[t].job.kind = "legacyCall"
      /\ Become(t, [req[t] EXCEPT !.pc = "reloadLegacy"], {}) /\ StartReload(t)
      /\ UNCHANGED <<files, registryVars, suspect, bucket, supabase, etags, draft, syncLock,
                     jobs, uploads, odd>>
      /\ UNCHANGED caller /\ CalmAt(t)
  BY DEF To, syncVars, IndInv, CalmOK
<1>2. /\ req[t] \in ReqType /\ ReqAt(t) /\ PulledAt(t) /\ TypeOK
      /\ syncLock = t <=> req[t].pc = "syncing"
  BY TypeFacts DEF IndInv, ReqOK, PulledOK, LocksFollowWork
<1>3. LoaderSide(t) /\ loader'[t].pc = "locking"
  BY <1>1, <1>2, StartsReload DEF ReqAt, InReload
<1>4. CallerSide(t) /\ caller'[t] = caller[t] /\ caller'[t].pc = "out"
  BY <1>1, NotCalling DEF InCall
<1>5. /\ req' \in [Thread -> ReqType] /\ Others(t, {})
      /\ req'[t] = [req[t] EXCEPT !.pc = "reloadLegacy"]
  <2>1. [req[t] EXCEPT !.pc = "reloadLegacy"] \in ReqType
    BY <1>2 DEF ReqType, ReqPc
  <2>. QED  BY <1>1, <1>2, <2>1, Becomes
<1>6. /\ req'[t].pc = "reloadLegacy" /\ req'[t].job = req[t].job
      /\ req'[t].listing = req[t].listing /\ req'[t].left = req[t].left
      /\ req'[t].synced = req[t].synced /\ req'[t].touched = req[t].touched
      /\ req'[t].pulled = req[t].pulled /\ req'[t].calm = req[t].calm
  BY <1>2, <1>5 DEF ReqType
<1>7. RequestSide(t, {})
  <2>1. ReqAt(t)'
    BY <1>1, <1>2, <1>3, <1>4, <1>6 DEF ReqAt, InReload, InCall
  <2>2. CallAt(t)' /\ PulledAt(t)'
    BY <1>1, <1>2, <1>4, <1>6 DEF CallAt, PulledAt
  <2>3. suspect' \/ Pending(t)' \/ (files' = files /\ ~Pending(t))
    BY <1>1, <1>2, <1>3, <1>6 DEF Pending, ReqAt, InReload
  <2>4. req'[t].pulled /\ ~Pending(t)' =>
          req[t].pulled /\ ~Pending(t) /\ req'[t].job = req[t].job
    BY <1>1, <1>2, <1>3, <1>6 DEF Pending, ReqAt, InReload, PulledAt
  <2>. QED  BY <1>1, <1>2, <1>3, <1>4, <1>5, <1>6, <2>1, <2>2, <2>3, <2>4, LockFacts
            DEF RequestSide, LoaderSide, CallerSide
<1>8. TypeOK'
  BY <1>1, <1>2, <1>3, <1>4, <1>5, TypesKept DEF TypeOK, PluginTypeOK, Stored,
         registryVars, LoaderSide, CallerSide
<1>9. EtagOK'
  BY <1>1, <1>2, <1>6, <1>7, EtagsKept DEF ReqAt
<1>10. CalmOK'
  <2>1. CalmAt(t)'
    BY <1>1, <1>6 DEF CalmAt
  <2>. QED  BY <1>1, <1>2, <1>7, <2>1, CalmKept
<1>. QED  BY <1>7, <1>8, <1>9, <1>10, RequestKeeps

\* Nothing is pulled for a sync: it goes on to S3.
LEMMA PullNothingSyncStep ==
  ASSUME NEW t \in Thread, IndInv, req[t].pc = "pulling",
         req[t].job.kind # "legacyCall", Become(t, AtS3(req[t]), {}),
         UNCHANGED <<loader, files, registryVars, caller, suspect, syncVars>>
  PROVE  IndInv'
<1>1. /\ req[t].pc = "pulling" /\ req[t].job.kind # "legacyCall"
      /\ Become(t, AtS3(req[t]), {})
      /\ UNCHANGED <<files, registryVars, suspect, bucket, supabase, etags, draft, syncLock,
                     jobs, uploads, odd>>
      /\ UNCHANGED <<loader, caller>>
  BY DEF syncVars
<1>2. /\ req[t] \in ReqType /\ ReqAt(t) /\ PulledAt(t) /\ TypeOK
      /\ syncLock = t <=> req[t].pc = "syncing"
  BY TypeFacts DEF IndInv, ReqOK, PulledOK, LocksFollowWork
<1>3. LoaderSide(t) /\ loader[t].pc = "out" /\ loader'[t].pc = "out"
  BY <1>1, <1>2, NoReload DEF InReload
<1>4. CallerSide(t) /\ caller'[t] = caller[t] /\ caller'[t].pc = "out"
  BY <1>1, NotCalling DEF InCall
<1>5. /\ req' \in [Thread -> ReqType] /\ Others(t, {})
      /\ req'[t] = AtS3(req[t])
  <2>1. AtS3(req[t]) \in ReqType
    <3>1. [req[t].job EXCEPT !.kind = "syncTool"] \in JobType
      BY <1>1, <1>2 DEF ReqAt, JobType, Kind
    <3>. QED  BY <3>1, IdleType DEF AtS3, ReqType, ReqPc
  <2>. QED  BY <1>1, <1>2, <2>1, Becomes
<1>6. /\ req'[t].pc = "waiting" /\ req'[t].job = [req[t].job EXCEPT !.kind = "syncTool"]
      /\ req'[t].listing = [f \in File |-> None] /\ req'[t].left = {}
      /\ req'[t].synced = {} /\ req'[t].touched = FALSE /\ req'[t].pulled = FALSE
      /\ req'[t].calm = FALSE
  BY <1>5, IdleType DEF AtS3, ReqType
<1>7. RequestSide(t, {})
  <2>1. ReqAt(t)'
    <3>1. req[t].job \in JobType /\ req[t].job.kind = "legacySync"
      BY <1>1, <1>2 DEF ReqAt
    <3>2. /\ req'[t].job \in JobType /\ req'[t].job.kind = "syncTool"
          /\ req'[t].job.file = req[t].job.file /\ req'[t].job.who = req[t].job.who
          /\ req'[t].job.form = req[t].job.form
      BY <1>6, <3>1 DEF JobType, Kind
    <3>. QED  BY <1>1, <1>2, <1>3, <1>4, <1>6, <3>1, <3>2 DEF ReqAt, InReload, InCall
  <2>2. CallAt(t)' /\ PulledAt(t)'
    BY <1>1, <1>2, <1>4, <1>6 DEF CallAt, PulledAt
  <2>3. suspect' \/ Pending(t)' \/ (files' = files /\ ~Pending(t))
    BY <1>1, <1>2, <1>3, <1>6 DEF Pending, ReqAt, InReload
  <2>4. req'[t].pulled /\ ~Pending(t)' =>
          req[t].pulled /\ ~Pending(t) /\ req'[t].job = req[t].job
    BY <1>1, <1>2, <1>3, <1>6 DEF Pending, ReqAt, InReload, PulledAt
  <2>. QED  BY <1>1, <1>2, <1>3, <1>4, <1>5, <1>6, <2>1, <2>2, <2>3, <2>4, LockFacts
            DEF RequestSide, LoaderSide, CallerSide
<1>8. TypeOK'
  BY <1>1, <1>2, <1>3, <1>4, <1>5, TypesKept DEF TypeOK, PluginTypeOK, Stored,
         registryVars, LoaderSide, CallerSide
<1>9. EtagOK'
  BY <1>1, <1>2, <1>6, <1>7, EtagsKept DEF ReqAt
<1>10. CalmOK'
  <2>1. CalmAt(t)'
    BY <1>6 DEF CalmAt
  <2>. QED  BY <1>1, <1>2, <1>7, <2>1, CalmKept
<1>. QED  BY <1>7, <1>8, <1>9, <1>10, RequestKeeps

\* There is nothing to sync.
LEMMA ListNothingStep ==
  ASSUME NEW t \in Thread, IndInv, ListNothing(t)
  PROVE  IndInv'
<1>1. /\ req[t].pc \in {"listing", "waiting"} /\ Become(t, Idle, {})
      /\ suspect' = (suspect \/ req[t].touched)
      /\ UNCHANGED <<files, registryVars, loader, bucket, supabase, etags, draft, syncLock,
                     jobs, uploads, odd>>
      /\ UNCHANGED caller
  BY DEF ListNothing, Answer, syncVars
<1>2. /\ req[t] \in ReqType /\ ReqAt(t) /\ PulledAt(t) /\ TypeOK
      /\ syncLock = t <=> req[t].pc = "syncing"
  BY TypeFacts DEF IndInv, ReqOK, PulledOK, LocksFollowWork
<1>3. LoaderSide(t) /\ loader[t].pc = "out" /\ loader'[t].pc = "out"
  BY <1>1, <1>2, NoReload DEF InReload
<1>4. CallerSide(t) /\ caller'[t] = caller[t] /\ caller'[t].pc = "out"
  BY <1>1, NotCalling DEF InCall
<1>5. /\ req' \in [Thread -> ReqType] /\ Others(t, {})
      /\ req'[t] = Idle
  <2>1. Idle \in ReqType
    BY IdleType
  <2>. QED  BY <1>1, <1>2, <2>1, Becomes
<1>6. /\ req'[t].pc = "idle" /\ req'[t].job = None
      /\ req'[t].listing = [f \in File |-> None] /\ req'[t].left = {}
      /\ req'[t].synced = {} /\ req'[t].touched = FALSE /\ req'[t].pulled = FALSE
      /\ req'[t].calm = FALSE
  BY <1>5, IdleType
<1>7. RequestSide(t, {})
  <2>1. ReqAt(t)'
    BY <1>1, <1>2, <1>3, <1>4, <1>6 DEF ReqAt, InReload, InCall
  <2>2. CallAt(t)' /\ PulledAt(t)'
    BY <1>1, <1>2, <1>4, <1>6 DEF CallAt, PulledAt
  <2>3. suspect' \/ Pending(t)' \/ (files' = files /\ ~Pending(t))
    BY <1>1, <1>2, <1>3, <1>6 DEF Pending, ReqAt, InReload
  <2>4. req'[t].pulled /\ ~Pending(t)' =>
          req[t].pulled /\ ~Pending(t) /\ req'[t].job = req[t].job
    BY <1>1, <1>2, <1>3, <1>6 DEF Pending, ReqAt, InReload, PulledAt
  <2>. QED  BY <1>1, <1>2, <1>3, <1>4, <1>5, <1>6, <2>1, <2>2, <2>3, <2>4, LockFacts
            DEF RequestSide, LoaderSide, CallerSide
<1>8. TypeOK'
  BY <1>1, <1>2, <1>3, <1>4, <1>5, TypesKept DEF TypeOK, PluginTypeOK, Stored,
         registryVars, LoaderSide, CallerSide
<1>9. EtagOK'
  BY <1>1, <1>2, <1>6, <1>7, EtagsKept DEF ReqAt
<1>10. CalmOK'
  <2>1. CalmAt(t)'
    BY <1>6 DEF CalmAt
  <2>. QED  BY <1>1, <1>2, <1>7, <2>1, CalmKept
<1>. QED  BY <1>7, <1>8, <1>9, <1>10, RequestKeeps

\* A reload was the end of its request.
LEMMA ReloadEndsRequestStep ==
  ASSUME NEW t \in Thread, IndInv, ReloadEndsRequest(t)
  PROVE  IndInv'
<1>1. /\ loader[t].pc \in {"returned", "raised"}
      /\ req[t].pc \in {"reloadSynced", "reloadLegacy"}
      /\ loader' = [loader EXCEPT ![t] = NoLoad] /\ Become(t, Idle, {})
      /\ UNCHANGED <<files, registryVars, suspect, bucket, supabase, etags, draft, syncLock,
                     jobs, uploads, odd>>
      /\ UNCHANGED caller
  BY DEF ReloadEndsRequest, Reloaded, syncVars
<1>2. /\ req[t] \in ReqType /\ ReqAt(t) /\ PulledAt(t) /\ TypeOK
      /\ syncLock = t <=> req[t].pc = "syncing"
  BY TypeFacts DEF IndInv, ReqOK, PulledOK, LocksFollowWork
<1>3. LoaderSide(t) /\ loader'[t].pc = "out"
  BY <1>1, <1>2, EndsReload DEF Reloaded
<1>4. CallerSide(t) /\ caller'[t] = caller[t] /\ caller'[t].pc = "out"
  BY <1>1, NotCalling DEF InCall
<1>5. /\ req' \in [Thread -> ReqType] /\ Others(t, {})
      /\ req'[t] = Idle
  <2>1. Idle \in ReqType
    BY IdleType
  <2>. QED  BY <1>1, <1>2, <2>1, Becomes
<1>6. /\ req'[t].pc = "idle" /\ req'[t].job = None
      /\ req'[t].listing = [f \in File |-> None] /\ req'[t].left = {}
      /\ req'[t].synced = {} /\ req'[t].touched = FALSE /\ req'[t].pulled = FALSE
      /\ req'[t].calm = FALSE
  BY <1>5, IdleType
<1>7. RequestSide(t, {})
  <2>1. ReqAt(t)'
    BY <1>1, <1>2, <1>3, <1>4, <1>6 DEF ReqAt, InReload, InCall
  <2>2. CallAt(t)' /\ PulledAt(t)'
    BY <1>1, <1>2, <1>4, <1>6 DEF CallAt, PulledAt
  <2>3. suspect' \/ Pending(t)' \/ (files' = files /\ ~Pending(t))
    BY <1>1, <1>2, <1>3, <1>6 DEF Pending, ReqAt, InReload
  <2>4. req'[t].pulled /\ ~Pending(t)' =>
          req[t].pulled /\ ~Pending(t) /\ req'[t].job = req[t].job
    BY <1>1, <1>2, <1>3, <1>6 DEF Pending, ReqAt, InReload, PulledAt
  <2>. QED  BY <1>1, <1>2, <1>3, <1>4, <1>5, <1>6, <2>1, <2>2, <2>3, <2>4, LockFacts
            DEF RequestSide, LoaderSide, CallerSide
<1>8. TypeOK'
  BY <1>1, <1>2, <1>3, <1>4, <1>5, TypesKept DEF TypeOK, PluginTypeOK, Stored,
         registryVars, LoaderSide, CallerSide
<1>9. EtagOK'
  BY <1>1, <1>2, <1>6, <1>7, EtagsKept DEF ReqAt
<1>10. CalmOK'
  <2>1. CalmAt(t)'
    BY <1>6 DEF CalmAt
  <2>. QED  BY <1>1, <1>2, <1>7, <2>1, CalmKept
<1>. QED  BY <1>7, <1>8, <1>9, <1>10, RequestKeeps

\* legacy_sync_tool goes on to S3.
LEMMA ReloadThenS3Step ==
  ASSUME NEW t \in Thread, IndInv, ReloadThenS3(t)
  PROVE  IndInv'
<1>1. /\ loader[t].pc \in {"returned", "raised"} /\ req[t].pc = "reloadPulled"
      /\ req[t].job.kind = "legacySync" /\ loader' = [loader EXCEPT ![t] = NoLoad]
      /\ Become(t, AtS3(req[t]), {})
      /\ UNCHANGED <<files, registryVars, suspect, bucket, supabase, etags, draft, syncLock,
                     jobs, uploads, odd>>
      /\ UNCHANGED caller
  BY DEF ReloadThenS3, Reloaded, syncVars
<1>2. /\ req[t] \in ReqType /\ ReqAt(t) /\ PulledAt(t) /\ TypeOK
      /\ syncLock = t <=> req[t].pc = "syncing"
  BY TypeFacts DEF IndInv, ReqOK, PulledOK, LocksFollowWork
<1>3. LoaderSide(t) /\ loader'[t].pc = "out"
  BY <1>1, <1>2, EndsReload DEF Reloaded
<1>4. CallerSide(t) /\ caller'[t] = caller[t] /\ caller'[t].pc = "out"
  BY <1>1, NotCalling DEF InCall
<1>5. /\ req' \in [Thread -> ReqType] /\ Others(t, {})
      /\ req'[t] = AtS3(req[t])
  <2>1. AtS3(req[t]) \in ReqType
    <3>1. [req[t].job EXCEPT !.kind = "syncTool"] \in JobType
      BY <1>1, <1>2 DEF ReqAt, JobType, Kind
    <3>. QED  BY <3>1, IdleType DEF AtS3, ReqType, ReqPc
  <2>. QED  BY <1>1, <1>2, <2>1, Becomes
<1>6. /\ req'[t].pc = "waiting" /\ req'[t].job = [req[t].job EXCEPT !.kind = "syncTool"]
      /\ req'[t].listing = [f \in File |-> None] /\ req'[t].left = {}
      /\ req'[t].synced = {} /\ req'[t].touched = FALSE /\ req'[t].pulled = FALSE
      /\ req'[t].calm = FALSE
  BY <1>5, IdleType DEF AtS3, ReqType
<1>7. RequestSide(t, {})
  <2>1. ReqAt(t)'
    <3>1. req[t].job \in JobType /\ req[t].job.kind = "legacySync"
      BY <1>1, <1>2 DEF ReqAt
    <3>2. /\ req'[t].job \in JobType /\ req'[t].job.kind = "syncTool"
          /\ req'[t].job.file = req[t].job.file /\ req'[t].job.who = req[t].job.who
          /\ req'[t].job.form = req[t].job.form
      BY <1>6, <3>1 DEF JobType, Kind
    <3>. QED  BY <1>1, <1>2, <1>3, <1>4, <1>6, <3>1, <3>2 DEF ReqAt, InReload, InCall
  <2>2. CallAt(t)' /\ PulledAt(t)'
    BY <1>1, <1>2, <1>4, <1>6 DEF CallAt, PulledAt
  <2>3. suspect' \/ Pending(t)' \/ (files' = files /\ ~Pending(t))
    BY <1>1, <1>2, <1>3, <1>6 DEF Pending, ReqAt, InReload
  <2>4. req'[t].pulled /\ ~Pending(t)' =>
          req[t].pulled /\ ~Pending(t) /\ req'[t].job = req[t].job
    BY <1>1, <1>2, <1>3, <1>6 DEF Pending, ReqAt, InReload, PulledAt
  <2>. QED  BY <1>1, <1>2, <1>3, <1>4, <1>5, <1>6, <2>1, <2>2, <2>3, <2>4, LockFacts
            DEF RequestSide, LoaderSide, CallerSide
<1>8. TypeOK'
  BY <1>1, <1>2, <1>3, <1>4, <1>5, TypesKept DEF TypeOK, PluginTypeOK, Stored,
         registryVars, LoaderSide, CallerSide
<1>9. EtagOK'
  BY <1>1, <1>2, <1>6, <1>7, EtagsKept DEF ReqAt
<1>10. CalmOK'
  <2>1. CalmAt(t)'
    BY <1>6 DEF CalmAt
  <2>. QED  BY <1>1, <1>2, <1>7, <2>1, CalmKept
<1>. QED  BY <1>7, <1>8, <1>9, <1>10, RequestKeeps

\* legacy_call_tool reloads again.
LEMMA ReloadAgainStep ==
  ASSUME NEW t \in Thread, IndInv, ReloadAgain(t)
  PROVE  IndInv'
<1>1. /\ loader[t].pc = "raised" /\ req[t].pc = "reloadPulled"
      /\ req[t].job.kind = "legacyCall"
      /\ Become(t, [req[t] EXCEPT !.pc = "reloadLegacy"], {}) /\ StartReload(t)
      /\ UNCHANGED <<files, registryVars, suspect, bucket, supabase, etags, draft, syncLock,
                     jobs, uploads, odd>>
      /\ UNCHANGED caller /\ CalmAt(t)
  BY DEF ReloadAgain, To, syncVars, IndInv, CalmOK
<1>2. /\ req[t] \in ReqType /\ ReqAt(t) /\ PulledAt(t) /\ TypeOK
      /\ syncLock = t <=> req[t].pc = "syncing"
  BY TypeFacts DEF IndInv, ReqOK, PulledOK, LocksFollowWork
<1>3. LoaderSide(t) /\ loader'[t].pc = "locking"
  BY <1>1, <1>2, StartsReload DEF ReqAt, InReload
<1>4. CallerSide(t) /\ caller'[t] = caller[t] /\ caller'[t].pc = "out"
  BY <1>1, NotCalling DEF InCall
<1>5. /\ req' \in [Thread -> ReqType] /\ Others(t, {})
      /\ req'[t] = [req[t] EXCEPT !.pc = "reloadLegacy"]
  <2>1. [req[t] EXCEPT !.pc = "reloadLegacy"] \in ReqType
    BY <1>2 DEF ReqType, ReqPc
  <2>. QED  BY <1>1, <1>2, <2>1, Becomes
<1>6. /\ req'[t].pc = "reloadLegacy" /\ req'[t].job = req[t].job
      /\ req'[t].listing = req[t].listing /\ req'[t].left = req[t].left
      /\ req'[t].synced = req[t].synced /\ req'[t].touched = req[t].touched
      /\ req'[t].pulled = req[t].pulled /\ req'[t].calm = req[t].calm
  BY <1>2, <1>5 DEF ReqType
<1>7. RequestSide(t, {})
  <2>1. ReqAt(t)'
    BY <1>1, <1>2, <1>3, <1>4, <1>6 DEF ReqAt, InReload, InCall
  <2>2. CallAt(t)' /\ PulledAt(t)'
    BY <1>1, <1>2, <1>4, <1>6 DEF CallAt, PulledAt
  <2>3. suspect' \/ Pending(t)' \/ (files' = files /\ ~Pending(t))
    BY <1>1, <1>2, <1>3, <1>6 DEF Pending, ReqAt, InReload
  <2>4. req'[t].pulled /\ ~Pending(t)' =>
          req[t].pulled /\ ~Pending(t) /\ req'[t].job = req[t].job
    BY <1>1, <1>2, <1>3, <1>6 DEF Pending, ReqAt, InReload, PulledAt
  <2>. QED  BY <1>1, <1>2, <1>3, <1>4, <1>5, <1>6, <2>1, <2>2, <2>3, <2>4, LockFacts
            DEF RequestSide, LoaderSide, CallerSide
<1>8. TypeOK'
  BY <1>1, <1>2, <1>3, <1>4, <1>5, TypesKept DEF TypeOK, PluginTypeOK, Stored,
         registryVars, LoaderSide, CallerSide
<1>9. EtagOK'
  BY <1>1, <1>2, <1>6, <1>7, EtagsKept DEF ReqAt
<1>10. CalmOK'
  <2>1. CalmAt(t)'
    BY <1>1, <1>6 DEF CalmAt
  <2>. QED  BY <1>1, <1>2, <1>7, <2>1, CalmKept
<1>. QED  BY <1>7, <1>8, <1>9, <1>10, RequestKeeps

\* legacy_call_tool calls again.
LEMMA ReloadThenRecallStep ==
  ASSUME NEW t \in Thread, IndInv, ReloadThenRecall(t)
  PROVE  IndInv'
<1>1. /\ loader[t].pc = "returned" /\ req[t].pc \in {"reloadPulled", "reloadLegacy"}
      /\ req[t].job.kind = "legacyCall" /\ loader' = [loader EXCEPT ![t] = NoLoad]
      /\ Become(t, [req[t] EXCEPT !.pc = "recalling", !.touched = FALSE], {})
      /\ StartCall(t, req[t].job)
      /\ UNCHANGED <<files, registryVars, suspect, bucket, supabase, etags, draft, syncLock,
                     jobs, uploads, odd>>
      /\ CalmAt(t) /\ req[t].job \in JobType /\ req[t].job.file \in File
  BY DEF ReloadThenRecall, syncVars, IndInv, CalmOK, ReqOK, ReqAt
<1>2. /\ req[t] \in ReqType /\ ReqAt(t) /\ PulledAt(t) /\ TypeOK
      /\ syncLock = t <=> req[t].pc = "syncing"
  BY TypeFacts DEF IndInv, ReqOK, PulledOK, LocksFollowWork
<1>3. LoaderSide(t) /\ loader'[t].pc = "out"
  BY <1>1, <1>2, EndsReload DEF Reloaded
<1>4. /\ CallerSide(t) /\ caller'[t].pc = "gate" /\ caller'[t].file = req[t].job.file
      /\ caller'[t].who = req[t].job.who /\ caller'[t].form = req[t].job.form
  BY <1>1, <1>2, StartsCall
<1>5. /\ req' \in [Thread -> ReqType] /\ Others(t, {})
      /\ req'[t] = [req[t] EXCEPT !.pc = "recalling", !.touched = FALSE]
  <2>1. [req[t] EXCEPT !.pc = "recalling", !.touched = FALSE] \in ReqType
    BY <1>2 DEF ReqType, ReqPc
  <2>. QED  BY <1>1, <1>2, <2>1, Becomes
<1>6. /\ req'[t].pc = "recalling" /\ req'[t].job = req[t].job
      /\ req'[t].listing = req[t].listing /\ req'[t].left = req[t].left
      /\ req'[t].synced = req[t].synced /\ req'[t].touched = FALSE
      /\ req'[t].pulled = req[t].pulled /\ req'[t].calm = req[t].calm
  BY <1>2, <1>5 DEF ReqType
<1>7. RequestSide(t, {})
  <2>1. ReqAt(t)'
    BY <1>1, <1>2, <1>3, <1>4, <1>6 DEF ReqAt, InReload, InCall
  <2>2. CallAt(t)' /\ PulledAt(t)'
    BY <1>1, <1>2, <1>4, <1>6 DEF CallAt, PulledAt
  <2>3. suspect' \/ Pending(t)' \/ (files' = files /\ ~Pending(t))
    BY <1>1, <1>2, <1>3, <1>6 DEF Pending, ReqAt, InReload
  <2>4. req'[t].pulled /\ ~Pending(t)' =>
          req[t].pulled /\ ~Pending(t) /\ req'[t].job = req[t].job
    BY <1>1, <1>2, <1>3, <1>6 DEF Pending, ReqAt, InReload, PulledAt
  <2>. QED  BY <1>1, <1>2, <1>3, <1>4, <1>5, <1>6, <2>1, <2>2, <2>3, <2>4, LockFacts
            DEF RequestSide, LoaderSide, CallerSide
<1>8. TypeOK'
  BY <1>1, <1>2, <1>3, <1>4, <1>5, TypesKept DEF TypeOK, PluginTypeOK, Stored,
         registryVars, LoaderSide, CallerSide
<1>9. EtagOK'
  BY <1>1, <1>2, <1>6, <1>7, EtagsKept DEF ReqAt
<1>10. CalmOK'
  <2>1. CalmAt(t)'
    BY <1>1, <1>6 DEF CalmAt
  <2>. QED  BY <1>1, <1>2, <1>7, <2>1, CalmKept
<1>. QED  BY <1>7, <1>8, <1>9, <1>10, RequestKeeps

\* The lock of the syncer is taken, with the listing of sync_all or of the one tool.
LEMMA LockStep ==
  ASSUME NEW t \in Thread, NEW listing \in Stored, NEW scope \in SUBSET File, IndInv, 
         Lock(t, listing, scope),
         IF req[t].job.kind = "syncAll"
         THEN listing = req[t].listing /\ scope = InScope(req[t].job)
         ELSE /\ scope = {req[t].job.file}
              /\ \A f \in File : listing[f] # None =>
                   f = req[t].job.file /\ listing[f] = bucket[f]
  PROVE  IndInv'
<1>1. /\ req[t].pc = "waiting" /\ syncLock = None /\ syncLock' = t /\ draft' = etags
      /\ Become(t, [req[t] EXCEPT !.pc = "syncing", !.listing = listing,
                                 !.calm = @ \/ req[t].job.kind # "syncAll",
                                 !.left = {f \in scope : listing[f] # None}], {})
      /\ UNCHANGED <<registryVars, loader, caller, bucket, supabase, jobs, uploads>>
      /\ UNCHANGED <<files, suspect, etags, odd>> /\ CalmAt(t)
  BY DEF Lock, pluginVars, IndInv, CalmOK
<1>2. /\ req[t] \in ReqType /\ ReqAt(t) /\ PulledAt(t) /\ TypeOK
      /\ syncLock = t <=> req[t].pc = "syncing"
  BY TypeFacts DEF IndInv, ReqOK, PulledOK, LocksFollowWork
<1>3. LoaderSide(t) /\ loader[t].pc = "out" /\ loader'[t].pc = "out"
  BY <1>1, <1>2, NoReload DEF InReload
<1>4. CallerSide(t) /\ caller'[t] = caller[t] /\ caller'[t].pc = "out"
  BY <1>1, NotCalling DEF InCall
<1>5. /\ req' \in [Thread -> ReqType] /\ Others(t, {})
      /\ req'[t] = [req[t] EXCEPT !.pc = "syncing", !.listing = listing,
              !.calm = @ \/ req[t].job.kind # "syncAll",
              !.left = {f \in scope : listing[f] # None}]
  <2>1. [req[t] EXCEPT !.pc = "syncing", !.listing = listing,
              !.calm = @ \/ req[t].job.kind # "syncAll",
              !.left = {f \in scope : listing[f] # None}] \in ReqType
    <3>. DEFINE ok == req[t].calm \/ req[t].job.kind # "syncAll"
                left == {f \in scope : listing[f] # None}
    <3>1. ok \in BOOLEAN /\ left \in SUBSET File
      OBVIOUS
    <3>. HIDE DEF ok, left
    <3>2. [req[t] EXCEPT !.pc = "syncing", !.listing = listing, !.calm = ok, !.left = left]
            \in ReqType
      BY <1>2, <3>1 DEF ReqType, ReqPc
    <3>. QED  BY <3>2 DEF ok, left
  <2>. QED  BY <1>1, <1>2, <2>1, Becomes
<1>6. /\ req'[t].pc = "syncing" /\ req'[t].job = req[t].job /\ req'[t].listing = listing
      /\ req'[t].left = {f \in scope : listing[f] # None}
      /\ req'[t].synced = req[t].synced /\ req'[t].touched = req[t].touched
      /\ req'[t].pulled = req[t].pulled
      /\ req'[t].calm = (req[t].calm \/ req[t].job.kind # "syncAll")
  BY <1>2, <1>5 DEF ReqType
<1>7. RequestSide(t, {})
  <2>1. ReqAt(t)'
    BY <1>1, <1>2, <1>3, <1>4, <1>6 DEF ReqAt, InReload, InCall
  <2>2. CallAt(t)' /\ PulledAt(t)'
    BY <1>1, <1>2, <1>4, <1>6 DEF CallAt, PulledAt
  <2>3. suspect' \/ Pending(t)' \/ (files' = files /\ ~Pending(t))
    BY <1>1, <1>2, <1>3, <1>6 DEF Pending, ReqAt, InReload
  <2>4. req'[t].pulled /\ ~Pending(t)' =>
          req[t].pulled /\ ~Pending(t) /\ req'[t].job = req[t].job
    BY <1>1, <1>2, <1>3, <1>6 DEF Pending, ReqAt, InReload, PulledAt
  <2>. QED  BY <1>1, <1>2, <1>3, <1>4, <1>5, <1>6, <2>1, <2>2, <2>3, <2>4, LockFacts
            DEF RequestSide, LoaderSide, CallerSide
<1>8. TypeOK'
  BY <1>1, <1>2, <1>3, <1>4, <1>5, TypesKept DEF TypeOK, PluginTypeOK, Stored,
         registryVars, LoaderSide, CallerSide
<1>9. EtagOK'
  <2>1. \A u \in Thread : req[u].synced = {}
    BY <1>1, LockFacts DEF IndInv, LocksFollowWork, ReqOK, ReqAt
  <2>2. \A f \in File : files[f] # None /\ f \notin odd /\ etags[f] # None => files[f] = etags[f]
    BY <2>1 DEF IndInv, EtagOK
  <2>. QED  BY <1>1, <2>2 DEF EtagOK
<1>10. CalmOK'
  <2>1. CalmAt(t)'
    <3>1. CASE req[t].job.kind = "syncAll"
      <4>1. listing = req[t].listing /\ scope = InScope(req[t].job)
        BY <3>1
      <4>2. req[t].calm => listing = bucket
        BY <1>1, <3>1, <4>1 DEF CalmAt
      <4>. QED  BY <1>1, <1>6, <3>1, <4>1, <4>2 DEF CalmAt
    <3>2. CASE req[t].job.kind # "syncAll"
      BY <1>1, <1>6, <3>2 DEF CalmAt
    <3>. QED  BY <3>1, <3>2
  <2>. QED  BY <1>1, <1>2, <1>7, <2>1, CalmKept
<1>. QED  BY <1>7, <1>8, <1>9, <1>10, RequestKeeps

\* A file is skipped.
LEMMA SkipFileStep ==
  ASSUME NEW t \in Thread, NEW f \in File, IndInv, SkipFile(t, f)
  PROVE  IndInv'
<1>1. /\ req[t].pc = "syncing" /\ f \in req[t].left /\ draft[f] = req[t].listing[f]
      /\ files[f] # None /\ Become(t, [req[t] EXCEPT !.left = @ \ {f}], {})
      /\ UNCHANGED <<registryVars, loader, caller, bucket, supabase, jobs, uploads>>
      /\ UNCHANGED <<files, suspect, etags, draft, syncLock, odd>> /\ CalmAt(t)
  BY DEF SkipFile, Unchanged, pluginVars, syncVars, IndInv, CalmOK
<1>2. /\ req[t] \in ReqType /\ ReqAt(t) /\ PulledAt(t) /\ TypeOK
      /\ syncLock = t <=> req[t].pc = "syncing"
  BY TypeFacts DEF IndInv, ReqOK, PulledOK, LocksFollowWork
<1>3. LoaderSide(t) /\ loader[t].pc = "out" /\ loader'[t].pc = "out"
  BY <1>1, <1>2, NoReload DEF InReload
<1>4. CallerSide(t) /\ caller'[t] = caller[t] /\ caller'[t].pc = "out"
  BY <1>1, NotCalling DEF InCall
<1>5. /\ req' \in [Thread -> ReqType] /\ Others(t, {})
      /\ req'[t] = [req[t] EXCEPT !.left = @ \ {f}]
  <2>1. [req[t] EXCEPT !.left = @ \ {f}] \in ReqType
    BY <1>2 DEF ReqType, ReqPc
  <2>. QED  BY <1>1, <1>2, <2>1, Becomes
<1>6. /\ req'[t].pc = "syncing" /\ req'[t].job = req[t].job
      /\ req'[t].listing = req[t].listing /\ req'[t].left = req[t].left \ {f}
      /\ req'[t].synced = req[t].synced /\ req'[t].touched = req[t].touched
      /\ req'[t].pulled = req[t].pulled /\ req'[t].calm = req[t].calm
  BY <1>1, <1>2, <1>5 DEF ReqType
<1>7. RequestSide(t, {})
  <2>1. ReqAt(t)'
    BY <1>1, <1>2, <1>3, <1>4, <1>6 DEF ReqAt, InReload, InCall
  <2>2. CallAt(t)' /\ PulledAt(t)'
    BY <1>1, <1>2, <1>4, <1>6 DEF CallAt, PulledAt
  <2>3. suspect' \/ Pending(t)' \/ (files' = files /\ ~Pending(t))
    BY <1>1, <1>2, <1>3, <1>6 DEF Pending, ReqAt, InReload
  <2>4. req'[t].pulled /\ ~Pending(t)' =>
          req[t].pulled /\ ~Pending(t) /\ req'[t].job = req[t].job
    BY <1>1, <1>2, <1>3, <1>6 DEF Pending, ReqAt, InReload, PulledAt
  <2>. QED  BY <1>1, <1>2, <1>3, <1>4, <1>5, <1>6, <2>1, <2>2, <2>3, <2>4, LockFacts
            DEF RequestSide, LoaderSide, CallerSide
<1>8. TypeOK'
  BY <1>1, <1>2, <1>3, <1>4, <1>5, TypesKept DEF TypeOK, PluginTypeOK, Stored,
         registryVars, LoaderSide, CallerSide
<1>9. EtagOK'
  BY <1>1, <1>2, <1>6, <1>7, EtagsKept DEF ReqAt
<1>10. CalmOK'
  <2>1. CalmAt(t)'
    <3>1. draft[f] # None /\ f \notin odd => files[f] = draft[f]
      BY <1>1 DEF IndInv, EtagOK
    <3>2. /\ f \in odd => f \in Overlooked(t)'
          /\ Overlooked(t)' = Overlooked(t)
      BY <1>1, <1>6 DEF Overlooked, Unchanged
    <3>. QED  BY <1>1, <1>6, <3>1, <3>2 DEF CalmAt
  <2>. QED  BY <1>1, <1>2, <1>7, <2>1, CalmKept
<1>. QED  BY <1>7, <1>8, <1>9, <1>10, RequestKeeps

\* A file is downloaded.
LEMMA DownloadStep ==
  ASSUME NEW t \in Thread, NEW f \in File, IndInv, Download(t, f)
  PROVE  IndInv'
<1>1. /\ req[t].pc = "syncing" /\ f \in req[t].left /\ bucket[f] # None
      /\ files' = [files EXCEPT ![f] = bucket[f]]
      /\ draft' = [draft EXCEPT ![f] = req[t].listing[f]]
      /\ odd' = IF bucket[f] = req[t].listing[f] THEN odd \ {f} ELSE odd \cup {f}
      /\ Become(t, [req[t] EXCEPT !.left = @ \ {f}, !.synced = @ \cup {f},
                                 !.touched = TRUE], {f})
      /\ UNCHANGED <<registryVars, loader, caller, bucket, supabase, jobs, uploads>>
      /\ UNCHANGED <<suspect, etags, syncLock>> /\ CalmAt(t)
  BY DEF Download, IndInv, CalmOK
<1>2. /\ req[t] \in ReqType /\ ReqAt(t) /\ PulledAt(t) /\ TypeOK
      /\ syncLock = t <=> req[t].pc = "syncing"
  BY TypeFacts DEF IndInv, ReqOK, PulledOK, LocksFollowWork
<1>3. LoaderSide(t) /\ loader[t].pc = "out" /\ loader'[t].pc = "out"
  BY <1>1, <1>2, NoReload DEF InReload
<1>4. CallerSide(t) /\ caller'[t] = caller[t] /\ caller'[t].pc = "out"
  BY <1>1, NotCalling DEF InCall
<1>5. /\ req' \in [Thread -> ReqType] /\ Others(t, {f})
      /\ req'[t] = [req[t] EXCEPT !.left = @ \ {f}, !.synced = @ \cup {f}, !.touched = TRUE]
  <2>1. [req[t] EXCEPT !.left = @ \ {f}, !.synced = @ \cup {f}, !.touched = TRUE] \in ReqType
    BY <1>2 DEF ReqType, ReqPc
  <2>. QED  BY <1>1, <1>2, <2>1, Becomes
<1>6. /\ req'[t].pc = "syncing" /\ req'[t].job = req[t].job
      /\ req'[t].listing = req[t].listing /\ req'[t].left = req[t].left \ {f}
      /\ req'[t].synced = req[t].synced \cup {f} /\ req'[t].touched = TRUE
      /\ req'[t].pulled = req[t].pulled /\ req'[t].calm = req[t].calm
  BY <1>1, <1>2, <1>5 DEF ReqType
<1>7. RequestSide(t, {f})
  <2>1. ReqAt(t)'
    BY <1>1, <1>2, <1>3, <1>4, <1>6 DEF ReqAt, InReload, InCall
  <2>2. CallAt(t)' /\ PulledAt(t)'
    BY <1>1, <1>2, <1>4, <1>6 DEF CallAt, PulledAt
  <2>3. suspect' \/ Pending(t)' \/ (files' = files /\ ~Pending(t))
    BY <1>1, <1>2, <1>3, <1>6 DEF Pending, ReqAt, InReload
  <2>4. req'[t].pulled /\ ~Pending(t)' =>
          req[t].pulled /\ ~Pending(t) /\ req'[t].job = req[t].job
    BY <1>1, <1>2, <1>3, <1>6 DEF Pending, ReqAt, InReload, PulledAt
  <2>. QED  BY <1>1, <1>2, <1>3, <1>4, <1>5, <1>6, <2>1, <2>2, <2>3, <2>4, LockFacts
            DEF RequestSide, LoaderSide, CallerSide
<1>8. TypeOK'
  BY <1>1, <1>2, <1>3, <1>4, <1>5, TypesKept DEF TypeOK, PluginTypeOK, Stored,
         registryVars, LoaderSide, CallerSide
<1>9. EtagOK'
  <2>1. files \in [File -> Content \cup {None}] /\ draft \in [File -> Content \cup {None}]
    BY <1>2, TypeFacts DEF Stored
  <2>2. /\ files'[f] = bucket[f] /\ draft'[f] = req[t].listing[f]
        /\ \A g \in File \ {f} : /\ files'[g] = files[g] /\ draft'[g] = draft[g]
                               /\ g \in odd' <=> g \in odd
    BY <1>1, <2>1
  <2>3. \A g \in File : (\A u \in Thread : g \notin req'[u].synced)
                         => g # f /\ \A u \in Thread : g \notin req[u].synced
    BY <1>5, <1>6 DEF Others
  <2>. QED  BY <1>1, <2>2, <2>3 DEF IndInv, EtagOK
<1>10. CalmOK'
  <2>1. CalmAt(t)'
    <3>1. files \in [File -> Content \cup {None}]
      BY <1>2, TypeFacts
    <3>2. /\ files'[f] = bucket[f]
          /\ \A g \in File \ {f} : /\ files'[g] = files[g] /\ draft'[g] = draft[g]
                                 /\ g \in odd' <=> g \in odd
      BY <1>1, <1>2, <3>1, TypeFacts DEF Stored
    <3>3. \A g \in File \ {f} : g \in Overlooked(t) => g \in Overlooked(t)'
      BY <1>6, <3>2 DEF Overlooked, Unchanged
    <3>. QED  BY <1>1, <1>6, <3>2, <3>3 DEF CalmAt
  <2>. QED  BY <1>1, <1>2, <1>7, <2>1, CalmKept
<1>. QED  BY <1>7, <1>8, <1>9, <1>10, RequestKeeps

\* A download fails.
LEMMA DownloadFailsStep ==
  ASSUME NEW t \in Thread, NEW f \in File, IndInv, DownloadFails(t, f)
  PROVE  IndInv'
<1>1. /\ req[t].pc = "syncing" /\ f \in req[t].left
      /\ Become(t, [req[t] EXCEPT !.left = @ \ {f}, !.calm = FALSE], {})
      /\ UNCHANGED <<registryVars, loader, caller, bucket, supabase, jobs, uploads>>
      /\ UNCHANGED <<files, suspect, etags, draft, syncLock, odd>>
  BY DEF DownloadFails, Noted, pluginVars
<1>2. /\ req[t] \in ReqType /\ ReqAt(t) /\ PulledAt(t) /\ TypeOK
      /\ syncLock = t <=> req[t].pc = "syncing"
  BY TypeFacts DEF IndInv, ReqOK, PulledOK, LocksFollowWork
<1>3. LoaderSide(t) /\ loader[t].pc = "out" /\ loader'[t].pc = "out"
  BY <1>1, <1>2, NoReload DEF InReload
<1>4. CallerSide(t) /\ caller'[t] = caller[t] /\ caller'[t].pc = "out"
  BY <1>1, NotCalling DEF InCall
<1>5. /\ req' \in [Thread -> ReqType] /\ Others(t, {})
      /\ req'[t] = [req[t] EXCEPT !.left = @ \ {f}, !.calm = FALSE]
  <2>1. [req[t] EXCEPT !.left = @ \ {f}, !.calm = FALSE] \in ReqType
    BY <1>2 DEF ReqType, ReqPc
  <2>. QED  BY <1>1, <1>2, <2>1, Becomes
<1>6. /\ req'[t].pc = "syncing" /\ req'[t].job = req[t].job
      /\ req'[t].listing = req[t].listing /\ req'[t].left = req[t].left \ {f}
      /\ req'[t].synced = req[t].synced /\ req'[t].touched = req[t].touched
      /\ req'[t].pulled = req[t].pulled /\ req'[t].calm = FALSE
  BY <1>1, <1>2, <1>5 DEF ReqType
<1>7. RequestSide(t, {})
  <2>1. ReqAt(t)'
    BY <1>1, <1>2, <1>3, <1>4, <1>6 DEF ReqAt, InReload, InCall
  <2>2. CallAt(t)' /\ PulledAt(t)'
    BY <1>1, <1>2, <1>4, <1>6 DEF CallAt, PulledAt
  <2>3. suspect' \/ Pending(t)' \/ (files' = files /\ ~Pending(t))
    BY <1>1, <1>2, <1>3, <1>6 DEF Pending, ReqAt, InReload
  <2>4. req'[t].pulled /\ ~Pending(t)' =>
          req[t].pulled /\ ~Pending(t) /\ req'[t].job = req[t].job
    BY <1>1, <1>2, <1>3, <1>6 DEF Pending, ReqAt, InReload, PulledAt
  <2>. QED  BY <1>1, <1>2, <1>3, <1>4, <1>5, <1>6, <2>1, <2>2, <2>3, <2>4, LockFacts
            DEF RequestSide, LoaderSide, CallerSide
<1>8. TypeOK'
  BY <1>1, <1>2, <1>3, <1>4, <1>5, TypesKept DEF TypeOK, PluginTypeOK, Stored,
         registryVars, LoaderSide, CallerSide
<1>9. EtagOK'
  BY <1>1, <1>2, <1>6, <1>7, EtagsKept DEF ReqAt
<1>10. CalmOK'
  <2>1. CalmAt(t)'
    BY <1>6 DEF CalmAt
  <2>. QED  BY <1>1, <1>2, <1>7, <2>1, CalmKept
<1>. QED  BY <1>7, <1>8, <1>9, <1>10, RequestKeeps

\* A sync that changed files ends with a reload.
LEMMA FinishReloadsStep ==
  ASSUME NEW t \in Thread, NEW gone \in SUBSET Orphans(t), IndInv, Finishes(t, gone),
         Become(t, [Idle EXCEPT !.pc = "reloadSynced", !.job = req[t].job,
                                !.touched = TRUE], gone),
         StartReload(t), UNCHANGED suspect
  PROVE  IndInv'
<1>1. /\ req[t].pc = "syncing"
      /\ files' = [f \in File |-> IF f \in gone THEN None ELSE files[f]]
      /\ (etags' = draft /\ UNCHANGED odd) \/ (UNCHANGED etags /\ odd' = odd \cup req[t].synced)
      /\ syncLock' = None /\ draft' = [f \in File |-> None]
      /\ UNCHANGED <<registryVars, caller, bucket, supabase, jobs, uploads>> /\ t # None
  BY LockFacts DEF Finishes
<1>2. /\ req[t] \in ReqType /\ ReqAt(t) /\ PulledAt(t) /\ TypeOK
      /\ syncLock = t <=> req[t].pc = "syncing"
  BY TypeFacts DEF IndInv, ReqOK, PulledOK, LocksFollowWork
<1>3. LoaderSide(t) /\ loader'[t].pc = "locking"
  BY <1>1, <1>2, StartsReload DEF ReqAt, InReload
<1>4. CallerSide(t) /\ caller'[t] = caller[t] /\ caller'[t].pc = "out"
  BY <1>1, NotCalling DEF InCall
<1>5. /\ req' \in [Thread -> ReqType] /\ Others(t, gone)
      /\ req'[t] = [Idle EXCEPT !.pc = "reloadSynced", !.job = req[t].job, !.touched = TRUE]
  <2>1. [Idle EXCEPT !.pc = "reloadSynced", !.job = req[t].job, !.touched = TRUE] \in ReqType
    <3>1. req[t].job \in JobType
      BY <1>1, <1>2 DEF ReqAt
    <3>. QED  BY <3>1, IdleType DEF ReqType, ReqPc
  <2>. QED  BY <1>1, <1>2, <2>1, Becomes
<1>6. /\ req'[t].pc = "reloadSynced" /\ req'[t].job = req[t].job
      /\ req'[t].listing = [f \in File |-> None] /\ req'[t].left = {}
      /\ req'[t].synced = {} /\ req'[t].touched = TRUE /\ req'[t].pulled = FALSE
      /\ req'[t].calm = FALSE
  BY <1>5, IdleType DEF ReqType
<1>7. RequestSide(t, gone)
  <2>1. ReqAt(t)'
    BY <1>1, <1>2, <1>3, <1>4, <1>6 DEF ReqAt, InReload, InCall
  <2>2. CallAt(t)' /\ PulledAt(t)'
    BY <1>1, <1>2, <1>4, <1>6 DEF CallAt, PulledAt
  <2>3. suspect' \/ Pending(t)' \/ (files' = files /\ ~Pending(t))
    BY <1>1, <1>2, <1>3, <1>6 DEF Pending, ReqAt, InReload
  <2>4. req'[t].pulled /\ ~Pending(t)' =>
          req[t].pulled /\ ~Pending(t) /\ req'[t].job = req[t].job
    BY <1>1, <1>2, <1>3, <1>6 DEF Pending, ReqAt, InReload, PulledAt
  <2>. QED  BY <1>1, <1>2, <1>3, <1>4, <1>5, <1>6, <2>1, <2>2, <2>3, <2>4, LockFacts
            DEF RequestSide, LoaderSide, CallerSide
<1>8. TypeOK'
  BY <1>1, <1>2, <1>3, <1>4, <1>5, TypesKept DEF TypeOK, PluginTypeOK, Stored,
         registryVars, LoaderSide, CallerSide
<1>9. EtagOK'
  <2>1. \A u \in Thread \ {t} : req[u].synced = {}
    BY <1>1, <1>2 DEF IndInv, LocksFollowWork, ReqOK, ReqAt
  <2>2. ASSUME NEW f \in File, files'[f] # None, f \notin odd'
        PROVE  /\ draft'[f] = None
               /\ etags'[f] # None => files'[f] = etags'[f]
    <3>1. files'[f] = files[f] /\ f \notin odd
      BY <1>1, <2>2
    <3>2. CASE etags' = draft
      BY <1>1, <2>2, <3>1, <3>2 DEF IndInv, EtagOK
    <3>3. CASE UNCHANGED etags /\ odd' = odd \cup req[t].synced
      <4>1. \A u \in Thread : f \notin req[u].synced
        BY <2>1, <2>2, <3>3
      <4>. QED  BY <1>1, <2>2, <3>1, <3>3, <4>1 DEF IndInv, EtagOK
    <3>. QED  BY <1>1, <3>2, <3>3
  <2>. QED  BY <2>2 DEF EtagOK
<1>10. CalmOK'
  <2>1. CalmAt(t)'
    BY <1>6 DEF CalmAt
  <2>. QED  BY <1>1, <1>2, <1>7, <2>1, CalmKept
<1>. QED  BY <1>7, <1>8, <1>9, <1>10, RequestKeeps

\* A sync that changed nothing ends.
LEMMA FinishAnswersStep ==
  ASSUME NEW t \in Thread, IndInv, Finishes(t, {}), req[t].synced = {},
         Answer(t), UNCHANGED loader
  PROVE  IndInv'
<1>1. /\ req[t].pc = "syncing" /\ files' = files
      /\ (etags' = draft /\ UNCHANGED odd) \/ UNCHANGED <<etags, odd>>
      /\ syncLock' = None /\ draft' = [f \in File |-> None] /\ Become(t, Idle, {})
      /\ suspect' = (suspect \/ req[t].touched)
      /\ UNCHANGED <<registryVars, loader, caller, bucket, supabase, jobs, uploads>>
      /\ t # None
  BY LockFacts, TypeFacts DEF Finishes, Answer, IndInv
<1>2. /\ req[t] \in ReqType /\ ReqAt(t) /\ PulledAt(t) /\ TypeOK
      /\ syncLock = t <=> req[t].pc = "syncing"
  BY TypeFacts DEF IndInv, ReqOK, PulledOK, LocksFollowWork
<1>3. LoaderSide(t) /\ loader[t].pc = "out" /\ loader'[t].pc = "out"
  BY <1>1, <1>2, NoReload DEF InReload
<1>4. CallerSide(t) /\ caller'[t] = caller[t] /\ caller'[t].pc = "out"
  BY <1>1, NotCalling DEF InCall
<1>5. /\ req' \in [Thread -> ReqType] /\ Others(t, {})
      /\ req'[t] = Idle
  <2>1. Idle \in ReqType
    BY IdleType
  <2>. QED  BY <1>1, <1>2, <2>1, Becomes
<1>6. /\ req'[t].pc = "idle" /\ req'[t].job = None
      /\ req'[t].listing = [f \in File |-> None] /\ req'[t].left = {}
      /\ req'[t].synced = {} /\ req'[t].touched = FALSE /\ req'[t].pulled = FALSE
      /\ req'[t].calm = FALSE
  BY <1>5, IdleType
<1>7. RequestSide(t, {})
  <2>1. ReqAt(t)'
    BY <1>1, <1>2, <1>3, <1>4, <1>6 DEF ReqAt, InReload, InCall
  <2>2. CallAt(t)' /\ PulledAt(t)'
    BY <1>1, <1>2, <1>4, <1>6 DEF CallAt, PulledAt
  <2>3. suspect' \/ Pending(t)' \/ (files' = files /\ ~Pending(t))
    BY <1>1, <1>2, <1>3, <1>6 DEF Pending, ReqAt, InReload
  <2>4. req'[t].pulled /\ ~Pending(t)' =>
          req[t].pulled /\ ~Pending(t) /\ req'[t].job = req[t].job
    BY <1>1, <1>2, <1>3, <1>6 DEF Pending, ReqAt, InReload, PulledAt
  <2>. QED  BY <1>1, <1>2, <1>3, <1>4, <1>5, <1>6, <2>1, <2>2, <2>3, <2>4, LockFacts
            DEF RequestSide, LoaderSide, CallerSide
<1>8. TypeOK'
  BY <1>1, <1>2, <1>3, <1>4, <1>5, TypesKept DEF TypeOK, PluginTypeOK, Stored,
         registryVars, LoaderSide, CallerSide
<1>9. EtagOK'
  <2>1. \A u \in Thread \ {t} : req[u].synced = {}
    BY <1>1, <1>2 DEF IndInv, LocksFollowWork, ReqOK, ReqAt
  <2>2. \A f \in File : \A u \in Thread : f \notin req[u].synced
    BY <2>1
  <2>. QED  BY <1>1, <2>2 DEF IndInv, EtagOK
<1>10. CalmOK'
  <2>1. CalmAt(t)'
    BY <1>6 DEF CalmAt
  <2>. QED  BY <1>1, <1>2, <1>7, <2>1, CalmKept
<1>. QED  BY <1>7, <1>8, <1>9, <1>10, RequestKeeps

\* A sync fails.
LEMMA SyncRaisesStep ==
  ASSUME NEW t \in Thread, IndInv, SyncRaises(t)
  PROVE  IndInv'
<1>1. /\ req[t].pc = "syncing" /\ odd' = odd \cup req[t].synced /\ syncLock' = None
      /\ draft' = [f \in File |-> None] /\ Become(t, Idle, {})
      /\ suspect' = (suspect \/ req[t].touched)
      /\ UNCHANGED <<registryVars, loader, caller, bucket, supabase, jobs, uploads>>
      /\ UNCHANGED <<files, etags>> /\ t # None
  BY LockFacts DEF SyncRaises, Answer, Released
<1>2. /\ req[t] \in ReqType /\ ReqAt(t) /\ PulledAt(t) /\ TypeOK
      /\ syncLock = t <=> req[t].pc = "syncing"
  BY TypeFacts DEF IndInv, ReqOK, PulledOK, LocksFollowWork
<1>3. LoaderSide(t) /\ loader[t].pc = "out" /\ loader'[t].pc = "out"
  BY <1>1, <1>2, NoReload DEF InReload
<1>4. CallerSide(t) /\ caller'[t] = caller[t] /\ caller'[t].pc = "out"
  BY <1>1, NotCalling DEF InCall
<1>5. /\ req' \in [Thread -> ReqType] /\ Others(t, {})
      /\ req'[t] = Idle
  <2>1. Idle \in ReqType
    BY IdleType
  <2>. QED  BY <1>1, <1>2, <2>1, Becomes
<1>6. /\ req'[t].pc = "idle" /\ req'[t].job = None
      /\ req'[t].listing = [f \in File |-> None] /\ req'[t].left = {}
      /\ req'[t].synced = {} /\ req'[t].touched = FALSE /\ req'[t].pulled = FALSE
      /\ req'[t].calm = FALSE
  BY <1>5, IdleType
<1>7. RequestSide(t, {})
  <2>1. ReqAt(t)'
    BY <1>1, <1>2, <1>3, <1>4, <1>6 DEF ReqAt, InReload, InCall
  <2>2. CallAt(t)' /\ PulledAt(t)'
    BY <1>1, <1>2, <1>4, <1>6 DEF CallAt, PulledAt
  <2>3. suspect' \/ Pending(t)' \/ (files' = files /\ ~Pending(t))
    BY <1>1, <1>2, <1>3, <1>6 DEF Pending, ReqAt, InReload
  <2>4. req'[t].pulled /\ ~Pending(t)' =>
          req[t].pulled /\ ~Pending(t) /\ req'[t].job = req[t].job
    BY <1>1, <1>2, <1>3, <1>6 DEF Pending, ReqAt, InReload, PulledAt
  <2>. QED  BY <1>1, <1>2, <1>3, <1>4, <1>5, <1>6, <2>1, <2>2, <2>3, <2>4, LockFacts
            DEF RequestSide, LoaderSide, CallerSide
<1>8. TypeOK'
  BY <1>1, <1>2, <1>3, <1>4, <1>5, TypesKept DEF TypeOK, PluginTypeOK, Stored,
         registryVars, LoaderSide, CallerSide
<1>9. EtagOK'
  BY <1>1, <1>2, <1>6, <1>7, EtagsKept DEF ReqAt
<1>10. CalmOK'
  <2>1. CalmAt(t)'
    BY <1>6 DEF CalmAt
  <2>. QED  BY <1>1, <1>2, <1>7, <2>1, CalmKept
<1>. QED  BY <1>7, <1>8, <1>9, <1>10, RequestKeeps

\* The bucket is listed, and clean_first removes the directory of the user.
LEMMA ListBucketStep ==
  ASSUME NEW t \in Thread, IndInv, ListBucket(t)
  PROVE  IndInv'
<1>1. PICK gone \in SUBSET File :
        /\ files' = [f \in File |-> IF f \in gone THEN None ELSE files[f]]
        /\ Become(t, [req[t] EXCEPT !.pc = "waiting", !.listing = bucket, !.calm = TRUE,
                                    !.touched = gone # {}], gone)
  <2>1. ToClean(req[t].job) \subseteq File
    BY DEF ToClean, InScope
  <2>. QED  BY <2>1 DEF ListBucket
<1>2. /\ req[t] \in ReqType /\ ReqAt(t) /\ PulledAt(t) /\ TypeOK /\ bucket \in Stored
      /\ syncLock = t <=> req[t].pc = "syncing"
  BY TypeFacts DEF IndInv, ReqOK, PulledOK, LocksFollowWork
<1>a. /\ req[t].pc = "listing"
      /\ UNCHANGED <<registryVars, loader, caller, suspect, bucket, supabase, etags, draft,
                     syncLock, jobs, uploads, odd>>
      /\ gone = {} => files' = files
  BY <1>1, <1>2, TypeFacts DEF ListBucket, syncVars
<1>3. LoaderSide(t) /\ loader[t].pc = "out" /\ loader'[t].pc = "out"
  BY <1>a, NoReload DEF InReload
<1>4. CallerSide(t) /\ caller'[t] = caller[t] /\ caller'[t].pc = "out"
  BY <1>a, NotCalling DEF InCall
<1>5. /\ req' \in [Thread -> ReqType] /\ Others(t, gone)
      /\ req'[t] = [req[t] EXCEPT !.pc = "waiting", !.listing = bucket, !.calm = TRUE,
                                  !.touched = gone # {}]
  <2>. DEFINE some == gone # {}
  <2>1. some \in BOOLEAN
    OBVIOUS
  <2>. HIDE DEF some
  <2>2. [req[t] EXCEPT !.pc = "waiting", !.listing = bucket, !.calm = TRUE, !.touched = some]
          \in ReqType
    BY <1>2, <2>1 DEF ReqType, ReqPc
  <2>. QED  BY <1>1, <1>2, <2>2, Becomes DEF some
<1>6. /\ req'[t].pc = "waiting" /\ req'[t].job = req[t].job /\ req'[t].listing = bucket
      /\ req'[t].left = req[t].left /\ req'[t].synced = req[t].synced
      /\ req'[t].touched = (gone # {}) /\ req'[t].pulled = req[t].pulled
      /\ req'[t].calm = TRUE
  BY <1>2, <1>5 DEF ReqType
<1>7. RequestSide(t, gone)
  <2>1. ReqAt(t)'
    BY <1>2, <1>3, <1>4, <1>6, <1>a DEF ReqAt, InReload, InCall
  <2>2. CallAt(t)' /\ PulledAt(t)'
    BY <1>2, <1>4, <1>6, <1>a DEF CallAt, PulledAt
  <2>3. Pending(t)' \/ (files' = files /\ ~Pending(t))
    BY <1>2, <1>3, <1>6, <1>a DEF Pending, ReqAt
  <2>4. ~req'[t].pulled
    BY <1>2, <1>6, <1>a DEF PulledAt
  <2>. QED  BY <1>1, <1>2, <1>3, <1>4, <1>5, <1>6, <1>a, <2>1, <2>2, <2>3, <2>4, LockFacts
            DEF RequestSide, LoaderSide, CallerSide
<1>8. TypeOK'
  <2>1. files' \in Stored
    BY <1>1, TypeFacts DEF IndInv, Stored
  <2>. QED  BY <1>2, <1>3, <1>4, <1>5, <1>a, <2>1, TypesKept
            DEF TypeOK, PluginTypeOK, registryVars, LoaderSide, CallerSide
<1>9. EtagOK'
  <2>1. \A f \in File : files'[f] # None => files'[f] = files[f]
    BY <1>1
  <2>2. \A u \in Thread : req'[u].synced = req[u].synced
    BY <1>5, <1>6 DEF Others
  <2>. QED  BY <1>a, <2>1, <2>2 DEF IndInv, EtagOK
<1>10. CalmOK'
  <2>1. CalmAt(t)'
    BY <1>2, <1>6, <1>a DEF CalmAt, ReqAt
  <2>. QED  BY <1>7, <1>a, <2>1, CalmKept
<1>. QED  BY <1>7, <1>8, <1>9, <1>10, RequestKeeps

\* A client changes a store.
LEMMA UploadStep ==
  ASSUME NEW c \in Change, IndInv, Upload(c)
  PROVE  IndInv'
<1>1. /\ UNCHANGED <<files, registryVars, loader, caller, suspect, etags, draft, syncLock,
                     jobs, odd>>
      /\ uploads' = uploads + 1 /\ uploads < MaxUploads
      /\ \/ /\ bucket' = [bucket EXCEPT ![c.file] = c.content]
            /\ req' = [t \in Thread |-> [req[t] EXCEPT !.calm = FALSE]]
            /\ UNCHANGED supabase
         \/ /\ supabase' = [supabase EXCEPT ![c.file] = c.content]
            /\ UNCHANGED <<bucket, req>>
  BY DEF Upload, pluginVars
<1>2. /\ tools' = tools /\ builtin' = builtin /\ index' = index /\ errors' = errors
      /\ loaded' = loaded /\ reloadLock' = reloadLock
  BY <1>1 DEF registryVars
<1>3. req \in [Thread -> ReqType] /\ bucket \in Stored /\ supabase \in Stored /\ TypeOK
  BY TypeFacts DEF IndInv
<1>4. ASSUME NEW t \in Thread
      PROVE  /\ req'[t] \in ReqType
             /\ req'[t].pc = req[t].pc /\ req'[t].job = req[t].job
             /\ req'[t].listing = req[t].listing /\ req'[t].left = req[t].left
             /\ req'[t].synced = req[t].synced /\ req'[t].touched = req[t].touched
             /\ req'[t].pulled = req[t].pulled
             /\ req'[t].calm => req[t].calm /\ bucket' = bucket
  <2>1. req[t] \in ReqType
    BY <1>3
  <2>2. CASE req'[t] = [req[t] EXCEPT !.calm = FALSE]
    BY <2>1, <2>2 DEF ReqType
  <2>3. CASE req'[t] = req[t] /\ bucket' = bucket
    BY <2>1, <2>3
  <2>. QED  BY <1>1, <2>2, <2>3
<1>5. TypeOK'
  <2>1. req' \in [Thread -> ReqType]
    BY <1>1, <1>3, <1>4
  <2>2. bucket' \in Stored /\ supabase' \in Stored
    BY <1>1, <1>3, ChangeAssumption DEF Stored
  <2>3. uploads' \in 0 .. MaxUploads
    BY <1>1, <1>3, BoundAssumption DEF TypeOK
  <2>4. loader' \in [Loaders -> LoadType] /\ caller' \in [Thread -> CallType]
    BY <1>1, TypeFacts DEF IndInv
  <2>. QED  BY <1>1, <1>3, <2>1, <2>2, <2>3, <2>4, TypesKept DEF TypeOK, PluginTypeOK,
               Stored
<1>6. LocksFollowWork' /\ LoaderOK'
  BY <1>1, <1>2, <1>4 DEF IndInv, LocksFollowWork, LoaderOK, Loading
<1>7. ReqOK' /\ CallerOK' /\ PulledOK'
  <2>1. SUFFICES ASSUME NEW t \in Thread
                 PROVE  ReqAt(t)' /\ CallAt(t)' /\ PulledAt(t)'
    BY DEF ReqOK, CallerOK, PulledOK
  <2>2. ReqAt(t) /\ CallAt(t) /\ PulledAt(t)
    BY DEF IndInv, ReqOK, CallerOK, PulledOK
  <2>3. ReqAt(t)'
    BY <1>1, <1>4, <2>2 DEF ReqAt
  <2>4. CallAt(t)'
    BY <1>1, <1>2, <1>4, <2>2 DEF CallAt
  <2>5. PulledAt(t)'
    BY <1>1, <1>4, <2>2 DEF PulledAt
  <2>. QED  BY <2>3, <2>4, <2>5
<1>8. /\ \A t \in Thread : Pending(t)' <=> Pending(t)
      /\ \A u \in Loaders : Loading(u)' <=> Loading(u)
      /\ \A f \in File : Exact(f)' <=> Exact(f)
  BY <1>1, <1>2, <1>4 DEF Pending, Loading, Exact
<1>9. (SomePending' <=> SomePending) /\ (NoLoading' <=> NoLoading)
  BY <1>8 DEF SomePending, NoLoading
<1>10. IndexOK' /\ SoleOK'
  BY <1>1, <1>2, <1>8 DEF IndInv, IndexOK, SoleOK
<1>11. ProgressOK'
  BY <1>1, <1>2, <1>8, <1>9 DEF IndInv, ProgressOK
<1>12. RestOK'
  BY <1>1, <1>2, <1>8, <1>9 DEF IndInv, RestOK
<1>13. PulledLoads'
  BY <1>1, <1>2, <1>4, <1>8, <1>9 DEF IndInv, PulledLoads
<1>14. SteadyOK' /\ CallsFindOwnTool' /\ NobodyElsesTool'
  BY <1>1, <1>2 DEF IndInv, SteadyOK, SteadyAt, CallsFindOwnTool, NobodyElsesTool
<1>15. RetryFindsTool'
  BY <1>1, <1>4 DEF IndInv, RetryFindsTool
<1>16. EtagOK'
  BY <1>1, <1>4 DEF IndInv, EtagOK
<1>17. CalmOK'
  <2>1. SUFFICES ASSUME NEW t \in Thread, req'[t].calm
                 PROVE  CalmAt(t)'
    BY DEF CalmOK, CalmAt
  <2>2. CalmAt(t) /\ bucket' = bucket /\ req[t].calm
    BY <1>4, <2>1 DEF IndInv, CalmOK
  <2>3. Overlooked(t)' = Overlooked(t)
    BY <1>1, <1>4 DEF Overlooked, Unchanged
  <2>. QED  BY <1>1, <1>4, <2>2, <2>3 DEF CalmAt
<1>. QED  BY <1>5, <1>6, <1>7, <1>10, <1>11, <1>12, <1>13, <1>14, <1>15, <1>16, <1>17
          DEF IndInv

-----------------------------------------------------------------------------
(***************************************************************************)
(* The steps of call_tool_direct.                                                 *)
(***************************************************************************)

\* The properties of calls, for one thread.
OwnFound(t) ==
  LET c == caller[t] IN
    /\ c.pc = "done" /\ ~c.overlap /\ ~suspect
    /\ tools[c.file] # None /\ c.who = Owner[c.file]
    /\ c.form = "short" => Name[c.file] \notin BuiltinName
    => /\ c.from # None /\ Name[c.from] = Name[c.file] /\ c.got = tools[c.from]
       /\ c.form # "short" => c.from = c.file

OnlyOwn(t) ==
  LET c == caller[t] IN
    c.pc = "done" /\ c.got \in Good => c.from # None /\ c.who = Owner[c.from]

RetryFound(t) ==
  LET c == caller[t] IN
    req[t].pc = "recalling" /\ c.pc = "done" /\ req[t].pulled =>
      \/ c.from = c.file /\ c.got = files[c.file]
      \/ c.form = "short" /\ c.got \in Good \cup {"builtin"}
      \/ c.overlap \/ suspect

\* Caller t goes on to p, with the answer x of the tool of g and the given overlap.
CallMoves(t, p, x, g, late) ==
  /\ caller' = [caller EXCEPT ![t].pc = p, ![t].got = x, ![t].from = g, ![t].overlap = late]
  /\ UNCHANGED <<files, registryVars, loader, suspect, syncVars, req>>

\* What such a step does to the calls.
LEMMA CallFrame ==
  ASSUME IndInv, NEW t \in Thread, NEW p \in CallerPc \ {"out"},
         NEW x \in Good \cup Failure \cup {"builtin", None}, NEW g \in File \cup {None},
         NEW late \in BOOLEAN, caller[t].pc # "out", CallMoves(t, p, x, g, late)
  PROVE  /\ caller' \in [Thread -> CallType]
         /\ \A u \in Thread \ {t} : caller'[u] = caller[u]
         /\ caller'[t].pc = p /\ caller'[t].got = x /\ caller'[t].from = g
         /\ caller'[t].overlap = late
         /\ caller'[t].who = caller[t].who /\ caller'[t].file = caller[t].file
         /\ caller'[t].form = caller[t].form /\ caller[t].file \in File
<1>1. caller \in [Thread -> CallType]
  BY TypeFacts DEF IndInv
<1>. DEFINE c == [caller[t] EXCEPT !.pc = p, !.got = x, !.from = g, !.overlap = late]
<1>2. caller' = [caller EXCEPT ![t] = c]
  BY <1>1 DEF CallMoves
<1>3. /\ c \in CallType /\ c.pc = p /\ c.got = x /\ c.from = g /\ c.overlap = late
      /\ c.who = caller[t].who /\ c.file = caller[t].file /\ c.form = caller[t].form
  BY <1>1 DEF CallType
<1>4. caller[t].file \in File
  BY DEF IndInv, CallerOK, CallAt
<1>. HIDE DEF c
<1>. QED  BY <1>1, <1>2, <1>3, <1>4

\* Only its own call has anything to account for.
LEMMA CallKeeps ==
  ASSUME IndInv, NEW t \in Thread, NEW p \in CallerPc \ {"out"},
         NEW x \in Good \cup Failure \cup {"builtin", None}, NEW g \in File \cup {None},
         NEW late \in BOOLEAN, caller[t].pc # "out", CallMoves(t, p, x, g, late),
         CallAt(t)', SteadyAt(t)', OwnFound(t)', OnlyOwn(t)', RetryFound(t)'
  PROVE  IndInv'
<1>1. /\ caller' \in [Thread -> CallType]
      /\ \A u \in Thread \ {t} : caller'[u] = caller[u]
      /\ caller'[t].pc # "out"
  BY CallFrame
<1>2. /\ UNCHANGED <<files, tools, builtin, index, errors, loaded, reloadLock, loader,
                     suspect>>
      /\ UNCHANGED <<bucket, supabase, etags, draft, syncLock, jobs, uploads, odd, req>>
  BY DEF CallMoves, registryVars, syncVars
<1>3. TypeOK'
  BY <1>1, <1>2 DEF IndInv, TypeOK, PluginTypeOK, CallType
<1>4. LocksFollowWork' /\ LoaderOK' /\ IndexOK' /\ SoleOK' /\ ProgressOK' /\ RestOK' /\ PulledLoads'
  BY <1>2 DEF IndInv, LocksFollowWork, LoaderOK, IndexOK, SoleOK, ProgressOK, RestOK,
     PulledLoads,
     Loading, NoLoading, Pending, SomePending, Exact
<1>5. PulledOK' /\ EtagOK' /\ CalmOK'
  BY <1>2 DEF IndInv, PulledOK, PulledAt, EtagOK, CalmOK, CalmAt, Overlooked, Unchanged
<1>6. ReqOK'
  <2>1. ASSUME NEW u \in Thread
        PROVE  caller'[u].pc # "out" <=> caller[u].pc # "out"
    BY <1>1
  <2>. QED  BY <1>2, <2>1 DEF IndInv, ReqOK, ReqAt
<1>7. ASSUME NEW u \in Thread \ {t}
      PROVE  CallAt(u)' /\ SteadyAt(u)' /\ OwnFound(u)' /\ OnlyOwn(u)' /\ RetryFound(u)'
  <2>1. CallAt(u) /\ SteadyAt(u) /\ OwnFound(u) /\ OnlyOwn(u) /\ RetryFound(u)
    BY DEF IndInv, CallerOK, SteadyOK, CallsFindOwnTool, NobodyElsesTool,
           RetryFindsTool, OwnFound, OnlyOwn, RetryFound
  <2>. QED  BY <1>1, <1>2, <2>1 DEF CallAt, SteadyAt, OwnFound, OnlyOwn, RetryFound
<1>8. CallerOK' /\ SteadyOK'
  BY <1>7 DEF CallerOK, SteadyOK
<1>9. CallsFindOwnTool' /\ NobodyElsesTool' /\ RetryFindsTool'
  BY <1>7 DEF CallsFindOwnTool, NobodyElsesTool, RetryFindsTool, OwnFound, OnlyOwn,
     RetryFound
<1>. QED  BY <1>3, <1>4, <1>5, <1>6, <1>8, <1>9 DEF IndInv

\* Registered is not nothing, no answer of a tool is an error, and owners are users.
LEMMA CallFacts ==
  ASSUME IndInv, NEW t \in Thread
  PROVE  /\ CallAt(t) /\ SteadyAt(t) /\ ReqAt(t) /\ PulledAt(t)
         /\ caller[t] \in CallType
         /\ \A f \in File : /\ tools[f] \in Good \cup {None} /\ tools[f] # "builtin"
                            /\ f \in index <=> tools[f] # None
                            /\ Owner[f] # None
<1>1. CallAt(t) /\ SteadyAt(t) /\ ReqAt(t) /\ PulledAt(t) /\ caller[t] \in CallType
  BY TypeFacts DEF IndInv, CallerOK, SteadyOK, ReqOK, PulledOK
<1>2. ASSUME NEW f \in File
      PROVE  /\ tools[f] \in Good \cup {None} /\ tools[f] # "builtin"
             /\ f \in index <=> tools[f] # None
             /\ Owner[f] # None
  <2>1. tools[f] \in Good \cup {None}
    BY TypeFacts DEF IndInv
  <2>2. tools[f] # "builtin"
    BY <2>1, ContentAssumption, AnswerAssumption
  <2>3. Owner[f] # None
    BY FileAssumption, AbsentAssumption
  <2>. QED  BY <2>1, <2>2, <2>3 DEF IndInv, IndexOK
<1>. QED  BY <1>1, <1>2

\* An undisturbed retry finds the pulled tool in TOOLS.
LEMMA PulledIsThere ==
  ASSUME IndInv, NEW t \in Thread, req[t].pc = "recalling", req[t].pulled,
         caller[t].pc \notin {"out", "gate"}, ~caller[t].overlap, ~suspect
  PROVE  /\ tools[caller[t].file] = files[caller[t].file] /\ tools[caller[t].file] \in Good
         /\ caller[t].file \in File
         /\ caller[t].form # "key" /\ caller[t].who = Owner[caller[t].file]
<1>1. CallAt(t) /\ ReqAt(t) /\ PulledAt(t)
  BY CallFacts
<1>2. loaded
  BY <1>1 DEF CallAt
<1>3. NoLoading
  BY <1>2 DEF IndInv, SoleOK, NoLoading
<1>4. ~Pending(t)
  BY <1>1 DEF ReqAt, Pending, InCall
<1>5. /\ tools[req[t].job.file] = files[req[t].job.file]
      /\ files[req[t].job.file] \in Good
  BY <1>1, <1>3, <1>4 DEF IndInv, PulledLoads, PulledAt
<1>6. /\ caller[t].file = req[t].job.file /\ caller[t].file \in File
      /\ caller[t].who = req[t].job.who /\ caller[t].form = req[t].job.form
  BY <1>1 DEF CallAt
<1>7. /\ req[t].job.kind = "legacyCall" /\ req[t].job.form # "key" /\ req[t].job.who # None
      /\ req[t].job.file # None /\ req[t].job.form \in Form
  BY <1>1, <1>6, AbsentAssumption DEF ReqAt, PulledAt, JobType
<1>8. req[t].job.who = Owner[req[t].job.file]
  BY <1>1, <1>7 DEF ReqAt, Form
<1>. QED  BY <1>5, <1>6, <1>7, <1>8

\* A call passes the event, or gives up waiting for it.
LEMMA CallGateStep ==
  ASSUME NEW t \in Thread, IndInv, CallGate(t) \/ CallGateTimesOut(t), UNCHANGED <<syncVars, req>>
  PROVE  IndInv'
<1>. DEFINE p == IF caller[t].form = "category" THEN "own" ELSE "direct"
<1>1. PICK late \in BOOLEAN : caller[t].pc = "gate" /\ Enter(t, late) /\ (late \/ loaded)
  BY DEF CallGate, CallGateTimesOut, Enter
<1>2. CallMoves(t, p, caller[t].got, caller[t].from, late)
  <2>1. caller \in [Thread -> CallType]
    BY TypeFacts DEF IndInv
  <2>. QED  BY <1>1, <2>1 DEF Enter, CallMoves, CallType
<1>3. /\ p \in CallerPc \ {"out"} /\ caller[t].got \in Good \cup Failure \cup {"builtin", None}
      /\ caller[t].from \in File \cup {None}
  BY CallFacts DEF CallerPc, CallType
<1>4. /\ caller'[t].pc = p /\ caller'[t].overlap = late
      /\ caller'[t].who = caller[t].who /\ caller'[t].file = caller[t].file
      /\ caller'[t].form = caller[t].form /\ caller[t].file \in File
  BY <1>1, <1>2, <1>3, CallFrame
<1>5. loaded' = loaded /\ req' = req
  BY <1>2 DEF CallMoves, registryVars
<1>6. CallAt(t)'
  BY <1>1, <1>4, <1>5, CallFacts DEF CallAt
<1>7. SteadyAt(t)' /\ OwnFound(t)' /\ OnlyOwn(t)' /\ RetryFound(t)'
  BY <1>4 DEF SteadyAt, OwnFound, OnlyOwn, RetryFound
<1>. QED  BY <1>1, <1>2, <1>3, <1>6, <1>7, CallKeeps

\* The key of the own tool is looked for, or the name.
LEMMA CallLookStep ==
  ASSUME NEW t \in Thread, IndInv, CallOwn(t) \/ CallDirect(t), UNCHANGED <<syncVars, req>>
  PROVE  IndInv'
<1>1. PICK p \in {"fetchOwn", "direct", "fetchDirect", "scan"} :
        CallerAt(t, p) /\ \/ /\ caller[t].pc = "own"
                             /\ p = IF tools[caller[t].file] # None THEN "fetchOwn" ELSE "direct"
                          \/ /\ caller[t].pc = "direct"
                             /\ p = IF Direct(t) # None THEN "fetchDirect" ELSE "scan"
  BY DEF CallOwn, CallDirect, OwnFirst
<1>2. CallMoves(t, p, caller[t].got, caller[t].from, caller[t].overlap)
  <2>1. caller \in [Thread -> CallType]
    BY TypeFacts DEF IndInv
  <2>. QED  BY <1>1, <2>1 DEF CallerAt, CallMoves, CallType
<1>3. /\ p \in CallerPc \ {"out"} /\ caller[t].got \in Good \cup Failure \cup {"builtin", None}
      /\ caller[t].overlap \in BOOLEAN /\ caller[t].pc # "out"
      /\ caller[t].from \in File \cup {None}
  BY <1>1, CallFacts DEF CallerPc, CallType
<1>4. /\ caller'[t].pc = p /\ caller'[t].overlap = caller[t].overlap
      /\ caller'[t].who = caller[t].who /\ caller'[t].file = caller[t].file
      /\ caller'[t].form = caller[t].form /\ caller[t].file \in File
  BY <1>2, <1>3, CallFrame
<1>5. loaded' = loaded /\ req' = req /\ tools' = tools /\ builtin' = builtin /\ suspect' = suspect
  BY <1>2 DEF CallMoves, registryVars
<1>6. CallAt(t)'
  BY <1>1, <1>4, <1>5, CallFacts DEF CallAt
<1>7. SteadyAt(t)'
  <2>1. CASE caller[t].pc = "own"
    BY <1>1, <1>4, <1>5, <2>1, CallFacts DEF SteadyAt, CallAt
  <2>2. CASE caller[t].pc = "direct"
    BY <1>1, <1>4, <1>5, <2>2, CallFacts DEF SteadyAt, Direct
  <2>. QED  BY <1>1, <2>1, <2>2
<1>8. OwnFound(t)' /\ OnlyOwn(t)' /\ RetryFound(t)'
  BY <1>1, <1>4 DEF OwnFound, OnlyOwn, RetryFound
<1>. QED  BY <1>2, <1>3, <1>6, <1>7, <1>8, CallKeeps

\* An answer is one that the properties allow.
LEMMA CallGetsStep ==
  ASSUME NEW t \in Thread, IndInv, NEW x \in Good \cup Failure \cup {"builtin", None},
         NEW g \in File \cup {None}, caller[t].pc \in {"fetchOwn", "fetchDirect", "scan"},
         CallerGets(t, x, g), UNCHANGED <<syncVars, req>>,
         LET c == caller[t] IN
           /\ /\ ~c.overlap /\ ~suspect /\ tools[c.file] # None /\ c.who = Owner[c.file]
              /\ c.form = "short" => Name[c.file] \notin BuiltinName
              => /\ g # None /\ Name[g] = Name[c.file] /\ x = tools[g]
                 /\ c.form # "short" => g = c.file
           /\ x \in Good => g # None /\ c.who = Owner[g]
           /\ req[t].pc = "recalling" /\ req[t].pulled =>
                \/ g = c.file /\ x = files[c.file]
                \/ c.form = "short" /\ x \in Good \cup {"builtin"}
                \/ c.overlap \/ suspect
  PROVE  IndInv'
<1>1. CallMoves(t, "done", x, g, caller[t].overlap)
  <2>1. caller \in [Thread -> CallType]
    BY TypeFacts DEF IndInv
  <2>. QED  BY <2>1 DEF CallerGets, CallMoves, CallType
<1>2. "done" \in CallerPc \ {"out"} /\ caller[t].overlap \in BOOLEAN /\ caller[t].pc # "out"
  BY CallFacts DEF CallerPc, CallType
<1>3. /\ caller'[t].pc = "done" /\ caller'[t].got = x /\ caller'[t].from = g
      /\ caller'[t].overlap = caller[t].overlap
      /\ caller'[t].who = caller[t].who /\ caller'[t].file = caller[t].file
      /\ caller'[t].form = caller[t].form /\ caller[t].file \in File
  BY <1>1, <1>2, CallFrame
<1>4. /\ loaded' = loaded /\ req' = req /\ tools' = tools /\ suspect' = suspect
      /\ files' = files
  BY <1>1 DEF CallMoves, registryVars
<1>5. CallAt(t)'
  BY <1>3, <1>4, CallFacts DEF CallAt
<1>6. SteadyAt(t)'
  BY <1>3 DEF SteadyAt
<1>7. OwnFound(t)'
  BY <1>3, <1>4 DEF OwnFound
<1>8. OnlyOwn(t)' /\ RetryFound(t)'
  BY <1>3, <1>4 DEF OnlyOwn, RetryFound
<1>. QED  BY <1>1, <1>2, <1>5, <1>6, <1>7, <1>8, CallKeeps

\* No error and no built-in tool is the tool of a file.
LEMMA ErrorFacts ==
  ASSUME NEW x \in Failure \cup {"builtin"}
  PROVE  x \notin Good /\ x # None
  BY ContentAssumption, AnswerAssumption

\* No tool of a file is run, and none that the properties ask for.
LEMMA CallEndsStep ==
  ASSUME NEW t \in Thread, IndInv, NEW x \in Failure \cup {"builtin"},
         caller[t].pc \in {"fetchOwn", "fetchDirect", "scan"}, CallerGets(t, x, None),
         UNCHANGED <<syncVars, req>>,
         LET c == caller[t] IN
           ~c.overlap /\ ~suspect /\ tools[c.file] # None /\ c.who = Owner[c.file] =>
             c.form = "short" /\ Name[c.file] \in BuiltinName /\ x = "builtin"
  PROVE  IndInv'
<1>. DEFINE c == caller[t]
<1>1. x \notin Good /\ x \in Good \cup Failure \cup {"builtin", None}
  BY ErrorFacts
<1>2. ASSUME req[t].pc = "recalling", req[t].pulled, ~c.overlap, ~suspect
      PROVE  c.form = "short" /\ x = "builtin"
  <2>1. tools[c.file] \in Good /\ c.who = Owner[c.file]
    BY <1>2, PulledIsThere
  <2>. QED  BY <1>2, <2>1, LockFacts
<1>. QED  BY <1>1, <1>2, CallGetsStep

\* A tool was found under the name that was given, or his own was when he is its owner.
LEMMA CallRunsStep ==
  ASSUME NEW t \in Thread, IndInv, NEW f \in File, tools[f] # None,
         caller[t].pc \in {"fetchOwn", "fetchDirect", "scan"}, CallerRuns(t, f),
         UNCHANGED <<syncVars, req>>, Name[f] = Name[caller[t].file],
         caller[t].form # "short" => f = caller[t].file,
         caller[t].who = Owner[caller[t].file] => Owner[f] = caller[t].who
  PROVE  IndInv'
<1>. DEFINE c == caller[t]
<1>1. tools[f] \in Good /\ f # None
  BY CallFacts, AbsentAssumption
<1>2. CASE c.who = Owner[f]
  <2>1. CallerGets(t, tools[f], f)
    BY <1>2 DEF CallerRuns, Allowed
  <2>2. ASSUME req[t].pc = "recalling", req[t].pulled, ~c.overlap, ~suspect
        PROVE  \/ f = c.file /\ tools[f] = files[c.file]
               \/ c.form = "short"
    BY <2>2, PulledIsThere
  <2>3. f \in File \cup {None} /\ tools[f] \in Good \cup Failure \cup {"builtin", None}
    BY <1>1
  <2>. QED  BY <1>1, <1>2, <2>1, <2>2, <2>3, CallGetsStep
<1>3. CASE c.who # Owner[f]
  <2>1. CallerGets(t, "denied", None) /\ c.who # Owner[c.file]
    BY <1>3 DEF CallerRuns, Allowed
  <2>2. "denied" \in Failure \cup {"builtin"}
    BY DEF Failure
  <2>. QED  BY <2>1, <2>2, CallEndsStep
<1>. QED  BY <1>2, <1>3

\* The own tool is fetched.
LEMMA CallFetchOwnStep ==
  ASSUME NEW t \in Thread, IndInv, CallFetchOwn(t), UNCHANGED <<syncVars, req>>
  PROVE  IndInv'
<1>. DEFINE c == caller[t]
<1>1. c.pc = "fetchOwn" /\ c.file \in File
  BY CallFacts DEF CallFetchOwn, CallAt
<1>2. CASE tools[c.file] # None
  <2>1. CallerRuns(t, c.file)
    BY <1>2 DEF CallFetchOwn
  <2>. QED  BY <1>1, <1>2, <2>1, CallRunsStep
<1>3. CASE tools[c.file] = None
  <2>1. CallerGets(t, "keyError", None) /\ "keyError" \in Failure \cup {"builtin"}
    BY <1>3 DEF CallFetchOwn, Failure
  <2>. QED  BY <1>1, <1>3, <2>1, CallEndsStep
<1>. QED  BY <1>2, <1>3

\* The tool of the name given is fetched.
LEMMA CallFetchDirectStep ==
  ASSUME NEW t \in Thread, IndInv, CallFetchDirect(t), UNCHANGED <<syncVars, req>>
  PROVE  IndInv'
<1>. DEFINE c == caller[t]
<1>1. c.pc = "fetchDirect"
  BY DEF CallFetchDirect
<1>2. /\ c.file \in File /\ c.form \in Form
      /\ ~suspect /\ ~c.overlap =>
           /\ c.form = "category" => tools[c.file] = None
           /\ c.form = "key" => tools[c.file] # None
           /\ c.form # "key" => Direct(t) = "builtin" /\ Name[c.file] \in BuiltinName
  BY <1>1, CallFacts DEF CallAt, SteadyAt, CallType, Direct
<1>3. "builtin" \notin Good /\ "builtin" # None
  BY ErrorFacts
<1>4. CASE Direct(t) \in Good /\ CallerRuns(t, c.file)
  <2>1. tools[c.file] # None
    BY <1>3, <1>4, LockFacts DEF Direct
  <2>. QED  BY <1>1, <1>2, <1>4, <2>1, CallRunsStep
<1>5. CASE Direct(t) = "builtin" /\ CallerGets(t, "builtin", None)
  <2>1. c.form # "key"
    BY <1>2, <1>5, CallFacts DEF Direct
  <2>2. "builtin" \in Failure \cup {"builtin"}
    OBVIOUS
  <2>. QED  BY <1>1, <1>2, <1>5, <2>1, <2>2, CallEndsStep DEF Form
<1>6. CASE Direct(t) = None /\ CallerGets(t, "keyError", None)
  <2>1. c.form = "key" => tools[c.file] = None
    BY <1>6 DEF Direct
  <2>2. "keyError" \in Failure \cup {"builtin"}
    BY DEF Failure
  <2>3. ~(~c.overlap /\ ~suspect /\ tools[c.file] # None)
    BY <1>2, <1>3, <1>6, <2>1
  <2>. QED  BY <1>1, <1>6, <2>2, <2>3, CallEndsStep
<1>. QED  BY <1>4, <1>5, <1>6 DEF CallFetchDirect

\* The names are searched.
LEMMA CallScanStep ==
  ASSUME NEW t \in Thread, IndInv, CallScan(t), UNCHANGED <<syncVars, req>>
  PROVE  IndInv'
<1>. DEFINE c == caller[t]
<1>1. /\ c.pc = "scan" /\ c.file \in File /\ c.form \in Form
      /\ ~suspect /\ ~c.overlap /\ c.form \in {"category", "key"} => tools[c.file] = None
  BY CallFacts DEF CallScan, CallAt, SteadyAt, CallType
<1>2. ASSUME NEW f \in Candidates(t), CallerRuns(t, f)
      PROVE  IndInv'
  <2>1. /\ f \in File /\ tools[f] # None /\ c.form # "key" /\ Name[f] = Name[c.file]
        /\ c.form = "category" => f = c.file
        /\ c.who # None => Owner[f] = c.who
    BY <1>2 DEF Candidates, IndInv, TypeOK, PluginTypeOK
  <2>2. c.who = Owner[c.file] => Owner[f] = c.who
    BY <1>1, <2>1, CallFacts
  <2>3. c.form # "short" => f = c.file
    BY <1>1, <2>1 DEF Form
  <2>. QED  BY <1>1, <1>2, <2>1, <2>2, <2>3, CallRunsStep
<1>3. CASE Candidates(t) = {} /\ CallerGets(t, "unknown", None)
  <2>1. ASSUME tools[c.file] # None, c.who = Owner[c.file], c.form # "key"
        PROVE  FALSE
    <3>1. c.file \in Candidates(t)
      BY <1>1, <2>1, CallFacts DEF Candidates
    <3>. QED  BY <1>3, <3>1
  <2>2. "unknown" \in Failure \cup {"builtin"}
    BY DEF Failure
  <2>. QED  BY <1>1, <1>3, <2>1, <2>2, CallEndsStep
<1>. QED  BY <1>2, <1>3 DEF CallScan

-----------------------------------------------------------------------------
(***************************************************************************)
(* The steps of load_plugins.                                                     *)
(***************************************************************************)

\* What every step of a load leaves alone.
LoadSide(l) ==
  /\ UNCHANGED <<files, syncVars, req>>
  /\ loader' \in [Loaders -> LoadType]
  /\ \A u \in Loaders \ {l} : loader'[u] = loader[u]
  /\ IF l = Boot THEN loader'[l].pc # "locking"
                 ELSE loader[l].pc # "out" /\ loader'[l].pc # "out"
  /\ loader'[l].pc \notin {"visiting", "checked"} => loader'[l].seen = {}
  /\ IF loader'[l].pc = "checked" THEN loader'[l].cur \in loader'[l].seen
                                  ELSE loader'[l].cur = None

\* Requests, ETags and listings are not touched by it.
LEMMA LoadFrame ==
  ASSUME IndInv, NEW l \in Loaders, LoadSide(l),
         \A u \in Thread : caller'[u].pc = caller[u].pc
  PROVE  LoaderOK' /\ ReqOK' /\ PulledOK' /\ EtagOK' /\ CalmOK'
<1>1. UNCHANGED <<files, bucket, etags, draft, odd, req>>
  BY DEF LoadSide, syncVars
<1>2. LoaderOK'
  BY DEF LoadSide, IndInv, LoaderOK
<1>3. \A u \in Thread : loader'[u].pc # "out" <=> loader[u].pc # "out"
  BY LockFacts DEF LoadSide
<1>4. ReqOK'
  BY <1>1, <1>3 DEF IndInv, ReqOK, ReqAt
<1>5. PulledOK' /\ EtagOK' /\ CalmOK'
  BY <1>1 DEF IndInv, PulledOK, PulledAt, EtagOK, CalmOK, CalmAt, Overlooked, Unchanged
<1>. QED  BY <1>2, <1>4, <1>5

\* The registry is only changed when no undisturbed caller is looking.
LEMMA LoadCallers ==
  ASSUME IndInv, UNCHANGED req,
         \A u \in Thread : /\ caller'[u].pc = caller[u].pc /\ caller'[u].who = caller[u].who
                           /\ caller'[u].file = caller[u].file
                           /\ caller'[u].form = caller[u].form
                           /\ caller'[u].got = caller[u].got
                           /\ caller'[u].from = caller[u].from,
         \A u \in Thread : \/ caller[u].pc \in {"out", "gate"}
                           \/ suspect' \/ caller'[u].overlap
  PROVE  SteadyOK' /\ CallsFindOwnTool' /\ NobodyElsesTool' /\ RetryFindsTool'
<1>1. SteadyOK'
  BY DEF SteadyOK, SteadyAt
<1>2. CallsFindOwnTool' /\ NobodyElsesTool'
  BY DEF IndInv, CallsFindOwnTool, NobodyElsesTool
<1>3. RetryFindsTool'
  BY DEF RetryFindsTool
<1>. QED  BY <1>1, <1>2, <1>3

\* A load that is under way, and nothing suspect: it is alone, with the event cleared.
LEMMA LoadAlone ==
  ASSUME IndInv, NEW l \in Loaders, Loading(l)
  PROVE  /\ ~suspect => \A u \in Loaders \ {l} : ~Loading(u)
         /\ \A u \in Thread : caller[u].pc \in {"out", "gate"} \/ suspect \/ caller[u].overlap
         /\ l # Boot => reloadLock = l
<1>1. ~suspect => ~loaded
  BY DEF IndInv, SoleOK
<1>2. ASSUME NEW u \in Thread
      PROVE  caller[u].pc \in {"out", "gate"} \/ suspect \/ caller[u].overlap
  BY <1>1 DEF IndInv, CallerOK, CallAt
<1>3. l # Boot => reloadLock = l
  BY DEF IndInv, LocksFollowWork, Loaders
<1>. QED  BY <1>2, <1>3 DEF IndInv, SoleOK

\* A step inside a load.
InLoad(l) ==
  /\ LoadSide(l) /\ Loading(l) /\ Loading(l)'
  /\ UNCHANGED <<loaded, reloadLock, caller, suspect>>

\* What is left to show of such a step.
LEMMA InLoadKeeps ==
  ASSUME IndInv, NEW l \in Loaders, InLoad(l),
         tools' \in [File -> Good \cup {None}], builtin' \in BOOLEAN,
         index' \in SUBSET File, errors' \in SUBSET File, IndexOK',
         ~suspect =>
           /\ loader'[l].pc # "starting" => builtin'
           /\ \A f \in File :
                IF f \in loader'[l].seen /\ f # loader'[l].cur THEN Exact(f)' \/ SomePending
                                                               ELSE tools'[f] = None
           /\ \A t \in Thread : /\ req[t].pulled /\ ~Pending(t)
                                /\ req[t].job.file \in loader'[l].seen
                                /\ req[t].job.file # loader'[l].cur
                                => tools'[req[t].job.file] = files[req[t].job.file]
  PROVE  IndInv'
<1>1. /\ UNCHANGED <<files, bucket, supabase, etags, draft, syncLock, jobs, uploads, odd,
                     req>>
      /\ UNCHANGED <<loaded, reloadLock, caller, suspect>>
      /\ \A u \in Loaders \ {l} : loader'[u] = loader[u]
      /\ loader' \in [Loaders -> LoadType]
  BY DEF InLoad, LoadSide, syncVars
<1>2. TypeOK'
  BY <1>1 DEF IndInv, TypeOK, PluginTypeOK, LoadType
<1>3. LoaderOK' /\ ReqOK' /\ PulledOK' /\ EtagOK' /\ CalmOK'
  BY <1>1, LoadFrame DEF InLoad
<1>4. SteadyOK' /\ CallsFindOwnTool' /\ NobodyElsesTool' /\ RetryFindsTool'
  BY <1>1, LoadAlone, LoadCallers DEF InLoad
<1>5. /\ \A u \in Loaders : Loading(u)' <=> Loading(u)
      /\ \A u \in Thread : Pending(u)' <=> Pending(u)
  BY <1>1, LockFacts DEF InLoad, Loading, Pending
<1>6. ~NoLoading' /\ (SomePending' <=> SomePending)
  BY <1>5 DEF InLoad, NoLoading, SomePending
<1>7. LocksFollowWork' /\ CallerOK' /\ SoleOK'
  BY <1>1, <1>5, LockFacts DEF IndInv, LocksFollowWork, CallerOK, CallAt, SoleOK
<1>8. ASSUME ~suspect', NEW u \in Loaders, Loading(u)'
      PROVE  u = l
  BY <1>1, <1>5, <1>8, LoadAlone DEF InLoad
<1>9. ProgressOK'
  BY <1>1, <1>6, <1>8 DEF ProgressOK
<1>10. RestOK'
  BY <1>6 DEF RestOK
<1>11. PulledLoads'
  BY <1>1, <1>5, <1>6, <1>8 DEF PulledLoads
<1>. QED  BY <1>2, <1>3, <1>4, <1>7, <1>9, <1>10, <1>11 DEF IndInv

\* The part of the invariant about load l, when nothing is suspect.
LEMMA LoadFacts ==
  ASSUME IndInv, NEW l \in Loaders, Loading(l)
  PROVE  /\ loader \in [Loaders -> LoadType] /\ loader[l] \in LoadType
         /\ loader[l].pc = "starting" => loader[l].seen = {}
         /\ IF loader[l].pc = "checked"
            THEN loader[l].cur \in loader[l].seen /\ loader[l].cur \in File
            ELSE loader[l].cur = None
         /\ ~suspect =>
              /\ loader[l].pc # "starting" => builtin
              /\ \A f \in File :
                   IF f \in loader[l].seen /\ f # loader[l].cur THEN Exact(f) \/ SomePending
                                                                ELSE tools[f] = None
              /\ \A t \in Thread : /\ req[t].pulled /\ ~Pending(t)
                                   /\ req[t].job.file \in loader[l].seen
                                   /\ req[t].job.file # loader[l].cur
                                   => tools[req[t].job.file] = files[req[t].job.file]
<1>1. loader \in [Loaders -> LoadType] /\ loader[l] \in LoadType
  BY TypeFacts DEF IndInv
<1>2. /\ loader[l].pc = "starting" => loader[l].seen = {}
      /\ IF loader[l].pc = "checked" THEN loader[l].cur \in loader[l].seen
                                     ELSE loader[l].cur = None
  BY DEF IndInv, LoaderOK
<1>3. loader[l].cur \in loader[l].seen => loader[l].cur \in File
  BY <1>1 DEF LoadType
<1>4. ~suspect =>
        /\ loader[l].pc # "starting" => builtin
        /\ \A f \in File :
             IF f \in loader[l].seen /\ f # loader[l].cur THEN Exact(f) \/ SomePending
                                                          ELSE tools[f] = None
  BY DEF IndInv, ProgressOK
<1>5. ~suspect => \A t \in Thread : /\ req[t].pulled /\ ~Pending(t)
                                    /\ req[t].job.file \in loader[l].seen
                                    /\ req[t].job.file # loader[l].cur
                                    => tools[req[t].job.file] = files[req[t].job.file]
  BY DEF IndInv, PulledLoads
<1>. QED  BY <1>1, <1>2, <1>3, <1>4, <1>5

\* The built-in tools are registered.
LEMMA LoadBuiltinStep ==
  ASSUME NEW l \in Loaders, IndInv, LoadBuiltin(l), UNCHANGED <<syncVars, req>>
  PROVE  IndInv'
<1>1. /\ loader[l].pc = "starting" /\ builtin' = TRUE
      /\ loader' = [loader EXCEPT ![l].pc = "visiting"]
      /\ UNCHANGED <<files, tools, index, errors, loaded, reloadLock, caller, suspect>>
  BY DEF LoadBuiltin, LoaderAt
<1>2. Loading(l)
  BY <1>1 DEF Loading
<1>3. loader \in [Loaders -> LoadType] /\ loader[l].seen = {} /\ loader[l].cur = None
  BY <1>1, <1>2, LoadFacts
<1>4. /\ loader' \in [Loaders -> LoadType] /\ loader'[l].pc = "visiting"
      /\ loader'[l].seen = {} /\ loader'[l].cur = None
      /\ \A u \in Loaders \ {l} : loader'[u] = loader[u]
  <2>1. loader[l] \in LoadType
    BY <1>3
  <2>2. /\ [loader[l] EXCEPT !.pc = "visiting"] \in LoadType
        /\ [loader[l] EXCEPT !.pc = "visiting"].seen = loader[l].seen
        /\ [loader[l] EXCEPT !.pc = "visiting"].cur = loader[l].cur
        /\ [loader[l] EXCEPT !.pc = "visiting"].pc = "visiting"
    BY <2>1 DEF LoadType, LoaderPc
  <2>3. loader' = [loader EXCEPT ![l] = [loader[l] EXCEPT !.pc = "visiting"]]
    BY <1>1, <1>3
  <2>. QED  BY <1>3, <2>2, <2>3
<1>5. InLoad(l)
  BY <1>1, <1>2, <1>4 DEF InLoad, LoadSide, Loading
<1>6. \A f \in File : ~suspect => tools[f] = None
  BY <1>2, <1>3, LoadFacts
<1>7. /\ tools \in [File -> Good \cup {None}] /\ index \in SUBSET File
      /\ errors \in SUBSET File /\ IndexOK'
  BY <1>1 DEF IndInv, TypeOK, PluginTypeOK, IndexOK
<1>. QED  BY <1>1, <1>4, <1>5, <1>6, <1>7, InLoadKeeps

\* A file is visited.
LEMMA LoadCheckStep ==
  ASSUME NEW l \in Loaders, NEW f \in File, IndInv, LoadCheck(l, f), UNCHANGED <<syncVars, req>>
  PROVE  IndInv'
<1>. DEFINE p == IF files[f] \in Good THEN "checked" ELSE "visiting"
            k == IF files[f] \in Good THEN f ELSE None
<1>1. /\ loader[l].pc = "visiting" /\ f \notin loader[l].seen
      /\ loader' = [loader EXCEPT ![l].seen = @ \cup {f}, ![l].pc = p, ![l].cur = k]
      /\ errors' = IF files[f] \in Content \ Good THEN errors \cup {f} ELSE errors
      /\ UNCHANGED <<files, tools, builtin, index, loaded, reloadLock, caller, suspect>>
  BY DEF LoadCheck
<1>2. Loading(l)
  BY <1>1 DEF Loading
<1>3. loader \in [Loaders -> LoadType] /\ loader[l].cur = None
  BY <1>1, <1>2, LoadFacts
<1>4. p \in {"checked", "visiting"} /\ k \in File \cup {None}
  OBVIOUS
<1>5. /\ loader' \in [Loaders -> LoadType] /\ loader'[l].pc = p
      /\ loader'[l].seen = loader[l].seen \cup {f} /\ loader'[l].cur = k
      /\ \A u \in Loaders \ {l} : loader'[u] = loader[u]
  <2>. HIDE DEF p, k
  <2>1. loader[l] \in LoadType
    BY <1>3
  <2>. DEFINE r == [loader[l] EXCEPT !.seen = @ \cup {f}, !.pc = p, !.cur = k]
  <2>2. r \in LoadType /\ r.pc = p /\ r.seen = loader[l].seen \cup {f} /\ r.cur = k
    BY <1>4, <2>1 DEF LoadType, LoaderPc
  <2>3. loader' = [loader EXCEPT ![l] = r]
    BY <1>1, <1>3
  <2>. HIDE DEF r
  <2>. QED  BY <1>3, <2>2, <2>3
<1>6. /\ files[f] \in Good => p = "checked" /\ k = f
      /\ files[f] \notin Good => p = "visiting" /\ k = None
  OBVIOUS
<1>. HIDE DEF p, k
<1>7. InLoad(l)
  BY <1>1, <1>2, <1>5, <1>6 DEF InLoad, LoadSide, Loading
<1>8. ASSUME ~suspect
      PROVE  /\ builtin
             /\ \A g \in File :
                  IF g \in loader'[l].seen /\ g # loader'[l].cur THEN Exact(g)' \/ SomePending
                                                                 ELSE tools'[g] = None
             /\ \A t \in Thread : /\ req[t].pulled /\ ~Pending(t)
                                  /\ req[t].job.file \in loader'[l].seen
                                  /\ req[t].job.file # loader'[l].cur
                                  => tools'[req[t].job.file] = files[req[t].job.file]
  <2>1. builtin
    BY <1>1, <1>2, <1>8, LoadFacts
  <2>2. ASSUME NEW g \in File
        PROVE  IF g \in loader'[l].seen /\ g # loader'[l].cur THEN Exact(g)' \/ SomePending
                                                              ELSE tools'[g] = None
    <3>1. IF g \in loader[l].seen THEN Exact(g) \/ SomePending ELSE tools[g] = None
      BY <1>2, <1>3, <1>8, LoadFacts, AbsentAssumption
    <3>2. CASE g = f
      BY <1>1, <1>5, <1>6, <3>1, <3>2, AbsentAssumption DEF Exact
    <3>3. CASE g # f
      BY <1>1, <1>5, <1>6, <3>1, <3>3, AbsentAssumption DEF Exact
    <3>. QED  BY <3>2, <3>3
  <2>3. ASSUME NEW t \in Thread, req[t].pulled, ~Pending(t),
               req[t].job.file \in loader'[l].seen, req[t].job.file # loader'[l].cur
        PROVE  tools'[req[t].job.file] = files[req[t].job.file]
    <3>1. files[req[t].job.file] \in Good /\ req[t].job.file \in File
      BY <2>3 DEF IndInv, PulledOK, PulledAt
    <3>2. req[t].job.file \in loader[l].seen /\ req[t].job.file # None
      BY <1>5, <1>6, <2>3, <3>1, AbsentAssumption
    <3>. QED  BY <1>1, <1>2, <1>3, <1>8, <2>3, <3>2, LoadFacts
  <2>. QED  BY <2>1, <2>2, <2>3
<1>9. /\ tools \in [File -> Good \cup {None}] /\ index \in SUBSET File /\ errors' \in SUBSET File
      /\ builtin \in BOOLEAN /\ IndexOK'
  BY <1>1 DEF IndInv, TypeOK, PluginTypeOK, IndexOK
<1>. QED  BY <1>1, <1>7, <1>8, <1>9, InLoadKeeps

\* A file is executed.
LEMMA LoadExecStep ==
  ASSUME NEW l \in Loaders, IndInv, LoadExec(l), UNCHANGED <<syncVars, req>>
  PROVE  IndInv'
<1>. DEFINE f == loader[l].cur
<1>1. /\ loader[l].pc = "checked"
      /\ loader' = [loader EXCEPT ![l].pc = "visiting", ![l].cur = None]
      /\ \/ /\ files[f] \in Good /\ tools' = [tools EXCEPT ![f] = files[f]]
            /\ index' = index \cup {f} /\ UNCHANGED errors
         \/ files[f] \notin Good /\ errors' = errors \cup {f} /\ UNCHANGED <<tools, index>>
      /\ UNCHANGED <<files, builtin, loaded, reloadLock, caller, suspect>>
  BY DEF LoadExec, Registers, Indexed
<1>2. Loading(l)
  BY <1>1 DEF Loading
<1>3. loader \in [Loaders -> LoadType] /\ f \in loader[l].seen /\ f \in File
  BY <1>1, <1>2, LoadFacts
<1>4. /\ loader' \in [Loaders -> LoadType] /\ loader'[l].pc = "visiting"
      /\ loader'[l].seen = loader[l].seen /\ loader'[l].cur = None
      /\ \A u \in Loaders \ {l} : loader'[u] = loader[u]
  <2>1. loader[l] \in LoadType
    BY <1>3
  <2>. DEFINE r == [loader[l] EXCEPT !.pc = "visiting", !.cur = None]
  <2>2. r \in LoadType /\ r.pc = "visiting" /\ r.seen = loader[l].seen /\ r.cur = None
    BY <2>1 DEF LoadType, LoaderPc
  <2>3. loader' = [loader EXCEPT ![l] = r]
    BY <1>1, <1>3
  <2>. HIDE DEF r
  <2>. QED  BY <1>3, <2>2, <2>3
<1>5. InLoad(l)
  BY <1>1, <1>2, <1>4 DEF InLoad, LoadSide, Loading
<1>6. /\ tools \in [File -> Good \cup {None}] /\ index \in SUBSET File /\ errors \in SUBSET File
      /\ builtin \in BOOLEAN /\ IndexOK
  BY DEF IndInv, TypeOK, PluginTypeOK
<1>. HIDE DEF f
<1>7. /\ files[f] \in Good => tools'[f] = files[f] /\ tools'[f] # None
      /\ files[f] \notin Good => tools'[f] = tools[f]
      /\ \A g \in File \ {f} : tools'[g] = tools[g]
      /\ errors \subseteq errors' /\ (files[f] \notin Good => f \in errors')
  BY <1>1, <1>3, <1>6, LockFacts
<1>8. /\ tools' \in [File -> Good \cup {None}] /\ index' \in SUBSET File
      /\ errors' \in SUBSET File
  BY <1>1, <1>3, <1>6
<1>9. IndexOK'
  BY <1>1, <1>3, <1>6, <1>7 DEF IndexOK
<1>10. ASSUME ~suspect
       PROVE  /\ builtin
              /\ \A g \in File :
                   IF g \in loader'[l].seen /\ g # loader'[l].cur THEN Exact(g)' \/ SomePending
                                                                  ELSE tools'[g] = None
              /\ \A t \in Thread : /\ req[t].pulled /\ ~Pending(t)
                                   /\ req[t].job.file \in loader'[l].seen
                                   /\ req[t].job.file # loader'[l].cur
                                   => tools'[req[t].job.file] = files[req[t].job.file]
  <2>1. builtin
    BY <1>1, <1>2, <1>10, LoadFacts
  <2>2. ASSUME NEW g \in File
        PROVE  IF g \in loader'[l].seen /\ g # loader'[l].cur THEN Exact(g)' \/ SomePending
                                                              ELSE tools'[g] = None
    <3>1. IF g \in loader[l].seen /\ g # f THEN Exact(g) \/ SomePending ELSE tools[g] = None
      BY <1>2, <1>10, LoadFacts DEF f
    <3>2. CASE g = f
      BY <1>1, <1>3, <1>4, <1>7, <3>1, <3>2, AbsentAssumption DEF Exact
    <3>3. CASE g # f
      BY <1>1, <1>4, <1>7, <3>1, <3>3, AbsentAssumption DEF Exact
    <3>. QED  BY <3>2, <3>3
  <2>3. ASSUME NEW t \in Thread, req[t].pulled, ~Pending(t),
               req[t].job.file \in loader'[l].seen, req[t].job.file # loader'[l].cur
        PROVE  tools'[req[t].job.file] = files[req[t].job.file]
    <3>1. files[req[t].job.file] \in Good /\ req[t].job.file \in File
      BY <2>3 DEF IndInv, PulledOK, PulledAt
    <3>2. CASE req[t].job.file = f
      BY <1>7, <3>1, <3>2
    <3>3. CASE req[t].job.file # f
      <4>1. tools[req[t].job.file] = files[req[t].job.file]
        BY <1>2, <1>4, <1>10, <2>3, <3>3, LoadFacts DEF f
      <4>. QED  BY <1>7, <3>1, <3>3, <4>1
    <3>. QED  BY <3>2, <3>3
  <2>. QED  BY <2>1, <2>2, <2>3
<1>. QED  BY <1>1, <1>5, <1>6, <1>8, <1>9, <1>10, InLoadKeeps

\* A load is over.  With nothing suspect it has seen every file.
LEMMA LoadLeaves ==
  ASSUME NEW l \in Loaders, IndInv, NEW p \in {"out", "returned", "raised"}, Loading(l),
         loader' = [loader EXCEPT ![l] = [NoLoad EXCEPT !.pc = p]], p = "out" <=> l = Boot,
         reloadLock' = IF l = Boot THEN reloadLock ELSE None,
         loaded' \in BOOLEAN, loaded => loaded', suspect' \in BOOLEAN, suspect => suspect',
         ~suspect' => loaded' /\ loader[l].pc = "visiting" /\ loader[l].seen = File,
         UNCHANGED <<files, tools, builtin, index, errors, caller, syncVars, req>>
  PROVE  IndInv'
<1>1. UNCHANGED <<bucket, supabase, etags, draft, syncLock, jobs, uploads, odd>>
  BY DEF syncVars
<1>2. /\ loader' \in [Loaders -> LoadType] /\ loader'[l].pc = p /\ loader'[l].seen = {}
      /\ loader'[l].cur = None /\ \A u \in Loaders \ {l} : loader'[u] = loader[u]
  <2>. DEFINE r == [NoLoad EXCEPT !.pc = p]
  <2>1. NoLoad \in LoadType /\ NoLoad.seen = {} /\ NoLoad.cur = None
    BY DEF NoLoad, LoadType, LoaderPc
  <2>2. r \in LoadType /\ r.pc = p /\ r.seen = {} /\ r.cur = None
    BY <2>1 DEF LoadType, LoaderPc
  <2>. HIDE DEF r
  <2>. QED  BY <2>2, LoadFacts DEF r
<1>3. LoadSide(l)
  BY <1>2 DEF LoadSide, Loading
<1>4. TypeOK'
  BY <1>1, <1>2 DEF IndInv, TypeOK, PluginTypeOK, LoadType
<1>5. LoaderOK' /\ ReqOK' /\ PulledOK' /\ EtagOK' /\ CalmOK'
  BY <1>3, LoadFrame
<1>6. SteadyOK' /\ CallsFindOwnTool' /\ NobodyElsesTool' /\ RetryFindsTool'
  BY LoadAlone, LoadCallers
<1>7. /\ ~Loading(l)' /\ \A u \in Loaders \ {l} : Loading(u)' <=> Loading(u)
      /\ \A u \in Thread : Pending(u)' <=> Pending(u)
      /\ \A f \in File : Exact(f)' <=> Exact(f)
  BY <1>2, LockFacts DEF Loading, Pending, Exact
<1>8. SomePending' <=> SomePending
  BY <1>7 DEF SomePending
<1>9. LocksFollowWork'
  BY <1>1, <1>7, LockFacts, LoadAlone DEF IndInv, LocksFollowWork
<1>10. IndexOK' /\ CallerOK'
  BY DEF IndInv, IndexOK, CallerOK, CallAt
<1>11. ~suspect' => NoLoading'
  BY <1>7, LoadAlone DEF NoLoading
<1>12. SoleOK' /\ ProgressOK'
  BY <1>11 DEF SoleOK, ProgressOK, NoLoading
<1>13. ASSUME ~suspect'
       PROVE  /\ builtin /\ \A f \in File : Exact(f) \/ SomePending
              /\ \A t \in Thread : req[t].pulled /\ ~Pending(t) =>
                   tools[req[t].job.file] = files[req[t].job.file]
  <2>1. /\ ~suspect /\ loader[l].pc = "visiting" /\ loader[l].seen = File /\ loader[l].cur = None
    BY <1>13, LoadFacts
  <2>2. None \notin File
    BY AbsentAssumption
  <2>3. builtin /\ \A f \in File : Exact(f) \/ SomePending
    BY <2>1, <2>2, LoadFacts
  <2>4. \A t \in Thread : req[t].pulled => req[t].job.file \in File
    BY DEF IndInv, PulledOK, PulledAt
  <2>5. \A t \in Thread : req[t].pulled /\ ~Pending(t) =>
          tools[req[t].job.file] = files[req[t].job.file]
    BY <2>1, <2>2, <2>4, LoadFacts
  <2>. QED  BY <2>3, <2>5
<1>14. RestOK'
  BY <1>7, <1>8, <1>13 DEF RestOK
<1>15. PulledLoads'
  BY <1>7, <1>13 DEF PulledLoads
<1>. QED  BY <1>4, <1>5, <1>6, <1>9, <1>10, <1>12, <1>14, <1>15 DEF IndInv

\* A load returns.
LEMMA LoadEndStep ==
  ASSUME NEW l \in Loaders, IndInv, LoadEnd(l), UNCHANGED <<syncVars, req>>
  PROVE  IndInv'
<1>. DEFINE p == IF l = Boot THEN "out" ELSE "returned"
<1>1. p \in {"out", "returned", "raised"} /\ (p = "out" <=> l = Boot)
  OBVIOUS
<1>2. /\ Loading(l) /\ loader' = [loader EXCEPT ![l] = [NoLoad EXCEPT !.pc = p]]
      /\ reloadLock' = IF l = Boot THEN reloadLock ELSE None
      /\ UNCHANGED <<files, tools, builtin, index, errors, caller, syncVars, req>>
  BY DEF LoadEnd, Loading
<1>. HIDE DEF p
<1>3. /\ loaded' \in BOOLEAN /\ loaded' /\ loader[l].pc = "visiting"
      /\ suspect' = (suspect \/ loader[l].seen # File)
  BY DEF LoadEnd
<1>4. suspect' \in BOOLEAN /\ (suspect => suspect') /\ (~suspect' => loader[l].seen = File)
  BY <1>3
<1>. QED  BY <1>1, <1>2, <1>3, <1>4, LoadLeaves

\* A load raises.
LEMMA LoadRaisesStep ==
  ASSUME NEW l \in Loaders, IndInv, LoadRaises(l), UNCHANGED <<syncVars, req>>
  PROVE  IndInv'
<1>. DEFINE p == IF l = Boot THEN "out" ELSE "raised"
<1>1. p \in {"out", "returned", "raised"} /\ (p = "out" <=> l = Boot)
  OBVIOUS
<1>2. /\ Loading(l) /\ loader' = [loader EXCEPT ![l] = [NoLoad EXCEPT !.pc = p]]
      /\ reloadLock' = IF l = Boot THEN reloadLock ELSE None
      /\ UNCHANGED <<files, tools, builtin, index, errors, caller, syncVars, req>>
  BY DEF LoadRaises, Loading
<1>. HIDE DEF p
<1>3. loaded \in BOOLEAN
  BY DEF IndInv, TypeOK, PluginTypeOK
<1>4. loaded' \in BOOLEAN /\ (loaded => loaded') /\ suspect' \in BOOLEAN /\ suspect'
  BY <1>3 DEF LoadRaises
<1>. QED  BY <1>1, <1>2, <1>4, LoadLeaves

\* A reload begins.
LEMMA ReloadBeginStep ==
  ASSUME NEW t \in Loaders, IndInv, ReloadBegin(t), UNCHANGED <<syncVars, req>>
  PROVE  IndInv'
<1>1. /\ loader[t].pc = "locking" /\ reloadLock = None /\ reloadLock' = t
      /\ loaded' = FALSE /\ tools' = [f \in File |-> None] /\ builtin' = FALSE
      /\ index' = {} /\ errors' = {} /\ suspect' = ~BootDone /\ UNCHANGED files
      /\ loader' = [loader EXCEPT ![t].pc = "starting"]
      /\ caller' = [c \in Thread |-> [caller[c] EXCEPT !.overlap = @ \/ caller[c].pc # "out"]]
      /\ UNCHANGED <<bucket, supabase, etags, draft, syncLock, jobs, uploads, odd>>
  BY DEF ReloadBegin, Cleared, LoaderAt, syncVars
<1>2. /\ loader \in [Loaders -> LoadType] /\ caller \in [Thread -> CallType]
      /\ loader[t].seen = {} /\ loader[t].cur = None
  BY <1>1, TypeFacts DEF IndInv, LoaderOK
<1>3. /\ loader' \in [Loaders -> LoadType] /\ loader'[t].pc = "starting"
      /\ loader'[t].seen = {} /\ loader'[t].cur = None
      /\ \A u \in Loaders \ {t} : loader'[u] = loader[u]
  <2>. DEFINE r == [loader[t] EXCEPT !.pc = "starting"]
  <2>1. loader[t] \in LoadType
    BY <1>2
  <2>2. r \in LoadType /\ r.pc = "starting" /\ r.seen = {} /\ r.cur = None
    BY <1>2, <2>1 DEF LoadType, LoaderPc
  <2>3. loader' = [loader EXCEPT ![t] = r]
    BY <1>1, <1>2
  <2>. HIDE DEF r
  <2>. QED  BY <1>2, <2>2, <2>3
<1>4. ASSUME NEW c \in Thread
      PROVE  /\ caller'[c] \in CallType
             /\ caller'[c].pc = caller[c].pc /\ caller'[c].who = caller[c].who
             /\ caller'[c].file = caller[c].file /\ caller'[c].form = caller[c].form
             /\ caller'[c].got = caller[c].got /\ caller'[c].from = caller[c].from
             /\ caller[c].pc = "out" \/ caller'[c].overlap
  <2>. DEFINE late == caller[c].overlap \/ caller[c].pc # "out"
  <2>1. late \in BOOLEAN /\ (caller[c].pc = "out" \/ late) /\ caller[c] \in CallType
    BY <1>2
  <2>2. caller'[c] = [caller[c] EXCEPT !.overlap = late]
    BY <1>1
  <2>. HIDE DEF late
  <2>. QED  BY <2>1, <2>2 DEF CallType
<1>5. caller' \in [Thread -> CallType]
  BY <1>1, <1>4
<1>6. t \in Thread
  <2>1. t # Boot
    BY <1>1 DEF IndInv, LoaderOK
  <2>. QED  BY <2>1 DEF Loaders
<1>7. TypeOK'
  <2>1. /\ files' \in [File -> Content \cup {None}] /\ tools' \in [File -> Good \cup {None}]
        /\ builtin' \in BOOLEAN /\ index' \in SUBSET File /\ errors' \in SUBSET File
        /\ loaded' \in BOOLEAN /\ reloadLock' \in Thread \cup {None} /\ suspect' \in BOOLEAN
    BY <1>1, <1>6, TypeFacts DEF IndInv
  <2>. QED  BY <1>1, <1>3, <1>5, <2>1 DEF IndInv, TypeOK, PluginTypeOK, LoadType, CallType
<1>8. LoaderOK' /\ ReqOK' /\ PulledOK' /\ EtagOK' /\ CalmOK'
  <2>1. LoadSide(t)
    BY <1>1, <1>3 DEF LoadSide
  <2>. QED  BY <1>4, <2>1, LoadFrame
<1>9. SteadyOK' /\ CallsFindOwnTool' /\ NobodyElsesTool' /\ RetryFindsTool'
  BY <1>4, LoadCallers
<1>10. CallerOK'
  <2>1. SUFFICES ASSUME NEW c \in Thread
                 PROVE  CallAt(c)'
    BY DEF CallerOK
  <2>2. CallAt(c)
    BY DEF IndInv, CallerOK
  <2>. QED  BY <1>4, <2>2 DEF CallAt
<1>11. /\ Loading(t)' /\ \A u \in Loaders \ {t} : Loading(u)' <=> Loading(u)
  BY <1>3 DEF Loading
<1>12. \A u \in Thread : ~Loading(u)
  BY <1>1, LockFacts DEF IndInv, LocksFollowWork
<1>13. LocksFollowWork'
  BY <1>1, <1>6, <1>11, <1>12, LockFacts DEF IndInv, LocksFollowWork
<1>14. ~suspect' => \A u \in Loaders : Loading(u)' => u = t
  BY <1>1, <1>11, <1>12 DEF BootDone, Loading, Loaders
<1>15. ~NoLoading'
  BY <1>11 DEF NoLoading
<1>16. IndexOK' /\ SoleOK' /\ RestOK'
  BY <1>1, <1>14, <1>15 DEF IndexOK, SoleOK, RestOK
<1>17. ProgressOK'
  BY <1>1, <1>3, <1>14 DEF ProgressOK
<1>18. PulledLoads'
  BY <1>3, <1>14, <1>15 DEF PulledLoads
<1>. QED  BY <1>7, <1>8, <1>9, <1>10, <1>13, <1>16, <1>17, <1>18 DEF IndInv

-----------------------------------------------------------------------------
(***************************************************************************)
(* All steps.                                                                     *)
(***************************************************************************)

\* The process starts in a state of the invariant: the boot thread has everything to do.
LEMMA InitIndInv ==
  ASSUME Init
  PROVE  IndInv
<1>1. /\ files = Files0 /\ tools = [f \in File |-> None] /\ builtin = FALSE /\ index = {}
      /\ errors = {} /\ loaded = FALSE /\ reloadLock = None /\ suspect = FALSE
      /\ bucket = Bucket0 /\ supabase = Supabase0 /\ etags = Files0
      /\ draft = [f \in File |-> None] /\ syncLock = None /\ jobs = 0 /\ uploads = 0
      /\ odd = {}
  BY DEF Init, PluginInit
<1>2. /\ loader \in [Loaders -> LoadType]
      /\ \A t \in Loaders : /\ loader[t].seen = {} /\ loader[t].cur = None
                            /\ loader[t].pc = IF t = Boot THEN "starting" ELSE "out"
  <2>1. NoLoad \in LoadType /\ NoLoad.pc = "out" /\ NoLoad.seen = {} /\ NoLoad.cur = None
    BY DEF NoLoad, LoadType, LoaderPc
  <2>. DEFINE r == [NoLoad EXCEPT !.pc = "starting"]
  <2>2. r \in LoadType /\ r.pc = "starting" /\ r.seen = {} /\ r.cur = None
    BY <2>1 DEF LoadType, LoaderPc
  <2>3. loader = [t \in Loaders |-> IF t = Boot THEN r ELSE NoLoad]
    BY DEF Init, PluginInit
  <2>. HIDE DEF r
  <2>. QED  BY <2>1, <2>2, <2>3
<1>3. caller \in [Thread -> CallType] /\ \A t \in Thread : caller[t].pc = "out"
  BY DEF Init, PluginInit, NoCall, CallType, CallerPc, Form
<1>4. /\ req \in [Thread -> ReqType]
      /\ \A t \in Thread : /\ req[t].pc = "idle" /\ req[t].synced = {}
                           /\ req[t].touched = FALSE /\ req[t].pulled = FALSE
                           /\ req[t].calm = FALSE
  BY IdleType DEF Init
<1>5. TypeOK
  <2>1. /\ files \in Stored /\ bucket \in Stored /\ supabase \in Stored /\ etags \in Stored
        /\ draft \in Stored
    BY <1>1, StoreAssumption DEF Stored
  <2>2. jobs \in 0 .. MaxJobs /\ uploads \in 0 .. MaxUploads
    BY <1>1, BoundAssumption
  <2>3. PluginTypeOK
    BY <1>1, <1>2, <1>3, <2>1 DEF PluginTypeOK, LoadType, CallType, Stored
  <2>. QED  BY <1>1, <1>4, <2>1, <2>2, <2>3 DEF TypeOK, ReqType
<1>6. \A t \in Loaders : Loading(t) <=> t = Boot
  BY <1>2 DEF Loading
<1>7. LocksFollowWork /\ LoaderOK /\ IndexOK
  BY <1>1, <1>2, <1>4, <1>6, LockFacts DEF LocksFollowWork, LoaderOK, IndexOK
<1>8. ReqOK /\ CallerOK /\ PulledOK /\ CalmOK
  BY <1>2, <1>3, <1>4, LockFacts
     DEF ReqOK, ReqAt, CallerOK, CallAt, PulledOK, PulledAt, CalmOK, CalmAt, InReload,
     InCall
<1>9. SoleOK /\ ProgressOK /\ RestOK /\ PulledLoads
  BY <1>1, <1>2, <1>4, <1>6, LockFacts DEF SoleOK, ProgressOK, RestOK, PulledLoads,
     NoLoading
<1>10. SteadyOK /\ CallsFindOwnTool /\ NobodyElsesTool /\ RetryFindsTool
  BY <1>3 DEF SteadyOK, SteadyAt, CallsFindOwnTool, NobodyElsesTool, RetryFindsTool
<1>11. EtagOK
  BY <1>1 DEF EtagOK
<1>. QED  BY <1>5, <1>7, <1>8, <1>9, <1>10, <1>11 DEF IndInv

\* The start of a request.
LEMMA StartSteps ==
  ASSUME NEW t \in Thread, IndInv, StartStep(t)
  PROVE  IndInv'
<1>1. ASSUME NEW j \in Job, ToolsCall(t, j) \/ LegacyCallTool(t, j)
      PROVE  IndInv'
  BY <1>1, BeginCallStep DEF ToolsCall, LegacyCallTool
<1>2. ASSUME NEW j \in Job, ReloadTools(t, j)
      PROVE  IndInv'
  BY <1>2, BeginReloadStep DEF ReloadTools
<1>3. ASSUME NEW j \in Job, SyncAll(t, j)
      PROVE  IndInv'
  <2>1. j \in Job \cup {FullSync}
    OBVIOUS
  <2>. QED  BY <1>3, <2>1, BeginSyncStep DEF SyncAll
<1>4. ASSUME NEW j \in Job, SyncTool(t, j)
      PROVE  IndInv'
  <2>1. j \in Job \cup {FullSync}
    OBVIOUS
  <2>. QED  BY <1>4, <2>1, BeginSyncStep DEF SyncTool
<1>5. ASSUME NEW j \in Job, LegacySyncTool(t, j)
      PROVE  IndInv'
  <2>1. j \in Job \cup {FullSync}
    OBVIOUS
  <2>. QED  BY <1>5, <2>1, BeginSyncStep DEF LegacySyncTool
<1>6. ASSUME StartupSync(t) \/ PeriodicSync(t)
      PROVE  IndInv'
  <2>1. FullSync \in Job \cup {FullSync} /\ FullSync.kind = "syncAll"
    BY DEF FullSync
  <2>. QED  BY <1>6, <2>1, BeginSyncStep DEF StartupSync, PeriodicSync
<1>. QED  BY <1>1, <1>2, <1>3, <1>4, <1>5, <1>6 DEF StartStep

\* The lock of the syncer is taken for everything or for one tool.
LEMMA LockSteps ==
  ASSUME NEW t \in Thread, IndInv, LockAll(t) \/ LockTool(t)
  PROVE  IndInv'
<1>1. req[t] \in ReqType /\ bucket \in Stored /\ ReqAt(t)
  BY TypeFacts DEF IndInv, ReqOK
<1>2. CASE LockAll(t)
  <2>1. req[t].listing \in Stored /\ InScope(req[t].job) \in SUBSET File
    BY <1>1 DEF ReqType, InScope
  <2>. QED  BY <1>2, <2>1, LockStep DEF LockAll
<1>3. CASE LockTool(t)
  <2>1. PICK found \in BOOLEAN :
          Lock(t, [f \in File |-> IF f = req[t].job.file /\ found THEN bucket[f] ELSE None],
               {req[t].job.file})
    BY <1>3 DEF LockTool
  <2>. DEFINE listing == [f \in File |-> IF f = req[t].job.file /\ found THEN bucket[f] ELSE None]
  <2>2. req[t].job.kind # "syncAll" /\ req[t].job.file \in File
    BY <1>1, <1>3 DEF LockTool, ReqAt
  <2>3. /\ listing \in Stored
        /\ \A f \in File : listing[f] # None => f = req[t].job.file /\ listing[f] = bucket[f]
    BY <1>1 DEF Stored
  <2>4. {req[t].job.file} \in SUBSET File
    BY <2>2
  <2>5. Lock(t, listing, {req[t].job.file})
    BY <2>1
  <2>. HIDE DEF listing
  <2>. QED  BY <2>2, <2>3, <2>4, <2>5, LockStep
<1>. QED  BY <1>2, <1>3

\* The end of a sync.
LEMMA FinishStep ==
  ASSUME NEW t \in Thread, IndInv, Finish(t)
  PROVE  IndInv'
<1>1. PICK gone \in SUBSET Orphans(t) :
        /\ Finishes(t, gone)
        /\ IF req[t].synced # {} \/ gone # {}
           THEN /\ Become(t, [Idle EXCEPT !.pc = "reloadSynced", !.job = req[t].job,
                                          !.touched = TRUE], gone)
                /\ StartReload(t)
                /\ UNCHANGED suspect
           ELSE Answer(t) /\ UNCHANGED loader
  BY DEF Finish, Finishes
<1>2. CASE req[t].synced # {} \/ gone # {}
  BY <1>1, <1>2, FinishReloadsStep
<1>3. CASE req[t].synced = {} /\ gone = {}
  BY <1>1, <1>3, FinishAnswersStep
<1>. QED  BY <1>2, <1>3

\* A step of a request.
LEMMA RequestSteps ==
  ASSUME NEW t \in Thread, IndInv, ReqStep(t)
  PROVE  IndInv'
<1>1. CASE PullNothing(t)
  <2>1. CASE req[t].job.kind = "legacyCall"
    BY <1>1, <2>1, PullNothingCallStep DEF PullNothing
  <2>2. CASE req[t].job.kind # "legacyCall"
    BY <1>1, <2>2, PullNothingSyncStep DEF PullNothing
  <2>. QED  BY <2>1, <2>2
<1>2. ASSUME NEW f \in File, SkipFile(t, f) \/ Download(t, f) \/ DownloadFails(t, f)
      PROVE  IndInv'
  BY <1>2, SkipFileStep, DownloadStep, DownloadFailsStep
<1>. QED  BY <1>1, <1>2, CallAnsweredStep, CallUnknownStep, PullStep, ListBucketStep,
             ListNothingStep, LockSteps, FinishStep, SyncRaisesStep, ReloadEndsRequestStep,
             ReloadThenS3Step, ReloadAgainStep, ReloadThenRecallStep
          DEF ReqStep

\* A step of the plugin runtime.
LEMMA RuntimeSteps ==
  ASSUME NEW l \in Loaders, IndInv, RuntimeStep(l)
  PROVE  IndInv'
<1>1. UNCHANGED <<syncVars, req>>
  BY DEF RuntimeStep
<1>2. CASE LoadStep(l)
  <2>1. ASSUME NEW f \in File, LoadCheck(l, f)
        PROVE  IndInv'
    BY <1>1, <2>1, LoadCheckStep
  <2>. QED  BY <1>1, <1>2, <2>1, ReloadBeginStep, LoadBuiltinStep, LoadExecStep,
               LoadEndStep,
               LoadRaisesStep
            DEF LoadStep
<1>3. CASE l \in Thread /\ CallStep(l)
  BY <1>1, <1>3, CallGateStep, CallLookStep, CallFetchOwnStep, CallFetchDirectStep,
     CallScanStep
     DEF CallStep
<1>. QED  BY <1>2, <1>3 DEF RuntimeStep

\* A step that changes nothing.
LEMMA StutterStep ==
  ASSUME IndInv, UNCHANGED vars
  PROVE  IndInv'
<1>1. /\ UNCHANGED <<files, tools, builtin, index, errors, loaded, reloadLock, loader,
                     caller,
                     suspect>>
      /\ UNCHANGED <<bucket, supabase, etags, draft, syncLock, jobs, uploads, odd, req>>
  BY DEF vars, pluginVars, registryVars, syncVars
<1>2. (/\ TypeOK /\ LocksFollowWork /\ LoaderOK /\ ReqOK /\ CallerOK /\ IndexOK)'
  BY <1>1 DEF IndInv, TypeOK, PluginTypeOK, LocksFollowWork, LoaderOK, ReqOK, ReqAt,
     CallerOK,
     CallAt, IndexOK, Loading
<1>3. (/\ SoleOK /\ ProgressOK /\ RestOK /\ PulledOK /\ PulledLoads)'
  BY <1>1 DEF IndInv, SoleOK, ProgressOK, RestOK, PulledOK, PulledAt, PulledLoads, Loading,
     NoLoading, Pending, SomePending, Exact
<1>4. (/\ SteadyOK /\ EtagOK /\ CalmOK /\ CallsFindOwnTool /\ NobodyElsesTool /\ RetryFindsTool)'
  BY <1>1 DEF IndInv, SteadyOK, SteadyAt, EtagOK, CalmOK, CalmAt, Overlooked, Unchanged,
     CallsFindOwnTool,
         NobodyElsesTool,
     RetryFindsTool
<1>. QED  BY <1>2, <1>3, <1>4 DEF IndInv

\* The invariant is inductive: no step of a request, a load, a call or a client leaves it.
THEOREM Invariance == Spec => []IndInv
<1>1. Init => IndInv
  BY InitIndInv
<1>2. IndInv /\ [Next]_vars => IndInv'
  <2>1. SUFFICES ASSUME IndInv, [Next]_vars
                 PROVE  IndInv'
    OBVIOUS
  <2>2. ASSUME NEW t \in Thread, StartStep(t) \/ ReqStep(t)
        PROVE  IndInv'
    BY <2>1, <2>2, StartSteps, RequestSteps
  <2>3. ASSUME NEW t \in Loaders, RuntimeStep(t)
        PROVE  IndInv'
    BY <2>1, <2>3, RuntimeSteps
  <2>4. ASSUME NEW c \in Change, Upload(c)
        PROVE  IndInv'
    BY <2>1, <2>4, UploadStep
  <2>5. CASE Served \/ UNCHANGED vars
    BY <2>1, <2>5, StutterStep DEF Served
  <2>. QED  BY <2>1, <2>2, <2>3, <2>4, <2>5 DEF Next
<1>. QED  BY <1>1, <1>2, PTL DEF Spec

-----------------------------------------------------------------------------
(***************************************************************************)
(* What the invariant gives.                                                      *)
(***************************************************************************)

\* The variables of the plugin runtime and the syncer keep their types.
THEOREM TypeCorrect == Spec => []TypeOK
<1>1. IndInv => TypeOK
  BY DEF IndInv
<1>. QED  BY <1>1, Invariance, PTL

\* _S3Syncer._lock and _reload_lock are held exactly while their holder is at work: one
\* request syncs and one reloads at a time, and no error leaves a lock behind.
THEOREM LocksAreFollowed == Spec => []LocksFollowWork
<1>1. IndInv => LocksFollowWork
  BY DEF IndInv
<1>. QED  BY <1>1, Invariance, PTL

\* With no load under way and no reload to come, TOOLS, NAME_INDEX and PLUGIN_ERRORS are what
\* the files say, unless a reload failed, was skipped or met the boot thread.
THEOREM RegistryFollows == Spec => []RegistryFollowsDisk
<1>1. IndInv => RegistryFollowsDisk
  <2>1. SUFFICES ASSUME IndInv, AtRest, ~suspect
                 PROVE  /\ loaded /\ builtin
                        /\ \A f \in File :
                             /\ tools[f] = IF files[f] \in Good THEN files[f] ELSE None
                             /\ files[f] \in Content \ Good => f \in errors
                        /\ index = {f \in File : tools[f] # None}
    BY DEF RegistryFollowsDisk
  <2>2. NoLoading /\ ~SomePending
    BY <2>1 DEF AtRest, NoLoading, SomePending, Pending
  <2>3. loaded /\ builtin /\ \A f \in File : Exact(f)
    BY <2>1, <2>2 DEF IndInv, RestOK
  <2>4. index = {f \in File : tools[f] # None}
    BY <2>1 DEF IndInv, IndexOK, TypeOK, PluginTypeOK
  <2>. QED  BY <2>3, <2>4 DEF Exact
<1>. QED  BY <1>1, Invariance, PTL

\* With the lock free, a file with an ETag in .s3_etag_cache.json is the object of that ETag,
\* so that sync_all and sync_tool may skip it.
THEOREM EtagsAreTrue == Spec => []EtagsTellTruth
<1>1. IndInv => EtagsTellTruth
  <2>1. SUFFICES ASSUME IndInv, NEW f \in File, syncLock = None, etags[f] # None,
                        files[f] # None, f \notin odd
                 PROVE  files[f] = etags[f]
    BY DEF EtagsTellTruth
  <2>2. \A t \in Thread : f \notin req[t].synced
    BY <2>1, LockFacts DEF IndInv, LocksFollowWork, ReqOK, ReqAt
  <2>. QED  BY <2>1, <2>2 DEF IndInv, EtagOK
<1>. QED  BY <1>1, Invariance, PTL

\* call_tool_direct: a caller whom no reload overtook gets the tool he named.
THEOREM CallsFindOwn == Spec => []CallsFindOwnTool
<1>1. IndInv => CallsFindOwnTool
  BY DEF IndInv
<1>. QED  BY <1>1, Invariance, PTL

\* call_tool_direct: nobody runs the tool of another user, by whatever way he named it.
THEOREM NobodyElses == Spec => []NobodyElsesTool
<1>1. IndInv => NobodyElsesTool
  BY DEF IndInv
<1>. QED  BY <1>1, Invariance, PTL

\* legacy_call_tool: the retry after a pull runs the tool that was pulled.
THEOREM RetryFinds == Spec => []RetryFindsTool
<1>1. IndInv => RetryFindsTool
  BY DEF IndInv
<1>. QED  BY <1>1, Invariance, PTL

\* sync_all and sync_tool: the end of a sync that nothing disturbed leaves every file it is
\* about as the bucket has it, except one that its ETag made it skip and an orphan that
\* could not be removed.
THEOREM SyncsMirror == Spec => SyncMirrors
<1>. DEFINE Mirrored(t, f) ==
       \/ files'[f] = bucket[f]
       \/ f \in Overlooked(t)
       \/ f \in Orphans(t) /\ bucket[f] = None
       \/ req[t].job.kind = "syncAll" /\ f \notin InScope(req[t].job)
       \/ req[t].job.kind # "syncAll" /\ req[t].listing[f] = None
<1>1. ASSUME IndInv, NEW t \in Thread, Finish(t), req[t].calm, NEW f \in File
      PROVE  Mirrored(t, f)
  <2>1. PICK gone \in SUBSET Orphans(t) :
          files' = [g \in File |-> IF g \in gone THEN None ELSE files[g]]
    BY <1>1 DEF Finish
  <2>2. req[t].pc = "syncing" /\ req[t].left = {} /\ CalmAt(t)
    BY <1>1 DEF Finish, IndInv, CalmOK
  <2>3. CASE req[t].job.kind = "syncAll" /\ f \in InScope(req[t].job)
    <3>1. req[t].listing = bucket
      BY <1>1, <2>2, <2>3 DEF CalmAt
    <3>2. CASE bucket[f] # None
      <4>1. files[f] = bucket[f] \/ f \in Overlooked(t)
        BY <1>1, <2>2, <2>3, <3>1, <3>2 DEF CalmAt
      <4>2. f \notin Orphans(t)
        BY <2>3, <3>1, <3>2 DEF Orphans
      <4>. QED  BY <1>1, <2>1, <4>1, <4>2
    <3>3. CASE bucket[f] = None
      <4>1. files[f] # None => f \in Orphans(t)
        BY <1>1, <2>3, <3>1, <3>3 DEF Orphans
      <4>. QED  BY <1>1, <2>1, <3>3, <4>1
    <3>. QED  BY <3>2, <3>3
  <2>4. CASE req[t].job.kind # "syncAll" /\ req[t].listing[f] # None
    <3>1. files[f] = bucket[f] \/ f \in Overlooked(t)
      BY <1>1, <2>2, <2>4 DEF CalmAt
    <3>2. gone = {}
      BY <2>1, <2>4 DEF Orphans
    <3>. QED  BY <1>1, <2>1, <3>1, <3>2
  <2>. QED  BY <2>3, <2>4
<1>2. IndInv => [\A t \in Thread : req[t].calm /\ Finish(t) =>
                   \A f \in File : Mirrored(t, f)]_vars
  BY <1>1
<1>. QED  BY <1>2, Invariance, PTL DEF SyncMirrors
=============================================================================
