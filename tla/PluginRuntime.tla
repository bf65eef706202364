---------------------------- MODULE PluginRuntime ----------------------------
(***************************************************************************)
(* The local tools of the process: the registry TOOLS and NAME_INDEX that         *)
(* load_plugins and reload_plugins fill from the files under data/ and tools/       *)
(* (app/core/runtime/plugin_loader.py) and call_tool_direct reads                     *)
(* (app/core/runtime/tool_executor.py).                                                *)
(*                                                                         *)
(* Loads and calls run in threads; a step is what a thread does between two points      *)
(* where a switch to another thread can be noticed.  Readers take no lock, and the       *)
(* loader started at boot takes none either.  A loader is started and its return is       *)
(* consumed by the module that extends this one, which also changes the files.             *)
(***************************************************************************)
EXTENDS Integers, FiniteSets

CONSTANTS File,         \* plugin files: data/{user}/{project}/tools/{category}/{tool}/...
          User,         \* users, each with a project
          Owner,        \* the user and project of a file
          Name,         \* the display name of the tool in it
          BuiltinName,  \* names of the built-in tools under tools/
          Content,      \* what a file may hold
          Good,         \* contents that compile and register their tool
          Undecodable,  \* contents that are not UTF-8
          Thread,       \* requests served by the thread pool
          Boot,         \* the plugin-loader thread of start_plugin_loader
          None

ASSUME FileAssumption == Owner \in [File -> User] /\ DOMAIN Name = File
ASSUME ContentAssumption == Good \subseteq Content /\ Undecodable \subseteq Content \ Good
ASSUME ThreadAssumption == Boot \notin Thread
ASSUME AbsentAssumption == None \notin Content \cup User \cup File \cup Thread \cup {Boot}

VARIABLES
  files,       \* the content of each plugin file, None when it is not there
  tools,       \* TOOLS: what is registered under the key of each file
  builtin,     \* the built-in tools are in TOOLS
  index,       \* NAME_INDEX: the files whose key is listed under their name
  errors,      \* PLUGIN_ERRORS
  loaded,      \* _plugins_loaded
  reloadLock,  \* the holder of _reload_lock
  loader,      \* per thread: where its load is, the files visited, the one at hand
  caller,      \* per thread: where its call is, who calls what, and the answer; history:
               \* from: the file whose tool was run; overlap: a reload has begun since it
               \* entered, or it did not wait
  \* History, read by no guard:
  suspect      \* since the last reload that began after boot: one has raised or not
               \* seen data/, or files were changed and nothing reloaded, or boot was still
               \* loading

registryVars == <<tools, builtin, index, errors, loaded, reloadLock>>
pluginVars == <<files, registryVars, loader, caller, suspect>>

Loaders == Thread \cup {Boot}

\* locking: waiting for _reload_lock; starting: nothing is registered yet; visiting:
\* in the directories; checked: a file was compiled; returned, raised: the outcome,
\* not yet seen by whoever called.
LoaderPc == {"out", "locking", "starting", "visiting", "checked", "returned", "raised"}
CallerPc == {"out", "gate", "own", "fetchOwn", "direct", "fetchDirect", "scan", "done"}

\* category: the owner names tool and category; short: no category; key: the whole
\* registry key is given as the name of the tool.
Form == {"category", "short", "key"}
Failure == {"unknown", "keyError", "denied"}

\* A tool, and nothing at all, is told apart from a built-in tool and from an error.
ASSUME AnswerAssumption == (Content \cup {None}) \cap (Failure \cup {"builtin"}) = {}

NoLoad == [pc |-> "out", seen |-> {}, cur |-> None]
NoCall == [pc |-> "out", who |-> None, file |-> None, form |-> "short", got |-> None,
           from |-> None, overlap |-> FALSE]

PluginTypeOK ==
  /\ files \in [File -> Content \cup {None}]
  /\ tools \in [File -> Good \cup {None}]
  /\ builtin \in BOOLEAN
  /\ index \in SUBSET File
  /\ errors \in SUBSET File
  /\ loaded \in BOOLEAN
  /\ reloadLock \in Thread \cup {None}
  /\ loader \in [Loaders -> [pc : LoaderPc, seen : SUBSET File, cur : File \cup {None}]]
  /\ caller \in [Thread -> [pc : CallerPc, who : User \cup {None},
                            file : File \cup {None}, form : Form,
                            got : Good \cup Failure \cup {"builtin", None},
                            from : File \cup {None}, overlap : BOOLEAN]]
  /\ suspect \in BOOLEAN

\* start_plugin_loader has been called, and nothing else yet.
PluginInit ==
  /\ tools = [f \in File |-> None]
  /\ builtin = FALSE
  /\ index = {}
  /\ errors = {}
  /\ loaded = FALSE
  /\ reloadLock = None
  /\ loader = [t \in Loaders |-> IF t = Boot THEN [NoLoad EXCEPT !.pc = "starting"]
                                 ELSE NoLoad]
  /\ caller = [t \in Thread |-> NoCall]
  /\ suspect = FALSE

-----------------------------------------------------------------------------
\* Thread t is changing the registry.
Loading(t) == loader[t].pc \in {"starting", "visiting", "checked"}
BootDone == loader[Boot].pc = "out"

LoaderAt(t, p) == loader' = [loader EXCEPT ![t].pc = p]

-----------------------------------------------------------------------------
(***************************************************************************)
(* load_plugins, alone in the boot thread and inside reload_plugins.              *)
(***************************************************************************)

\* The event and the registries are cleared, and the modules and byte code of
\* earlier loads.
Cleared(t) ==
  /\ loaded' = FALSE
  /\ tools' = [f \in File |-> None]
  /\ builtin' = FALSE
  /\ index' = {}
  /\ errors' = {}
  /\ LoaderAt(t, "starting")
  /\ suspect' = ~BootDone
  /\ caller' = [c \in Thread |-> [caller[c] EXCEPT !.overlap = @ \/ caller[c].pc # "out"]]
  /\ UNCHANGED files

\* with _reload_lock.
ReloadBegin(t) ==
  /\ loader[t].pc = "locking" /\ reloadLock = None
  /\ reloadLock' = t
  /\ Cleared(t)

LoadBuiltin(t) ==
  /\ loader[t].pc = "starting"
  /\ builtin' = TRUE
  /\ LoaderAt(t, "visiting")
  /\ UNCHANGED <<files, tools, index, errors, loaded, reloadLock, caller, suspect>>

\* A directory is read, in whatever order iterdir gives; a file in it is read and
\* compiled.  Only a SyntaxError is caught.
LoadCheck(t, f) ==
  /\ loader[t].pc = "visiting" /\ f \notin loader[t].seen
  /\ files[f] \notin Undecodable
  /\ loader' = [loader EXCEPT ![t].seen = @ \cup {f},
                              ![t].pc = IF files[f] \in Good THEN "checked" ELSE "visiting",
                              ![t].cur = IF files[f] \in Good THEN f ELSE None]
  /\ errors' = IF files[f] \in Content \ Good THEN errors \cup {f} ELSE errors
  /\ UNCHANGED <<files, tools, builtin, index, loaded, reloadLock, caller, suspect>>

\* Mutant: a file is registered without its name.
Indexed_Skipped(f) == index

\* NAME_INDEX after register_tool.
Indexed(f) == index \cup {f}

\* Mutant: whatever was compiled is taken for registered.
Registers_Anything(f) == TRUE

\* The file, as it is now, runs and registers its tool.
Registers(f) == files[f] \in Good

\* exec_module reads the file again; whatever it raises is caught.
LoadExec(t) ==
  LET f == loader[t].cur IN
  /\ loader[t].pc = "checked"
  /\ IF Registers(f)
     THEN /\ tools' = [tools EXCEPT ![f] = files[f]]
          /\ index' = Indexed(f)
          /\ UNCHANGED errors
     ELSE /\ errors' = errors \cup {f}
          /\ UNCHANGED <<tools, index>>
  /\ loader' = [loader EXCEPT ![t].pc = "visiting", ![t].cur = None]
  /\ UNCHANGED <<files, builtin, loaded, reloadLock, caller, suspect>>

\* Every directory has been seen, or data/ itself could not be listed, which is only
\* logged: the event is set.
LoadEnd(t) ==
  /\ loader[t].pc = "visiting" /\ loader[t].seen \in {File, {}}
  /\ loaded' = TRUE
  /\ reloadLock' = IF t = Boot THEN reloadLock ELSE None
  /\ loader' = [loader EXCEPT ![t] = [NoLoad EXCEPT !.pc = IF t = Boot THEN "out" ELSE "returned"]]
  /\ suspect' = (suspect \/ loader[t].seen # File)
  /\ UNCHANGED <<files, tools, builtin, index, errors, caller>>

\* Something that is not caught: the purge or the listing of a user's directory fails,
\* a listed file is gone or not UTF-8.  A reload leaves the event cleared; the boot thread
\* sets it all the same.
LoadRaises(t) ==
  /\ loader[t].pc \in {"starting", "visiting"}
  /\ loaded' = (IF t = Boot THEN TRUE ELSE loaded)
  /\ reloadLock' = IF t = Boot THEN reloadLock ELSE None
  /\ loader' = [loader EXCEPT ![t] = [NoLoad EXCEPT !.pc = IF t = Boot THEN "out" ELSE "raised"]]
  /\ suspect' = TRUE
  /\ UNCHANGED <<files, tools, builtin, index, errors, caller>>

LoadStep(t) ==
  \/ ReloadBegin(t)
  \/ LoadBuiltin(t)
  \/ \E f \in File : LoadCheck(t, f)
  \/ LoadExec(t)
  \/ LoadEnd(t)
  \/ LoadRaises(t)

-----------------------------------------------------------------------------
(***************************************************************************)
(* call_tool_direct.  Only the name given decides between the steps.  The "code"    *)
(* argument, a file that is run in place of the tool or of a tool that is unknown,     *)
(* does not go through the registry and is left out.                                     *)
(***************************************************************************)
CallerAt(t, p) ==
  /\ caller' = [caller EXCEPT ![t].pc = p]
  /\ UNCHANGED <<files, registryVars, loader, suspect>>

\* The call ends with x, which the tool of file f gave; f is None when no tool ran.
CallerGets(t, x, f) ==
  /\ caller' = [caller EXCEPT ![t].pc = "done", ![t].got = x, ![t].from = f]
  /\ UNCHANGED <<files, registryVars, loader, suspect>>

\* Past the event, wherever the load that set it left the registry.
Enter(t, late) ==
  /\ caller[t].pc = "gate"
  /\ caller' = [caller EXCEPT ![t].pc = IF caller[t].form = "category" THEN "own" ELSE "direct",
                              ![t].overlap = late]
  /\ UNCHANGED <<files, registryVars, loader, suspect>>

CallGate(t) == loaded /\ Enter(t, FALSE)

\* Nobody looks at what wait(timeout=120) returned.
CallGateTimesOut(t) == ~loaded /\ Enter(t, TRUE)

\* Mutant: the name alone is tried before the key of the caller's own tool.
OwnFirst_Reversed(t) == FALSE

\* The key of the caller's own tool is in TOOLS.
OwnFirst(t) == tools[caller[t].file] # None

CallOwn(t) ==
  /\ caller[t].pc = "own"
  /\ CallerAt(t, IF OwnFirst(t) THEN "fetchOwn" ELSE "direct")

\* Mutant: the authorization check is gone.
Allowed_Anyone(who, f) == TRUE

\* The authorization check: a tool of a user and project is for that user alone.
Allowed(who, f) == who = Owner[f]

\* The tool of file f was found, by whatever way, and runs if the caller may have it.
CallerRuns(t, f) ==
  IF Allowed(caller[t].who, f) THEN CallerGets(t, tools[f], f)
                               ELSE CallerGets(t, "denied", None)

\* TOOLS[k] after "k in TOOLS": a reload in between is a KeyError.
CallFetchOwn(t) ==
  LET f == caller[t].file IN
  /\ caller[t].pc = "fetchOwn"
  /\ IF tools[f] = None THEN CallerGets(t, "keyError", None) ELSE CallerRuns(t, f)

\* What TOOLS holds under the name given: a built-in tool, or for a whole key the
\* tool of that key.
Direct(t) ==
  IF caller[t].form = "key" THEN tools[caller[t].file]
  ELSE IF builtin /\ Name[caller[t].file] \in BuiltinName THEN "builtin" ELSE None

CallDirect(t) ==
  /\ caller[t].pc = "direct"
  /\ CallerAt(t, IF Direct(t) # None THEN "fetchDirect" ELSE "scan")

\* A built-in tool has no user and is for everybody.
CallFetchDirect(t) ==
  /\ caller[t].pc = "fetchDirect"
  /\ \/ Direct(t) = None /\ CallerGets(t, "keyError", None)
     \/ Direct(t) = "builtin" /\ CallerGets(t, "builtin", None)
     \/ Direct(t) \in Good /\ CallerRuns(t, caller[t].file)

\* The keys listed under the name that the caller may mean: all of them for a caller
\* without a user or project, who is then refused.
Candidates(t) ==
  {f \in index : /\ tools[f] # None
                 /\ caller[t].form # "key" /\ Name[f] = Name[caller[t].file]
                 /\ caller[t].who # None => Owner[f] = caller[t].who
                 /\ caller[t].form = "category" => f = caller[t].file}

CallScan(t) ==
  /\ caller[t].pc = "scan"
  /\ \/ Candidates(t) = {} /\ CallerGets(t, "unknown", None)
     \/ \E f \in Candidates(t) : CallerRuns(t, f)

CallStep(t) ==
  \/ CallGate(t)
  \/ CallGateTimesOut(t)
  \/ CallOwn(t)
  \/ CallFetchOwn(t)
  \/ CallDirect(t)
  \/ CallFetchDirect(t)
  \/ CallScan(t)

=============================================================================
