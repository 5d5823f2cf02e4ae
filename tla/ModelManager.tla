---------------------------- MODULE ModelManager ----------------------------
(***************************************************************************)
(* ModelManager (src/src/modelmanager.cpp) serving one configured model.  *)
(* Two threads run its code: the main thread, which calls start(file)     *)
(* (possibly twice) and join(), and the detached config watcher thread    *)
(* that start() launches.  Both run loadConfig, which clears the models   *)
(* map and calls reloadModelWithVersions: read the requested versions,    *)
(* find or create the Model, diff (VersionsToChange), then the manager's  *)
(* own addVersions, reloadVersions and retireVersions, each returning at  *)
(* the first error.  The map holds at most one Model; a Model object is a *)
(* slot, kept alive while the map or a thread's shared_ptr refers to it.  *)
(* The config file has a change time st_ctime in whole seconds.           *)
(***************************************************************************)
EXTENDS Naturals, VersionsToChange, VersionOps

CONSTANTS
  MaxStarts,   \* calls of start(file) by the main thread
  MaxWrites,   \* writes of the config file by the operator
  MaxTime      \* seconds of wall-clock time

ASSUME BoundsAssumption ==
  /\ MaxStarts \in Nat \ {0}
  /\ MaxWrites \in Nat
  /\ MaxTime \in Nat

Threads == {"main", "watcher"}

\* Model objects: one in the map and one still held by the other thread.
Slots == 1..2

\* Where a thread is inside loadConfig / reloadModelWithVersions.
LcPcs == {"idle", "file", "reconcile", "start", "reload", "retire",
          "retireUpdate"}

VARIABLES
  mstatus,      \* slot -> version -> ModelVersionState, or Absent
  mdefault,     \* slot -> Model::defaultVersion
  current,      \* models[name]: the slot in the map, 0 when absent
  lc,           \* thread -> its place in loadConfig
  lcOk,         \* thread -> loadConfig got past the file checks
  mdl,          \* thread -> the Model its reconciliation holds, or 0
  requested,    \* thread -> the requested versions it read
  todo,         \* thread -> versions the current loop still has to visit
  toReload,     \* thread -> the reload set of its diff
  toRetire,     \* thread -> the retire set of its diff
  cfgStamp,     \* st_ctime of the config file
  cfgWrites,    \* writes of the config file so far
  loaded,       \* the last config write a loadConfig read
  now,          \* wall clock, in seconds
  mainPc,       \* the main thread: init, starting, started or joined
  startCalls,   \* start(file) calls made
  futureTaken,  \* exit.get_future() has been called
  exitSet,      \* exit.set_value() has been called
  watchers,     \* watcher threads created
  wpc,          \* the watcher: none, init, wait, stat, load or exited
  lastTime      \* the watcher's lastTime

vars == <<mstatus, mdefault, current, lc, lcOk, mdl, requested, todo,
          toReload, toRetire, cfgStamp, cfgWrites, loaded, now, mainPc,
          startCalls, futureTaken, exitSet, watchers, wpc, lastTime>>

modelVars == <<mstatus, mdefault, current>>
threadVars == <<lc, lcOk, mdl, requested, todo, toReload, toRetire>>
fileVars == <<cfgStamp, cfgWrites, now>>
lifeVars == <<mainPc, startCalls, futureTaken, exitSet, watchers>>
watcherVars == <<wpc, lastTime>>

EmptyModel == [v \in Versions |-> Absent]

Init ==
  /\ mstatus = [s \in Slots |-> EmptyModel]
  /\ mdefault = [s \in Slots |-> 0]
  /\ current = 0
  /\ lc = [t \in Threads |-> "idle"]
  /\ lcOk = [t \in Threads |-> FALSE]
  /\ mdl = [t \in Threads |-> 0]
  /\ requested = [t \in Threads |-> {}]
  /\ todo = [t \in Threads |-> {}]
  /\ toReload = [t \in Threads |-> {}]
  /\ toRetire = [t \in Threads |-> {}]
  /\ cfgStamp = 0 /\ cfgWrites = 0 /\ loaded = 0 /\ now = 0
  /\ mainPc = "init" /\ startCalls = 0
  /\ futureTaken = FALSE /\ exitSet = FALSE /\ watchers = 0
  /\ wpc = "none" /\ lastTime = 0

-----------------------------------------------------------------------------
(* A reconciliation returns (OK or an error status): the thread leaves    *)
(* loadConfig and drops its shared_ptr to the Model.                       *)
ReturnFrom(t) ==
  /\ lc' = [lc EXCEPT ![t] = "idle"]
  /\ mdl' = [mdl EXCEPT ![t] = 0]

(* loadConfig: the file checks (unreadable file, parse error, no          *)
(* model_config_list) return an error before anything changes; otherwise  *)
(* models.clear() and the loop calls reloadModelWithVersions.              *)
LoadConfigFile(t) ==
  /\ lc[t] = "file"
  /\ \/ /\ lc' = [lc EXCEPT ![t] = "idle"]
        /\ lcOk' = [lcOk EXCEPT ![t] = FALSE]
        /\ UNCHANGED <<current, loaded>>
     \/ /\ current' = 0
        /\ loaded' = cfgWrites
        /\ lc' = [lc EXCEPT ![t] = "reconcile"]
        /\ lcOk' = [lcOk EXCEPT ![t] = TRUE]
  /\ UNCHANGED <<mstatus, mdefault, mdl, requested, todo, toReload, toRetire,
                 fileVars, lifeVars, watcherVars>>

(* reloadModelWithVersions: readAvailableVersions may fail and return;    *)
(* otherwise getModelIfExistCreateElse takes the Model in the map or puts *)
(* a new, empty one there, and getVersionsToChange diffs its versions      *)
(* against the requested ones.                                             *)
ReloadModelWithVersions(t) ==
  /\ lc[t] = "reconcile"
  /\ \/ /\ ReturnFrom(t)
        /\ requested' = [requested EXCEPT ![t] = {}]
        /\ UNCHANGED <<modelVars, todo, toReload, toRetire>>
     \/ \E req \in SUBSET Versions :
          LET free == {s \in Slots : \A u \in Threads : mdl[u] # s}
              m == IF current # 0 THEN current ELSE CHOOSE s \in free : TRUE
              st == IF current # 0 THEN mstatus[m] ELSE EmptyModel
              d == VersionsToChange(st, req)
          IN  /\ current' = m
              /\ mstatus' = [mstatus EXCEPT ![m] = st]
              /\ mdefault' = [mdefault EXCEPT ![m] =
                                IF current # 0 THEN @ ELSE 0]
              /\ mdl' = [mdl EXCEPT ![t] = m]
              /\ requested' = [requested EXCEPT ![t] = req]
              /\ todo' = [todo EXCEPT ![t] = d.toStart]
              /\ toReload' = [toReload EXCEPT ![t] = d.toReload]
              /\ toRetire' = [toRetire EXCEPT ![t] = d.toRetire]
              /\ lc' = [lc EXCEPT ![t] = "start"]
  /\ UNCHANGED <<lcOk, fileVars, loaded, lifeVars, watcherVars>>

(* ModelManager::addVersions, one iteration: model->addVersion emplaces a *)
(* new instance (a no-op when the version is already in the map) and      *)
(* loads it; on success it updates the default version, on failure        *)
(* addVersions returns the error and reloadModelWithVersions returns it.  *)
AddVersions(t) ==
  /\ lc[t] = "start" /\ todo[t] # {}
  /\ LET v == Lowest(todo[t])
         m == mdl[t]
     IN  \E ok \in BOOLEAN :
           /\ mstatus' = [mstatus EXCEPT ![m][v] =
                            IF @ = Absent THEN (IF ok THEN "AVAILABLE" ELSE "END")
                            ELSE @]
           /\ IF ok
                THEN /\ mdefault' = [mdefault EXCEPT ![m] =
                                       UpdateDefaultVersion(mstatus'[m], 0)]
                     /\ todo' = [todo EXCEPT ![t] = @ \ {v}]
                     /\ UNCHANGED <<lc, mdl>>
                ELSE /\ ReturnFrom(t)
                     /\ UNCHANGED <<mdefault, todo>>
  /\ UNCHANGED <<current, lcOk, requested, toReload, toRetire, fileVars,
                 loaded, lifeVars, watcherVars>>

(* The end of one of the manager's loops: the next one starts, and after  *)
(* retireVersions reloadModelWithVersions returns OK.                      *)
LoopDone(t) ==
  /\ lc[t] \in {"start", "reload", "retire"} /\ todo[t] = {}
  /\ CASE lc[t] = "start" ->
            /\ lc' = [lc EXCEPT ![t] = "reload"]
            /\ todo' = [todo EXCEPT ![t] = toReload[t]]
            /\ UNCHANGED mdl
       [] lc[t] = "reload" ->
            /\ lc' = [lc EXCEPT ![t] = "retire"]
            /\ todo' = [todo EXCEPT ![t] = toRetire[t]]
            /\ UNCHANGED mdl
       [] lc[t] = "retire" -> ReturnFrom(t) /\ UNCHANGED todo
  /\ UNCHANGED <<modelVars, lcOk, requested, toReload, toRetire, fileVars,
                 loaded, lifeVars, watcherVars>>

(* ModelManager::reloadVersions, one iteration: unloadModel and          *)
(* loadModel, returning on failure and updating the default on success.   *)
(* Its UNKNOWN_ERROR return for a version getModelInstanceByVersion does  *)
(* not find cannot be taken: the diff only reloads versions in the map,   *)
(* and nothing erases an entry of a Model a thread holds.                  *)
ReloadVersions(t) ==
  /\ lc[t] = "reload" /\ todo[t] # {}
  /\ LET v == Lowest(todo[t])
         m == mdl[t]
     IN  \E ok \in BOOLEAN :
           /\ mstatus' = [mstatus EXCEPT ![m][v] = IF ok THEN "AVAILABLE" ELSE "END"]
           /\ IF ok
                THEN /\ mdefault' = [mdefault EXCEPT ![m] =
                                       UpdateDefaultVersion(mstatus'[m], 0)]
                     /\ todo' = [todo EXCEPT ![t] = @ \ {v}]
                     /\ UNCHANGED <<lc, mdl>>
                ELSE /\ ReturnFrom(t)
                     /\ UNCHANGED <<mdefault, todo>>
  /\ UNCHANGED <<current, lcOk, requested, toReload, toRetire, fileVars,
                 loaded, lifeVars, watcherVars>>

(* ModelManager::retireVersions, one iteration: unloadModel takes the    *)
(* version to END, and only then (RetireUpdate) is the default version    *)
(* moved off it.  As in reloadVersions, the instance is always found.     *)
RetireVersions(t) ==
  /\ lc[t] = "retire" /\ todo[t] # {}
  /\ LET v == Lowest(todo[t])
     IN  /\ mstatus' = [mstatus EXCEPT ![mdl[t]][v] = "END"]
         /\ todo' = [todo EXCEPT ![t] = @ \ {v}]
  /\ lc' = [lc EXCEPT ![t] = "retireUpdate"]
  /\ UNCHANGED <<mdefault, current, lcOk, mdl, requested, toReload, toRetire,
                 fileVars, loaded, lifeVars, watcherVars>>

\* model->updateDefaultVersion() after unloadModel.
RetireUpdate(t) ==
  /\ lc[t] = "retireUpdate"
  /\ mdefault' = [mdefault EXCEPT ![mdl[t]] =
                    UpdateDefaultVersion(mstatus[mdl[t]], 0)]
  /\ lc' = [lc EXCEPT ![t] = "retire"]
  /\ UNCHANGED <<mstatus, current, lcOk, mdl, requested, todo, toReload,
                 toRetire, fileVars, loaded, lifeVars, watcherVars>>

\* Every step of thread t inside loadConfig.
LoadConfigStep(t) ==
  \/ LoadConfigFile(t) \/ ReloadModelWithVersions(t) \/ AddVersions(t)
  \/ ReloadVersions(t) \/ RetireVersions(t) \/ RetireUpdate(t) \/ LoopDone(t)

-----------------------------------------------------------------------------
(* ModelManager::start(file) is called: it runs loadConfig.               *)
Start ==
  /\ mainPc \in {"init", "started"} /\ startCalls < MaxStarts
  /\ lc["main"] = "idle"
  /\ lc' = [lc EXCEPT !["main"] = "file"]
  /\ startCalls' = startCalls + 1
  /\ mainPc' = "starting"
  /\ UNCHANGED <<modelVars, lcOk, mdl, requested, todo, toReload, toRetire,
                 fileVars, loaded, futureTaken, exitSet, watchers,
                 watcherVars>>

\* Mutant: the exit promise is re-armed before get_future, so a second
\* start(file) launches a second watcher.
StartedFreshPromise ==
  /\ mainPc = "starting" /\ lc["main"] = "idle"
  /\ \/ /\ ~lcOk["main"]
        /\ mainPc' = IF watchers = 0 THEN "init" ELSE "started"
        /\ UNCHANGED <<futureTaken, watchers, watcherVars>>
     \/ /\ lcOk["main"]
        /\ futureTaken' = TRUE
        /\ watchers' = watchers + 1
        /\ wpc' = "init"
        /\ mainPc' = "started"
        /\ UNCHANGED lastTime
  /\ UNCHANGED <<modelVars, threadVars, fileVars, loaded, startCalls, exitSet>>

(* start(file) after loadConfig: an error status is returned; otherwise,  *)
(* as the detached monitor is never joinable, exit.get_future() is called *)
(* and a watcher thread is created and detached.  get_future on a promise *)
(* whose future was already taken throws std::future_error out of start.  *)
Started ==
  /\ mainPc = "starting" /\ lc["main"] = "idle"
  /\ \/ /\ ~lcOk["main"]
        /\ mainPc' = IF watchers = 0 THEN "init" ELSE "started"
        /\ UNCHANGED <<futureTaken, watchers, watcherVars>>
     \/ /\ lcOk["main"] /\ futureTaken
        /\ mainPc' = "started"
        /\ UNCHANGED <<futureTaken, watchers, watcherVars>>
     \/ /\ lcOk["main"] /\ ~futureTaken
        /\ futureTaken' = TRUE
        /\ watchers' = watchers + 1
        /\ wpc' = "init"
        /\ mainPc' = "started"
        /\ UNCHANGED lastTime
  /\ UNCHANGED <<modelVars, threadVars, fileVars, loaded, startCalls, exitSet>>

(* ModelManager::join: exit.set_value(), then monitor.join() only if the  *)
(* monitor is joinable, which the detached thread never is.                *)
Join ==
  /\ mainPc = "started"
  /\ exitSet' = TRUE
  /\ mainPc' = "joined"
  /\ UNCHANGED <<modelVars, threadVars, fileVars, loaded, startCalls,
                 futureTaken, watchers, watcherVars>>

(* The watcher thread starts: stat of the config file, lastTime = ctime.  *)
WatcherBegin ==
  /\ wpc = "init"
  /\ lastTime' = cfgStamp
  /\ wpc' = "wait"
  /\ UNCHANGED <<modelVars, threadVars, fileVars, loaded, lifeVars>>

\* Mutant: the loop no longer looks at the exit signal.
WatcherPollForever ==
  /\ wpc = "wait"
  /\ wpc' = "stat"
  /\ UNCHANGED <<modelVars, threadVars, fileVars, loaded, lifeVars, lastTime>>

(* The loop condition: exit.wait_for(1 ms) is ready once join has set the *)
(* value, and the thread exits; otherwise it sleeps one second.            *)
WatcherPoll ==
  /\ wpc = "wait"
  /\ wpc' = IF exitSet THEN "exited" ELSE "stat"
  /\ UNCHANGED <<modelVars, threadVars, fileVars, loaded, lifeVars, lastTime>>

(* After the sleep: stat again; a ctime different from lastTime is        *)
(* recorded and loadConfig(configFilename) is run.                         *)
WatcherStat ==
  /\ wpc = "stat"
  /\ \/ /\ lastTime = cfgStamp
        /\ wpc' = "wait"
        /\ UNCHANGED <<lc, lastTime>>
     \/ /\ lastTime # cfgStamp
        /\ lastTime' = cfgStamp
        /\ lc' = [lc EXCEPT !["watcher"] = "file"]
        /\ wpc' = "load"
  /\ UNCHANGED <<modelVars, lcOk, mdl, requested, todo, toReload, toRetire,
                 fileVars, loaded, lifeVars>>

\* loadConfig returned to the watcher loop.
WatcherLoaded ==
  /\ wpc = "load" /\ lc["watcher"] = "idle"
  /\ wpc' = "wait"
  /\ UNCHANGED <<modelVars, threadVars, fileVars, loaded, lifeVars, lastTime>>

(* The operator rewrites the config file; its ctime is the current second. *)
ConfigWrite ==
  /\ cfgWrites < MaxWrites
  /\ cfgWrites' = cfgWrites + 1
  /\ cfgStamp' = now
  /\ UNCHANGED <<modelVars, threadVars, now, loaded, lifeVars, watcherVars>>

Tick ==
  /\ now < MaxTime
  /\ now' = now + 1
  /\ UNCHANGED <<modelVars, threadVars, cfgStamp, cfgWrites, loaded, lifeVars,
                 watcherVars>>

\* Every step of the watcher thread.
WatcherThread ==
  WatcherBegin \/ WatcherPoll \/ WatcherStat \/ WatcherLoaded
  \/ LoadConfigStep("watcher")

Next ==
  \/ Start \/ Started \/ Join \/ LoadConfigStep("main")
  \/ WatcherThread
  \/ ConfigWrite \/ Tick

Spec == Init /\ [][Next]_vars

(* The watcher is a thread of its own, so the scheduler keeps running it. *)
FairSpec == Spec /\ WF_vars(WatcherThread)

-----------------------------------------------------------------------------
(* Spec section 4.3, idempotent start: however often start(file) is       *)
(* called, at most one config watcher thread is ever created.              *)
AtMostOneWatcher == watchers <= 1

(* Spec section 4.3, bounded shutdown: once join() has set the exit       *)
(* signal, the watcher thread finishes the loadConfig it may be in and    *)
(* leaves its loop.                                                        *)
WatcherStopsAfterJoin == exitSet ~> wpc \in {"none", "exited"}

(* Spec section 7: shutdown waits for the watcher to finish the           *)
(* reconciliation it is applying, so that when join() returns no watcher  *)
(* thread still runs against the manager.                                  *)
JoinWaitsForWatcher == mainPc = "joined" => wpc \in {"none", "exited"}

(* Spec section 5: a single writer applies reconciliations, so the main   *)
(* thread's loadConfig and the watcher's never run at the same time.       *)
NoConcurrentLoadConfig == ~(\A t \in Threads : lc[t] # "idle")

(* Spec section 4.3: a change of the configuration file made while the    *)
(* watcher runs is eventually loaded (or the manager is shut down).        *)
ConfigChangeEventuallyLoaded ==
  \A k \in 1..MaxWrites :
    (cfgWrites >= k /\ wpc \in {"wait", "stat", "load"}) ~> (loaded >= k \/ exitSet)
=============================================================================
