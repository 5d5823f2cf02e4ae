------------------------------- MODULE Model -------------------------------
(***************************************************************************)
(* One Model (src/src/model.cpp): the map of its versions, each with a    *)
(* ModelVersionStatus, and its default version, driven by one             *)
(* reconciliation thread.  A reconciliation diffs the registered versions *)
(* against a requested set (VersionsToChange) and then calls              *)
(* Model::addVersions, Model::reloadVersions and Model::retireVersions in *)
(* that order (spec section 4.3).  The thread may also call               *)
(* Model::retireAllVersions.  Every load and unload is split into the     *)
(* step that starts it and the step that ends it, so that request threads *)
(* resolving the default version (getDefaultModelInstance) may observe    *)
(* the states in between; their view is the pair (defaultVersion, status). *)
(***************************************************************************)
EXTENDS Naturals, VersionsToChange, VersionOps

\* The phases of the reconciliation thread: the Model call it is inside.
Phases == {"idle", "start", "reload", "retire", "retireAll"}
ApplyCalls == Phases \ {"idle"}

VARIABLES
  status,          \* version -> ModelVersionStatus state, or Absent
  defaultVersion,  \* Model::defaultVersion
  phase,           \* the Model call the reconciliation thread is inside
  todo,            \* versions the current call has still to visit
  toReload,        \* the reload set of the diff, kept for the reload call
  toRetire,        \* the retire set of the diff, kept for the retire call
  cur,             \* the version whose load or unload is in progress, or 0
  notified         \* call -> notifySubscribers calls made by it so far

vars == <<status, defaultVersion, phase, todo, toReload, toRetire, cur,
          notified>>

-----------------------------------------------------------------------------
\* One more notifySubscribers call made by the current Model call.
Notify == notified' = [notified EXCEPT ![phase] = @ + 1]

Init ==
  /\ status = [v \in Versions |-> Absent]
  /\ defaultVersion = 0
  /\ phase = "idle"
  /\ todo = {}
  /\ toReload = {}
  /\ toRetire = {}
  /\ cur = 0
  /\ notified = [c \in ApplyCalls |-> 0]

-----------------------------------------------------------------------------
(* Reconciliation (spec 4.3): read the requested versions, diff them      *)
(* against the registered ones, and enter Model::addVersions.             *)
Reconcile ==
  /\ phase = "idle"
  /\ \E requested \in SUBSET Versions :
       LET d == VersionsToChange(status, requested)
       IN  /\ todo' = d.toStart
           /\ toReload' = d.toReload
           /\ toRetire' = d.toRetire
  /\ phase' = "start"
  /\ notified' = [c \in ApplyCalls |-> 0]
  /\ UNCHANGED <<status, defaultVersion, cur>>

(* Model::addVersions, one iteration: Model::addVersion emplaces a new    *)
(* instance for the version and calls its loadModel, which enters LOADING. *)
AddVersion ==
  /\ phase = "start" /\ cur = 0 /\ todo # {}
  /\ LET v == Lowest(todo)
     IN  /\ status' = [status EXCEPT ![v] = "LOADING"]
         /\ cur' = v
         /\ todo' = todo \ {v}
  /\ UNCHANGED <<defaultVersion, phase, toReload, toRetire, notified>>

(* loadModel succeeds: addVersion updates the default version and         *)
(* notifies the subscribers.                                               *)
AddVersionLoaded ==
  /\ phase = "start" /\ cur # 0
  /\ status' = [status EXCEPT ![cur] = "AVAILABLE"]
  /\ defaultVersion' = UpdateDefaultVersion(status', 0)
  /\ Notify
  /\ cur' = 0
  /\ UNCHANGED <<phase, todo, toReload, toRetire>>

(* loadModel fails: the version stays registered in END, addVersion       *)
(* returns the error before updateDefaultVersion, and addVersions records *)
(* the failure and goes on with the next version.                         *)
AddVersionFailed ==
  /\ phase = "start" /\ cur # 0
  /\ status' = [status EXCEPT ![cur] = "END"]
  /\ cur' = 0
  /\ UNCHANGED <<defaultVersion, phase, todo, toReload, toRetire, notified>>

(* Model::addVersions returns; the reconciliation calls reloadVersions.   *)
AddVersionsDone ==
  /\ phase = "start" /\ cur = 0 /\ todo = {}
  /\ phase' = "reload"
  /\ todo' = toReload
  /\ UNCHANGED <<status, defaultVersion, toReload, toRetire, cur, notified>>

(* Model::reloadVersions, one iteration: the instance is found and its    *)
(* reloadModel unloads it and starts loading it again in place.           *)
ReloadVersion ==
  /\ phase = "reload" /\ cur = 0 /\ todo # {}
  /\ LET v == Lowest(todo)
     IN  /\ status' = [status EXCEPT ![v] = "LOADING"]
         /\ cur' = v
         /\ todo' = todo \ {v}
  /\ UNCHANGED <<defaultVersion, phase, toReload, toRetire, notified>>

\* Mutant: the reload forgets updateDefaultVersion after a successful load.
ReloadVersionLoadedNoUpdate ==
  /\ phase = "reload" /\ cur # 0
  /\ status' = [status EXCEPT ![cur] = "AVAILABLE"]
  /\ cur' = 0
  /\ UNCHANGED <<defaultVersion, phase, todo, toReload, toRetire, notified>>

(* reloadModel succeeds: updateDefaultVersion.                             *)
ReloadVersionLoaded ==
  /\ phase = "reload" /\ cur # 0
  /\ status' = [status EXCEPT ![cur] = "AVAILABLE"]
  /\ defaultVersion' = UpdateDefaultVersion(status', 0)
  /\ cur' = 0
  /\ UNCHANGED <<phase, todo, toReload, toRetire, notified>>

(* reloadModel fails: the version is left in END and the loop continues   *)
(* without updating the default version.                                   *)
ReloadVersionFailed ==
  /\ phase = "reload" /\ cur # 0
  /\ status' = [status EXCEPT ![cur] = "END"]
  /\ cur' = 0
  /\ UNCHANGED <<defaultVersion, phase, todo, toReload, toRetire, notified>>

(* Model::reloadVersions notifies the subscribers once and returns; the   *)
(* reconciliation calls retireVersions.                                    *)
ReloadVersionsDone ==
  /\ phase = "reload" /\ cur = 0 /\ todo = {}
  /\ Notify
  /\ phase' = "retire"
  /\ todo' = toRetire
  /\ UNCHANGED <<status, defaultVersion, toReload, toRetire, cur>>

\* Mutant: retireVersions starts retireModel before updateDefaultVersion.
RetireVersionLateDefault ==
  /\ phase = "retire" /\ cur = 0 /\ todo # {}
  /\ LET v == Lowest(todo)
     IN  /\ status' = [status EXCEPT ![v] = "UNLOADING"]
         /\ cur' = v
         /\ todo' = todo \ {v}
  /\ UNCHANGED <<defaultVersion, phase, toReload, toRetire, notified>>

(* Model::retireVersions, one iteration: updateDefaultVersion(version)    *)
(* moves the default off the version, then retireModel starts unloading.  *)
RetireVersion ==
  /\ phase = "retire" /\ cur = 0 /\ todo # {}
  /\ LET v == Lowest(todo)
     IN  /\ defaultVersion' = UpdateDefaultVersion(status, v)
         /\ status' = [status EXCEPT ![v] = "UNLOADING"]
         /\ cur' = v
         /\ todo' = todo \ {v}
  /\ UNCHANGED <<phase, toReload, toRetire, notified>>

(* retireModel finishes: the version is END.                               *)
RetireVersionUnloaded ==
  /\ phase = "retire" /\ cur # 0
  /\ status' = [status EXCEPT ![cur] = "END"]
  /\ cur' = 0
  /\ UNCHANGED <<defaultVersion, phase, todo, toReload, toRetire, notified>>

(* Model::retireVersions notifies once and returns: reconciliation done.  *)
RetireVersionsDone ==
  /\ phase = "retire" /\ cur = 0 /\ todo = {}
  /\ Notify
  /\ phase' = "idle"
  /\ UNCHANGED <<status, defaultVersion, todo, toReload, toRetire, cur>>

(* Model::retireAllVersions: the loop over every entry of modelVersions.  *)
RetireAllVersionsBegin ==
  /\ phase = "idle"
  /\ phase' = "retireAll"
  /\ todo' = Registered(status)
  /\ notified' = [c \in ApplyCalls |-> 0]
  /\ UNCHANGED <<status, defaultVersion, toReload, toRetire, cur>>

(* One iteration: retireModel starts unloading the version.               *)
RetireAllVersion ==
  /\ phase = "retireAll" /\ cur = 0 /\ todo # {}
  /\ LET v == Lowest(todo)
     IN  /\ status' = [status EXCEPT ![v] = "UNLOADING"]
         /\ cur' = v
         /\ todo' = todo \ {v}
  /\ UNCHANGED <<defaultVersion, phase, toReload, toRetire, notified>>

(* retireModel finishes, then updateDefaultVersion().                      *)
RetireAllVersionUnloaded ==
  /\ phase = "retireAll" /\ cur # 0
  /\ status' = [status EXCEPT ![cur] = "END"]
  /\ defaultVersion' = UpdateDefaultVersion(status', 0)
  /\ cur' = 0
  /\ UNCHANGED <<phase, todo, toReload, toRetire, notified>>

(* retireAllVersions notifies once and returns.                            *)
RetireAllVersionsDone ==
  /\ phase = "retireAll" /\ cur = 0 /\ todo = {}
  /\ Notify
  /\ phase' = "idle"
  /\ UNCHANGED <<status, defaultVersion, todo, toReload, toRetire, cur>>

Next ==
  \/ Reconcile
  \/ AddVersion \/ AddVersionLoaded \/ AddVersionFailed \/ AddVersionsDone
  \/ ReloadVersion \/ ReloadVersionLoaded \/ ReloadVersionFailed
  \/ ReloadVersionsDone
  \/ RetireVersion \/ RetireVersionUnloaded \/ RetireVersionsDone
  \/ RetireAllVersionsBegin \/ RetireAllVersion \/ RetireAllVersionUnloaded
  \/ RetireAllVersionsDone

Spec == Init /\ [][Next]_vars

-----------------------------------------------------------------------------
TypeOK ==
  /\ status \in [Versions -> ModelVersionState \cup {Absent}]
  /\ defaultVersion \in 0..MaxVersion
  /\ phase \in Phases
  /\ todo \in SUBSET Versions
  /\ toReload \in SUBSET Versions
  /\ toRetire \in SUBSET Versions
  /\ cur \in 0..MaxVersion
  /\ notified \in [ApplyCalls -> Nat]

(* Spec section 3: the default version, when there is one, is AVAILABLE,  *)
(* so a request resolving it through getDefaultModelInstance never gets a *)
(* version that is loading or being unloaded.                              *)
DefaultIsAvailable ==
  defaultVersion # 0 => status[defaultVersion] = "AVAILABLE"

(* The same guarantee for every state outside Model::retireAllVersions:   *)
(* starting, reloading and retiring versions during reconciliation never  *)
(* leave the default on a version that is not AVAILABLE.  It rests on     *)
(* retireVersions moving the default off a version before retireModel and *)
(* on the diff never reloading an AVAILABLE version.                       *)
DefaultAvailableDuringReconcile ==
  phase # "retireAll" => DefaultIsAvailable

(* Spec section 3: whenever no Model call is in progress, the default     *)
(* version is the highest AVAILABLE version, whatever sequence of starts, *)
(* failed loads, reloads and retirements led there.                        *)
DefaultIsHighestWhenIdle ==
  phase = "idle" => defaultVersion = UpdateDefaultVersion(status, 0)

(* Spec section 4.3: start comes before retire so that a consumer never   *)
(* sees the default fall back during a rollover.  No step of              *)
(* Model::addVersions or Model::reloadVersions lowers the default version *)
(* or drops it to 0, whichever loads fail: a load only adds an AVAILABLE  *)
(* version before updateDefaultVersion, and the diff never reloads one.   *)
DefaultNeverLowerWhileStarting ==
  [][(phase \in {"start", "reload"}) => defaultVersion' >= defaultVersion]_vars

(* Spec section 4.2: each apply call (start, reload, retire) notifies the *)
(* subscribers exactly once, not once per version.                         *)
NotifiedOncePerApply ==
  [][(phase \in ApplyCalls /\ phase' # phase) => (notified'[phase] = 1)]_vars
=============================================================================
