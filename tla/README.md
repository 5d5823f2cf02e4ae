# TLA+ models of the model server's version lifecycle

This directory holds TLA+ specifications of the C++ sources under `src/src/`.
It also holds the TLC configurations that model-check them and the TLAPS proofs
about them. `PROJECT.json` lists:
- the components, with their modelling status;
- the runs;
- the mutants that show each checked property can fail;
- the map from each TLA+ definition to the source lines it models;
- the findings;
- the hazards of the code;
- the theorems.

## The system

The sources are a snapshot of several parts of the server.

| Part | Source | What it does |
|---|---|---|
| VersionReconciler | `modelmanager.cpp`, `ModelManager::getVersionsToChange` | Diffs a model's registered versions against the requested ones. The result is three sets: versions to start, to reload and to retire. |
| ModelAggregate | `model.cpp`, `Model` | Owns the map from version to `ModelInstance`, with its status (`START, LOADING, AVAILABLE, UNLOADING, END`), and the default version. `addVersion(s)`, `reloadVersions`, `retireVersions`, `cleanupFailedLoad`, `retireAllVersions` and `cleanupAllVersions` change the versions. `updateDefaultVersion(ignored)` resets the default to the highest AVAILABLE version other than `ignored`. Subscribers (pipelines) are notified after changes. |
| ModelRegistry | `modelmanager.cpp`, `ModelManager` | `start` loads the config and launches a detached watcher thread. The watcher polls the config file and re-runs `loadConfig`. `loadConfig` clears the models map and calls `reloadModelWithVersions` for every configured model. `reloadModelWithVersions` reads the requested versions, diffs them, then starts, reloads and retires, returning at the first error. |
| PipelineNode / NodeSession | `node.cpp`, `nodesession.cpp` | `setInputs` copies a dependency's outputs into the node's inputs and into a node session, then counts a finished dependency. |
| ExtensionLibraryRegistry | `dags/custom_node_library_manager.cpp` | Loads custom node libraries by name and base path (`dlopen`/`dlsym`), looks them up, and unloads the ones removed from the config. |
| IdleResourceSweeper | `cleaner_utils.cpp` | Functors that forward to the sequence manager and to the resource cleaner. |

These parts interact in one chain:
1. The watcher thread drives the registry.
2. The registry drives each Model through the diff.
3. A Model's default version is what request threads resolve with `getDefaultModelInstance`, concurrently with the reconciliation.

The property that matters most is that this default is never a version that is loading or being unloaded.

## Modules

### `VersionsToChange`

This module models `getVersionsToChange`.
- The code works on sorted vectors with `std::set_intersection`, `std::set_difference` and `std::remove_if`. The operator works on sets, which is what those algorithms compute.
- A version's status is one of the five states. `Absent` stands for "no entry in the map".
- `WillEndUnloaded` is `{END, LOADING}`, from spec §3. The header that defines it is not under `src/`, so it is spec-modelled.

The theorem `VersionsToChangeCorrect` states what the diff promises, for every input:
- the three sets are pairwise disjoint;
- starts are unregistered versions;
- reloads are requested versions in END or LOADING;
- retirements are unrequested versions in START, AVAILABLE or UNLOADING.

### `Model`

This module models one `Model`, driven by one reconciliation thread.

**State.**
- `status` maps each version to its state, or to `Absent`.
- `defaultVersion` is the default version; 0 means none.
- `phase` is the Model call in progress: `idle`, `start`, `reload`, `retire` or `retireAll`.
- `todo` holds the versions that call still has to visit.
- `toReload` and `toRetire` keep the rest of the diff for the later calls.
- `cur` is the version whose load or unload is in flight.
- `notified` counts the `notifySubscribers` calls of each call.

**Actions.**
- `Reconcile` models the part of `reloadModelWithVersions` that reads the requested versions (any subset) and computes the diff.
- Each loop iteration of `Model::addVersions`, `reloadVersions`, `retireVersions` and `retireAllVersions` is two actions:
  - the step that starts a load or unload: `AddVersion`, `ReloadVersion`, `RetireVersion`, `RetireAllVersion`;
  - the step that ends it, with the code that follows it: `AddVersionLoaded` or `AddVersionFailed`, `ReloadVersionLoaded` or `ReloadVersionFailed`, `RetireVersionUnloaded`, `RetireAllVersionUnloaded`.
- The split matters because `loadModel` and `retireModel` run outside the map lock. Between the two steps, readers of the default see the version LOADING or UNLOADING.
- `...Done` actions model each loop's end and its single `notifySubscribers`.
- Loops visit versions in ascending order (`Lowest`), as the sorted vectors do.

**Which driver this is.** The three calls are made in the order of spec §4.3, start then reload then retire, and each call goes on after a failed version, as `model.cpp` does. The driver in `modelmanager.cpp` uses its own early-returning loops instead. That driver is modelled in `ModelManager`.

**Left out.** `downloadModels`, `cleanupModelTmpFiles` and the model mapping are file I/O.

### `VersionOps`

The version numbers `1..MaxVersion` and two helpers every loop uses. `Lowest` is the ascending order of the sorted version vectors. `UpdateDefaultVersion` is `Model::updateDefaultVersion`. `Model` and `ModelManager` both extend this module.

### `ModelManager`

This module models `modelmanager.cpp` serving one configured model. Two threads run it: `main` and `watcher`.

**State.**
- The models map is `current`: the Model in the map, or 0. A Model object is a slot with its own `mstatus` and `mdefault`. Two slots are enough: one in the map and one still held through a `shared_ptr` by the other thread.
- `lc[t]` says where thread `t` is inside `loadConfig`/`reloadModelWithVersions`. Its locals are `mdl[t]` (the Model it holds), `requested[t]`, `todo[t]`, `toReload[t]` and `toRetire[t]`.
- `mainPc`, `startCalls`, `futureTaken`, `exitSet` and `watchers` model `start`, `join` and the exit promise.
- `wpc` and `lastTime` are the watcher loop and its recorded `st_ctime`.
- `cfgStamp` and `cfgWrites` are the config file's ctime in whole seconds and the number of writes. `now` is the clock. `loaded` is the last write that a `loadConfig` read.

**Actions.**
- `LoadConfigFile`: the file checks, which may fail, then `models.clear()`.
- `ReloadModelWithVersions`: `readAvailableVersions`, which may fail, then `getModelIfExistCreateElse` and the diff.
- The manager's loops:
  - `AddVersions` (`addVersion`, a no-op emplace when the version is already there);
  - `ReloadVersions`;
  - `RetireVersions`, which is `unloadModel`, then `RetireUpdate`, which is `updateDefaultVersion`.

  Each loop returns at the first failure; `ReturnFrom` drops the thread's Model.
- `LoopDone` passes from one stage to the next.
- `Start` and `Started` model `start(file)`. `Started` calls `get_future`, which throws on a second call, then creates the detached watcher.
- `Join` models `join`: it sets the exit value and never joins.
- `WatcherBegin`, `WatcherPoll`, `WatcherStat` and `WatcherLoaded` are the watcher loop.
- `ConfigWrite` and `Tick` are the environment.

The "not found" returns of the manager's `reloadVersions`/`retireVersions` are not modelled as branches. The diff only names versions in the map, and nothing erases an entry of a Model a thread holds, so those returns cannot be taken.

### `LibraryRegistry`

The registry that spec §4.5 describes: a table from name to path. `Load` registers a name at a valid path. `Unload` drops the names that are no longer configured. The constant `RebindAllowed` says whether a registered name may be loaded at another path.

### `CustomNodeLibraryManager`

This module models `dags/custom_node_library_manager.cpp`.
- `libraries` is the map from name to base path. `handles` counts the `dlopen` calls of each path that no `dlclose` has matched. `lastStatus` is the status returned by the last call.
- `LoadLibrary` has four branches: the escape check, the relative-path check, "already loaded" (only for the same path), then `Opened`. `Opened` is `dlopen` and the six `dlsym` lookups. A failure closes the handle; success writes the entry and keeps the handle.
- `GetLibrary` is a lookup. `UnloadLibrariesRemovedFromConfig` erases entries without closing anything.
- The `_WIN32` branch has the same exits and is not mapped separately.
- Two instances of the registry are defined: `Registry` (rebinding allowed) and `StrictRegistry` (rebinding not allowed).

### `Node`

This module models one pipeline node: `node.cpp`, `node.hpp` and `nodesession.cpp`.
- `Mapping` is the `blobNamesMapping` that `addDependency` built. `MappingByDependency` is its lookup.
- `DependencyFinished` is spec-modelled: the pipeline calls `setInputs` once per dependency and session, with any subset of outputs.
- `SetInputs` walks the mapping in order. It stops with `INVALID_MISSING_INPUT` at the first missing output, after storing the earlier inputs. Every input goes to the session that `GetNodeSession` finds or creates for a default `NodeSessionMetadata`. Only a complete walk increments the node-wide `finishedDependenciesCount`.
- `FetchResults` dereferences before it checks. For an unknown key this is undefined, and the outcome is a nondeterministic choice of `UNKNOWN_ERROR` or an invalid read.
- A blob is the pair (session, dependency) that produced it.
- Two assumptions on the constants: `FinitenessAssumption` (`previous` is a vector, and a pipeline serves finitely many sessions) and `NoBlobAssumption` (an input with no blob is told apart from every blob).

### `ModelProofs`, `CustomNodeLibraryManagerProofs`, `ModelManagerProofs`, `NodeProofs`, `NatFacts`

The proofs about each component, and `NatFacts`, the least and greatest elements of sets of naturals that the `CHOOSE`s of the loops rest on; see "What is proved".

### MC modules

- `MC_Model` fixes `MaxVersion = 3`.
- `MC_ModelManager` defines the bounds: `MaxVersion` 1, one or two `start` calls, one config write and one second of time.
- `MC_CustomNodeLibraryManager` has two names, two paths and a handle bound of 3. The escaped and relative paths are model values.
- `MC_Node` has three dependencies with mappings of 2, 1 and 2 pairs over five inputs, and one or two sessions.

## Runs

| Run | cfg | Expect | What it shows |
|---|---|---|---|
| `model_reconcile` | `MC_Model.cfg` | pass | Any sequence of reconciliations with any requested sets, with loads and reloads that succeed or fail, interleaved with `retireAllVersions`, keeps two properties (2755 distinct states, depth 29). `DefaultAvailableDuringReconcile`: the default is AVAILABLE except inside `retireAllVersions`. `DefaultIsHighestWhenIdle`: between calls, the default is the highest AVAILABLE version. The action property `DefaultNeverLowerWhileStarting`: no step of `addVersions` or `reloadVersions` lowers the default or drops it to 0 (spec §4.3, start before retire). |
| `model_shutdown_default` | `MC_Model_shutdown.cfg` | violation | `DefaultIsAvailable` fails. `retireAllVersions` calls `retireModel` before `updateDefaultVersion` (`model.cpp:230-231`), so the default is UNLOADING while it unloads. `retireVersions` does the two in the safe order (line 187). |
| `model_notify_batch` | `MC_Model_notify.cfg` | violation | `NotifiedOncePerApply` fails. `addVersions` notifies once per successful `addVersion` (line 140): zero times for an empty or all-failed batch, several times for a batch of several versions. Spec §4.2 asks for exactly once per call. |
| `lib_registry` | `MC_CustomNodeLibraryManager.cfg` | pass | 553 distinct states. `MappedCodeStaysLoaded`: every path has at least as many open handles as names registered at it. `RegistryRefinement`: the manager implements `LibraryRegistry` with rebinding allowed. |
| `lib_rebind` | `MC_CustomNodeLibraryManager_rebind.cfg` | violation | `NoRebindRefinement` fails. A load at another path rebinds the name (line 43), which spec §4.5 forbids. |
| `node_routing` | `MC_Node.cfg` | pass | 184 distinct states. With one session, the node is ready only when every mapped input is set, for every completion order and every set of produced outputs. |
| `node_sessions` | `MC_Node_sessions.cfg` | violation | With two sessions, the node-wide counter (line 80) makes the node ready with inputs missing. |
| `node_partial` | `MC_Node_partial.cfg` | violation | `INVALID_MISSING_INPUT` is returned after earlier inputs were stored (lines 68, 75). |
| `manager_lifecycle` | `MC_ModelManager.cfg` | pass | 3721 distinct states. Two `start(file)` calls race the watcher; file checks, version reads and loads fail or succeed. `AtMostOneWatcher` holds. Under weak fairness of the watcher, `WatcherStopsAfterJoin` holds. The race also reaches the manager's reload and retire loops. |
| `manager_join` | `MC_ModelManager_join.cfg` | violation | `join` returns while the detached watcher still runs (line 137). |
| `manager_concurrent` | `MC_ModelManager_concurrent.cfg` | violation | A second `start(file)` runs `loadConfig` alongside the watcher's (line 68). |
| `manager_missed` | `MC_ModelManager_missed.cfg` | violation | A config write made between `start`'s `loadConfig` and the watcher's first `stat` is never loaded (line 121). The one-second `st_ctime` resolution (line 126) loses same-second writes in the same way. |

**Bounds.** Three versions are enough for:
- a version below and a version above the default;
- a reload of a failed version that becomes the new highest;
- retirement of the default while another version is AVAILABLE.

Every subset of the versions can be requested in each reconciliation, so every diff of every reachable map is explored.

Four more disagreements are modelled and recorded as hazards, without a run of their own, because a reading of the code shows them directly:
- the manager's `addVersions` returns at the first failed version (line 220);
- `models.clear()` removes a served model on every reload (line 106);
- unloads and rebindings never call `dlclose` (`custom_node_library_manager.cpp:216`);
- `fetchResults` dereferences before it tests `end()` (`node.cpp:33`).

The other bounds:
- **Library registry.** Two names and two paths give a name moved between paths, two names sharing a path, and an unload of either. A handle bound of 3 leaves room for every load to succeed more than once.
- **Node.** Three dependencies with mappings of different lengths give every position of a missing output. Two sessions are the fewest that can mix.
- **Manager.** One write and one second of clock are enough for a write before, between and after each `stat`. Two starts are the fewest that race.

**Mutants.** Each property of a passing run is shown to catch a plausible bug:

| Property | Mutant |
|---|---|
| `DefaultAvailableDuringReconcile` | `RetireVersionLateDefault`: `retireModel` runs before `updateDefaultVersion` |
| `DefaultIsHighestWhenIdle` | `ReloadVersionLoadedNoUpdate`: the update after a successful reload is dropped |
| `DefaultNeverLowerWhileStarting` | `UpdateDefaultVersionFirstFound`: `updateDefaultVersion` stops at the first AVAILABLE version |
| `TypeOK` (Model) | `LowestOffByOne`: the loop starts one element late |
| `TypeOK` (library) | `OpenedCloseOnOpenFailure`: `dlclose` on a handle `dlopen` never returned |
| `MappedCodeStaysLoaded` | `LoadLibraryRegisterBeforeSyms`: the entry is written before the last `dlsym` is checked |
| `RegistryRefinement` | `LoadLibraryNoEscapeCheck`: the `isPathEscaped` check is dropped |
| `TypeOK` (node) | `SetInputsDecrement`: the counter counts down |
| `ReadyImpliesInputs` | `SetInputsCountOnMissing`: a missing output is skipped and the dependency is counted |
| `AtMostOneWatcher` | `StartedFreshPromise`: the promise is re-armed, so `get_future` does not throw |
| `WatcherStopsAfterJoin` | `WatcherPollForever`: the loop ignores the exit signal |

## Fairness

Safety is checked against `Spec == Init /\ [][Next]_vars`, with no fairness.

The two liveness properties of `ModelManager` use `FairSpec == Spec /\ WF_vars(WatcherThread)`. That is weak fairness of the watcher thread's steps, its `loadConfig` steps included. The watcher is an OS thread of its own that never blocks except in `wait_for` and `sleep_for`, so a step that stays enabled is eventually scheduled. No fairness is assumed for:
- the main thread, which may never call `join`;
- the operator, who may never write the file;
- the clock, which is bounded.

The manager runs set `CHECK_DEADLOCK FALSE`. The model stops for real when the process has joined and the watcher has exited, or when every `start` call has failed.

## What is proved (TLAPS)

- **`VersionsToChangeCorrect`** (`VersionsToChange`). The diff's contract, for every input, by expanding the definitions.
- **`TypeCorrect`** (`ModelProofs`): `Spec => []TypeOK` for every `MaxVersion \in Nat \ {0}` (assumption `MaxVersionAssumption`). It rests on these lemmas:
  - `NatSetHasLeast` (`NatFacts`): a nonempty set of naturals has a least element. It is proved from the well-foundedness of `<` on `Nat` (`WellFoundedInduction`).
  - `BoundedNatSetHasGreatest` (`NatFacts`): its mirror image, for a greatest element.
  - `LowestIsLeast` and `UpdateDefaultVersionSpec`: what the two `CHOOSE`s return.
- **`DefaultAvailableInvariant`**: `Spec => []DefaultAvailableDuringReconcile` for every `MaxVersion`. The property is not inductive by itself: a step of a load or retirement keeps the default AVAILABLE only because of which version the step touches. The inductive invariant `IInv` adds three facts:
  - `CurInv`: the version in flight is LOADING during start and reload and UNLOADING during the retire calls, and is no longer in `todo`. So the default is never the version in flight.
  - `DiffInv`: during start, the versions still to start are unregistered and the versions kept for the reload are END or LOADING; during reload, the versions still to reload are END or LOADING. This is the diff's contract, carried through the calls, so a reload never touches the default.
  - `DefaultInv`: the default is AVAILABLE unless `retireAllVersions` has a version in flight. `RetireAllVersionUnloaded` restores it with `updateDefaultVersion`.

  `IInv` was checked with TLC on the `MC_Model` instance before it was proved. The proof has one step per action:
  - steps that recompute the default use `UpdateDefaultVersionSpec`;
  - steps that change one version's status use the lemma `DefaultKept`.

- **`DefaultHighestInvariant`** (`ModelProofs`): `Spec => []DefaultIsHighestWhenIdle` for every `MaxVersion`. The property speaks only of idle states, so it is strengthened to `HighestInv`: the default equals `UpdateDefaultVersion(status, 0)` in every state, except while `retireAllVersions` has a version in flight. That call starts `retireModel` before it recomputes the default. `HighestInv` was checked with TLC on `MC_Model` first. It is proved together with `IInv`, which supplies the facts a step needs:
  - the version `addVersion` starts is unregistered, and the one `reloadVersions` starts is END or LOADING (`DiffInv`);
  - a failed load or a finished unload ends a LOADING or UNLOADING version (`CurInv`).

  Each such step moves one version between two states that are not AVAILABLE, and the lemma `NonAvailableChange` shows that `updateDefaultVersion()` does not change. For `retireVersions`, `IgnoredThenUnloading` shows that `updateDefaultVersion(version)` before `retireModel` equals `updateDefaultVersion()` once the version is UNLOADING. Both rest on `SameCandidatesSameDefault`.
- **`DefaultNeverLowers`** (`ModelProofs`): `Spec => DefaultNeverLowerWhileStarting`, an action property, for every `MaxVersion`. In the start and reload calls the default changes only after a successful load. By `HighestInv` it was `updateDefaultVersion()` of the map before the load. The lemma `LoadRaisesDefault` (from `UpdateDefaultVersionIsMax`) shows that one more AVAILABLE version cannot lower the maximum.
- **`RegistryRefines`** (`CustomNodeLibraryManagerProofs`): `Spec => Registry!Spec` for all constants. There is one case per action:
  - a successful `Opened` step is a `Registry!Load` at a path of `Paths`;
  - the unload is `Registry!Unload`;
  - every other branch leaves `libraries` unchanged.

  No invariant is needed: the path checks come before the registration in the same step.
- **`CodeStaysMapped`** (`CustomNodeLibraryManagerProofs`): `Spec => []MappedCodeStaysLoaded`. It assumes `NamesAssumption` (finitely many names, `NoLib` not a path) and `MaxHandlesAssumption`. The inductive invariant is `TypeOK /\ MappedCodeStaysLoaded`. There are three lemmas:
  - `TableUnchanged`: early returns and lookups.
  - `TableShrinks`: the unload, where each `BoundTo(q)` can only shrink (`FS_Subset`).
  - `TableGrows`: a successful load adds one handle to the path that gains one name, so `SubsetOfOneMore` gives at most one more; every other path only loses the name.
- **`LibTypeCorrect`** (`CustomNodeLibraryManagerProofs`): `Spec => []TypeOK`, from the same inductive invariant (lemmas `HInvInit` and `HInvStep`).
- **`NodeTypeCorrect`** (`NodeProofs`): `Spec => []TypeOK` for all finite `Deps` and `Sessions` and every mapping. The bound on `finishedDependenciesCount` needs the inductive invariant `NInv`, which has two parts besides the type:
  - the counter equals `Cardinality(completed)`, because `setInputs` increments it only for a (dependency, session) pair that finished for the first time and whose loop ran to its end;
  - `CompletedInputsStored`: every input mapped from a completed pair holds a blob. A later call overwrites an input only with another blob (`StoreKeepsBlobs`).

  `NInv` was checked with TLC on one and on two sessions before it was proved. `FirstMissingOk` (from `NatSetHasLeast`) shows that a loop that ran to its end stored the input of every pair of the mapping.
- **`ReadyWithOneSession`** (`NodeProofs`): `ASSUME Sessions = {s0} PROVE Spec => []ReadyImpliesInputs`. With one session, `completed` is a subset of `Deps \X {s0}`, which has `Cardinality(Deps)` elements (`FS_Product`). So a counter equal to `Cardinality(Deps)` means every dependency completed (`FS_Subset`), and `CompletedInputsStored` gives every required input. The hypothesis is needed: with two sessions the property is false (run `node_sessions`).
- **`OneWatcher`** (`ModelManagerProofs`): `Spec => []AtMostOneWatcher` for all bounds. The inductive invariant `watchers = IF futureTaken THEN 1 ELSE 0` is needed because a second `Started` would break the bare bound. The invariant shows that `Started` creates a thread only when the future was not taken yet. The lemma `LoadConfigKeepsLife` shows that no `loadConfig` step touches the lifecycle.

**Only model-checked.** Every safety property and action property of a passing run is now proved. What stays with TLC:
- the liveness property `WatcherStopsAfterJoin`;
- `ReadyImpliesInputs` for more than one session, where it is false;
- the violated properties of the violation runs.

The provers in this setup cannot do three kinds of proof, which stay with TLC:
- liveness under fairness, and `ENABLED`;
- induction over data through the library's operator-parameter theorems;
- modules that declare `RECURSIVE` operators.

## Not modelled yet, and the plan

1. **`start()` from the command line** (`modelmanager.cpp:37-65`). It parses one model config and calls `reloadModelWithVersions` once on an empty manager.
2. **Request threads** that read the `models` map concurrently with `loadConfig`. The race is on `std::map` itself.
3. **`Model`, remaining operations**: `cleanupFailedLoad`, `cleanupAllVersions` and concurrent readers.
4. **`IdleResourceSweeper`** (`cleaner_utils.cpp`). Its functors forward to a sequence manager and a resource cleaner that are not under `src/`.
5. **Spec gap.** Spec §4.1 says the three sets "partition the union of registered and desired". A requested AVAILABLE version is in none of them.
6. **More proofs.** Every safety and action property of a passing run is proved. Next candidates are a refinement of `Model` to an abstract aggregate, whose default and statuses change atomically, and invariants of `ModelManager` beyond `AtMostOneWatcher`.
