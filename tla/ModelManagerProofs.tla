------------------------- MODULE ModelManagerProofs -------------------------
(***************************************************************************)
(* Proofs about ModelManager, for every bound on the start calls, config  *)
(* writes, time and versions.                                              *)
(***************************************************************************)
EXTENDS ModelManager, TLAPS

(* The inductive invariant: a watcher thread exists exactly when the exit *)
(* promise's future has been taken.                                        *)
WInv == watchers = IF futureTaken THEN 1 ELSE 0

\* Every step of a thread inside loadConfig leaves the lifecycle alone.
LEMMA LoadConfigKeepsLife ==
  ASSUME NEW t, LoadConfigStep(t)
  PROVE  UNCHANGED <<watchers, futureTaken>>
BY DEF LoadConfigStep, LoadConfigFile, ReloadModelWithVersions, AddVersions,
       ReloadVersions, RetireVersions, RetireUpdate, LoopDone, lifeVars

(* Idempotent start: a second start(file) never creates a second watcher, *)
(* because exit.get_future() throws on the already taken future before    *)
(* the thread is created, whatever the ordering of the start calls, the   *)
(* watcher's reloads and join.                                             *)
THEOREM OneWatcher == Spec => []AtMostOneWatcher
<1>1. Init => WInv
  BY DEF Init, WInv
<1>2. WInv /\ [Next]_vars => WInv'
  <2> SUFFICES ASSUME WInv, [Next]_vars PROVE WInv'
    OBVIOUS
  <2>1. CASE Started
    BY <2>1 DEF Started, WInv
  <2>2. CASE LoadConfigStep("main") \/ LoadConfigStep("watcher")
    BY <2>2, LoadConfigKeepsLife DEF WInv
  <2>3. CASE Start \/ Join \/ WatcherBegin \/ WatcherPoll \/ WatcherStat
             \/ WatcherLoaded \/ ConfigWrite \/ Tick
    BY <2>3 DEF Start, Join, WatcherBegin, WatcherPoll, WatcherStat,
       WatcherLoaded, ConfigWrite, Tick, lifeVars, WInv
  <2>4. CASE UNCHANGED vars
    BY <2>4 DEF vars, WInv
  <2>5. QED
    BY <2>1, <2>2, <2>3, <2>4 DEF Next, WatcherThread
<1>3. WInv => AtMostOneWatcher
  BY DEF WInv, AtMostOneWatcher
<1>4. QED
  BY <1>1, <1>2, <1>3, PTL DEF Spec
=============================================================================
