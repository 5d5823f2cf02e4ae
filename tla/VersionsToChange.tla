-------------------------- MODULE VersionsToChange --------------------------
(***************************************************************************)
(* The version diff of the model manager: ModelManager::getVersionsToChange *)
(* (src/src/modelmanager.cpp).  Given the versions a Model has registered, *)
(* each with its ModelVersionStatus, and the versions requested by the     *)
(* version reader and policy, it computes the versions to start, to reload *)
(* and to retire.  The code works on sorted vectors with the std set       *)
(* algorithms; they compute set intersection and difference, so the       *)
(* operator below works on sets.                                           *)
(***************************************************************************)
EXTENDS Naturals, TLAPS

\* The states of ModelVersionStatus (spec section 3).
ModelVersionState == {"START", "LOADING", "AVAILABLE", "UNLOADING", "END"}

\* Marks a version that has no entry in Model::modelVersions.
Absent == "ABSENT"

\* ModelVersionStatus::willEndUnloaded: the version is not servable and has
\* to be loaded afresh rather than kept or retired.
WillEndUnloaded(state) == state \in {"END", "LOADING"}

\* The keys of the modelVersionsInstances map handed to the diff.
Registered(status) == {v \in DOMAIN status : status[v] # Absent}

\* Mutant: the reload filter forgets the willEndUnloaded test and reloads
\* every registered version that is requested again.
VersionsToChangeReloadAll(status, requested) ==
  LET registered == Registered(status)
  IN [toStart  |-> requested \ registered,
      toReload |-> requested \cap registered,
      toRetire |-> {v \in registered \ requested :
                      ~WillEndUnloaded(status[v])}]

\* getVersionsToChange: set_intersection(requested, registered) filtered by
\* willEndUnloaded gives the reloads, set_difference(registered, requested)
\* minus the remove_if(willEndUnloaded) gives the retirements, and
\* set_difference(requested, registered) the starts.
VersionsToChange(status, requested) ==
  LET registered == Registered(status)
  IN [toStart  |-> requested \ registered,
      toReload |-> {v \in requested \cap registered :
                      WillEndUnloaded(status[v])},
      toRetire |-> {v \in registered \ requested :
                      ~WillEndUnloaded(status[v])}]

-----------------------------------------------------------------------------
(***************************************************************************)
(* What the diff promises, for every registered map and every request:     *)
(* the three sets are pairwise disjoint, a start is never a registered     *)
(* version, a reload is a requested version that is END or LOADING, and a  *)
(* retirement is an unrequested version that is still START, AVAILABLE or  *)
(* UNLOADING.  The model of the reconciliation (module Model) rests on     *)
(* this to show that no version being served is reloaded.                  *)
(***************************************************************************)
THEOREM VersionsToChangeCorrect ==
  ASSUME NEW V, NEW status \in [V -> ModelVersionState \cup {Absent}],
         NEW requested \in SUBSET V
  PROVE  LET d == VersionsToChange(status, requested)
         IN  /\ d.toStart \cap d.toReload = {}
             /\ d.toStart \cap d.toRetire = {}
             /\ d.toReload \cap d.toRetire = {}
             /\ \A v \in d.toStart : v \in V /\ status[v] = Absent
             /\ \A v \in d.toReload : v \in requested
                                      /\ status[v] \in {"END", "LOADING"}
             /\ \A v \in d.toRetire :
                   v \in V \ requested
                   /\ status[v] \in {"START", "AVAILABLE", "UNLOADING"}
BY DEF VersionsToChange, Registered, WillEndUnloaded, ModelVersionState,
       Absent
=============================================================================
