---------------------------- MODULE ModelProofs ----------------------------
(***************************************************************************)
(* Proofs about the Model module: type correctness, and that outside      *)
(* Model::retireAllVersions the default version is always AVAILABLE, for  *)
(* every number of versions.                                               *)
(***************************************************************************)
EXTENDS Model, NatFacts, TLAPS

-----------------------------------------------------------------------------
(* Lowest picks the least element of a nonempty set of versions.          *)
LEMMA LowestIsLeast ==
  ASSUME NEW S \in SUBSET Versions, S # {}
  PROVE  /\ Lowest(S) \in S
         /\ \A w \in S : Lowest(S) <= w
<1>1. S \in SUBSET Nat
  BY DEF Versions
<1>2. \E m \in S : \A w \in S : m <= w
  BY <1>1, NatSetHasLeast
<1>3. QED
  BY <1>2 DEF Lowest

(* What updateDefaultVersion returns: 0, or an AVAILABLE version other    *)
(* than the ignored one.                                                   *)
LEMMA UpdateDefaultVersionSpec ==
  ASSUME NEW st, NEW ignored
  PROVE  LET d == UpdateDefaultVersion(st, ignored)
         IN  /\ d \in 0..MaxVersion
             /\ d # 0 => st[d] = "AVAILABLE" /\ d # ignored
<1> DEFINE avail == {v \in Versions : v # ignored /\ st[v] = "AVAILABLE"}
           d == UpdateDefaultVersion(st, ignored)
<1>1. d = IF avail = {} THEN 0
          ELSE CHOOSE v \in avail : \A w \in avail : w <= v
  BY DEF UpdateDefaultVersion
<1>2. CASE avail = {}
  <2>1. d = 0
    BY <1>1, <1>2
  <2>2. QED
    BY <2>1, MaxVersionAssumption
<1>3. CASE avail # {}
  <2>1. avail \in SUBSET (0..MaxVersion)
    BY DEF Versions
  <2>2. \E m \in avail : \A w \in avail : w <= m
    BY <1>3, <2>1, MaxVersionAssumption, BoundedNatSetHasGreatest
  <2>3. d \in avail
    BY <1>1, <1>3, <2>2
  <2>4. QED
    BY <2>3 DEF Versions
<1>4. QED
  BY <1>2, <1>3
-----------------------------------------------------------------------------
(***************************************************************************)
(* Type correctness of the Model specification.                            *)
(***************************************************************************)
LEMMA TypeOKInit == Init => TypeOK
BY MaxVersionAssumption DEF Init, TypeOK, Versions, ModelVersionState, Absent, ApplyCalls, Phases

\* The step that starts work on Lowest(todo) keeps the types.
LEMMA LowestStepType ==
  ASSUME TypeOK, todo # {}
  PROVE  /\ Lowest(todo) \in Versions
         /\ todo \ {Lowest(todo)} \in SUBSET Versions
BY LowestIsLeast DEF TypeOK

\* Setting the state of one version keeps the status map typed.
LEMMA SetStatusType ==
  ASSUME TypeOK, NEW v, NEW s \in ModelVersionState
  PROVE  [status EXCEPT ![v] = s] \in [Versions -> ModelVersionState \cup {Absent}]
BY DEF TypeOK

\* A notification counts one more call of the current phase.
LEMMA NotifyType ==
  ASSUME TypeOK, phase \in ApplyCalls, Notify
  PROVE  notified' \in [ApplyCalls -> Nat]
BY DEF TypeOK, Notify

LEMMA TypeOKStep == TypeOK /\ [Next]_vars => TypeOK'
<1> SUFFICES ASSUME TypeOK, [Next]_vars PROVE TypeOK'
  OBVIOUS
<1> USE MaxVersionAssumption DEF TypeOK, Versions
<1>1. ASSUME NEW st \in [Versions -> ModelVersionState \cup {Absent}], NEW ig
      PROVE  UpdateDefaultVersion(st, ig) \in 0..MaxVersion
  BY UpdateDefaultVersionSpec
<1>2. CASE Reconcile
  <2>1. PICK requested \in SUBSET Versions :
          LET d == VersionsToChange(status, requested)
          IN  /\ todo' = d.toStart
              /\ toReload' = d.toReload
              /\ toRetire' = d.toRetire
    BY <1>2 DEF Reconcile
  <2>2. QED
    BY <1>2, <2>1 DEF Reconcile, VersionsToChange, Registered, ApplyCalls, Phases
<1>3. CASE AddVersion
  BY <1>3, LowestStepType, SetStatusType DEF AddVersion, ModelVersionState
<1>4. CASE ReloadVersion
  BY <1>4, LowestStepType, SetStatusType DEF ReloadVersion, ModelVersionState
<1>5. CASE RetireAllVersion
  BY <1>5, LowestStepType, SetStatusType DEF RetireAllVersion, ModelVersionState
<1>6. CASE RetireVersion
  BY <1>6, <1>1, LowestStepType, SetStatusType
     DEF RetireVersion, ModelVersionState
<1>7. CASE AddVersionLoaded
  <2>1. status' \in [Versions -> ModelVersionState \cup {Absent}]
    BY <1>7, SetStatusType DEF AddVersionLoaded, ModelVersionState
  <2>2. defaultVersion' \in 0..MaxVersion
    BY <1>7, <2>1, <1>1 DEF AddVersionLoaded
  <2>3. QED
    BY <1>7, <2>1, <2>2, NotifyType DEF AddVersionLoaded, ApplyCalls, Phases
<1>8. CASE ReloadVersionLoaded
  <2>1. status' \in [Versions -> ModelVersionState \cup {Absent}]
    BY <1>8, SetStatusType DEF ReloadVersionLoaded, ModelVersionState
  <2>2. defaultVersion' \in 0..MaxVersion
    BY <1>8, <2>1, <1>1 DEF ReloadVersionLoaded
  <2>3. QED
    BY <1>8, <2>1, <2>2 DEF ReloadVersionLoaded, ApplyCalls, Phases
<1>9. CASE RetireAllVersionUnloaded
  <2>1. status' \in [Versions -> ModelVersionState \cup {Absent}]
    BY <1>9, SetStatusType DEF RetireAllVersionUnloaded, ModelVersionState
  <2>2. defaultVersion' \in 0..MaxVersion
    BY <1>9, <2>1, <1>1 DEF RetireAllVersionUnloaded
  <2>3. QED
    BY <1>9, <2>1, <2>2 DEF RetireAllVersionUnloaded, ApplyCalls, Phases
<1>10. CASE AddVersionFailed
  BY <1>10, SetStatusType DEF AddVersionFailed, ModelVersionState
<1>11. CASE ReloadVersionFailed
  BY <1>11, SetStatusType DEF ReloadVersionFailed, ModelVersionState
<1>12. CASE RetireVersionUnloaded
  BY <1>12, SetStatusType DEF RetireVersionUnloaded, ModelVersionState
<1>13. CASE AddVersionsDone
  BY <1>13 DEF AddVersionsDone, Phases
<1>14. CASE ReloadVersionsDone
  BY <1>14, NotifyType DEF ReloadVersionsDone, ApplyCalls, Phases
<1>15. CASE RetireVersionsDone
  BY <1>15, NotifyType DEF RetireVersionsDone, ApplyCalls, Phases
<1>16. CASE RetireAllVersionsDone
  BY <1>16, NotifyType DEF RetireAllVersionsDone, ApplyCalls, Phases
<1>17. CASE RetireAllVersionsBegin
  BY <1>17 DEF RetireAllVersionsBegin, Registered, ApplyCalls, Phases
<1>18. CASE UNCHANGED vars
  BY <1>18 DEF vars
<1>19. QED
  BY <1>2, <1>3, <1>4, <1>5, <1>6, <1>7, <1>8, <1>9, <1>10, <1>11, <1>12,
     <1>13, <1>14, <1>15, <1>16, <1>17, <1>18 DEF Next

(* The Model specification keeps every variable within its type.          *)
THEOREM TypeCorrect == Spec => []TypeOK
BY TypeOKInit, TypeOKStep, PTL DEF Spec

-----------------------------------------------------------------------------
(***************************************************************************)
(* DefaultAvailableDuringReconcile is not inductive by itself: a step of  *)
(* the reconciliation keeps it only because of where the version it       *)
(* touches comes from.  The strengthening records that                     *)
(*  - the version in progress is LOADING in the start and reload calls and *)
(*    UNLOADING in the retire calls, so it is never the default;           *)
(*  - in the start call the versions still to start are unregistered and   *)
(*    the versions waiting to be reloaded are END or LOADING (the diff),   *)
(*    and in the reload call the versions still to reload are END or      *)
(*    LOADING, so a reload never touches the default;                      *)
(*  - retireAllVersions breaks the property only while a version is being *)
(*    unloaded, and restores it with updateDefaultVersion.                 *)
(***************************************************************************)
NotServing == {"END", "LOADING"}

\* The default version is AVAILABLE except while retireAllVersions unloads.
DefaultInv == (phase # "retireAll" \/ cur = 0) => DefaultIsAvailable

\* The version in progress is out of todo, LOADING in the start and reload
\* calls and UNLOADING in the retire calls.
CurInv ==
  /\ phase = "idle" => cur = 0
  /\ cur \notin todo
  /\ cur # 0 => status[cur] = IF phase \in {"start", "reload"}
                               THEN "LOADING" ELSE "UNLOADING"

\* What the diff guarantees, as long as the calls it feeds are running.
DiffInv ==
  /\ phase = "start" => /\ \A v \in todo : status[v] = Absent
                        /\ \A v \in toReload : status[v] \in NotServing
                        /\ cur \notin toReload
  /\ phase = "reload" => \A v \in todo : status[v] \in NotServing

IInv == TypeOK /\ DefaultInv /\ CurInv /\ DiffInv

LEMMA IInvInit == Init => IInv
BY TypeOKInit, MaxVersionAssumption
   DEF Init, IInv, DefaultInv, CurInv, DiffInv, DefaultIsAvailable, Versions

\* A step that moves one version v away from AVAILABLE keeps the default
\* AVAILABLE when the default is not v.
LEMMA DefaultKept ==
  ASSUME TypeOK, DefaultIsAvailable, NEW v, NEW s,
         defaultVersion' = defaultVersion,
         status' = [status EXCEPT ![v] = s],
         defaultVersion # 0 => defaultVersion # v
  PROVE  DefaultIsAvailable'
BY DEF DefaultIsAvailable, TypeOK

\* A step that recomputes the default with updateDefaultVersion leaves it on
\* an AVAILABLE version.
LEMMA DefaultRecomputed ==
  ASSUME NEW ig, defaultVersion' = UpdateDefaultVersion(status', ig)
  PROVE  DefaultIsAvailable'
BY UpdateDefaultVersionSpec DEF DefaultIsAvailable

LEMMA IInvStep == IInv /\ [Next]_vars => IInv'
<1> SUFFICES ASSUME IInv, [Next]_vars PROVE IInv'
  OBVIOUS
<1>0. TypeOK'
  BY TypeOKStep DEF IInv
<1> USE MaxVersionAssumption, <1>0 DEF IInv, TypeOK, Versions
<1>1. CASE Reconcile
  <2>1. PICK requested \in SUBSET Versions :
          LET d == VersionsToChange(status, requested)
          IN  /\ todo' = d.toStart
              /\ toReload' = d.toReload
              /\ toRetire' = d.toRetire
    BY <1>1 DEF Reconcile
  <2>2. LET d == VersionsToChange(status, requested)
        IN  /\ \A v \in d.toStart : status[v] = Absent
            /\ \A v \in d.toReload : status[v] \in {"END", "LOADING"}
    <3>1. status \in [Versions -> ModelVersionState \cup {Absent}]
      OBVIOUS
    <3>2. QED
      BY <3>1 DEF VersionsToChange, Registered, WillEndUnloaded
  <2>3. /\ \A v \in todo' : status[v] = Absent
        /\ \A v \in toReload' : status[v] \in NotServing
    BY <2>1, <2>2 DEF NotServing
  <2>4. QED
    BY <1>1, <2>3 DEF Reconcile, DefaultInv, CurInv, DiffInv, DefaultIsAvailable
<1>2. CASE AddVersion
  <2> DEFINE v == Lowest(todo)
  <2>1. v \in todo /\ status[v] = Absent
    BY <1>2, LowestIsLeast DEF AddVersion, DiffInv
  <2>2. DefaultIsAvailable'
    BY <1>2, <2>1, DefaultKept DEF AddVersion, DefaultInv, CurInv,
       DefaultIsAvailable, Absent
  <2>3. QED
    BY <1>2, <2>1, <2>2 DEF AddVersion, DefaultInv, CurInv, DiffInv,
       NotServing, Absent
<1>3. CASE AddVersionLoaded
  <2>1. DefaultIsAvailable'
    BY <1>3, DefaultRecomputed DEF AddVersionLoaded
  <2>2. QED
    BY <1>3, <2>1 DEF AddVersionLoaded, DefaultInv, CurInv, DiffInv
<1>4. CASE AddVersionFailed
  <2>1. DefaultIsAvailable'
    BY <1>4, DefaultKept DEF AddVersionFailed, DefaultInv, CurInv,
       DefaultIsAvailable
  <2>2. QED
    BY <1>4, <2>1 DEF AddVersionFailed, DefaultInv, CurInv, DiffInv
<1>5. CASE AddVersionsDone
  BY <1>5 DEF AddVersionsDone, DefaultInv, CurInv, DiffInv,
     DefaultIsAvailable
<1>6. CASE ReloadVersion
  <2> DEFINE v == Lowest(todo)
  <2>1. v \in todo /\ status[v] \in NotServing
    BY <1>6, LowestIsLeast DEF ReloadVersion, DiffInv
  <2>2. DefaultIsAvailable'
    BY <1>6, <2>1, DefaultKept DEF ReloadVersion, DefaultInv, CurInv,
       DefaultIsAvailable, NotServing
  <2>3. QED
    BY <1>6, <2>1, <2>2 DEF ReloadVersion, DefaultInv, CurInv, DiffInv,
       NotServing
<1>7. CASE ReloadVersionLoaded
  <2>1. DefaultIsAvailable'
    BY <1>7, DefaultRecomputed DEF ReloadVersionLoaded
  <2>2. QED
    BY <1>7, <2>1 DEF ReloadVersionLoaded, DefaultInv, CurInv, DiffInv
<1>8. CASE ReloadVersionFailed
  <2>1. DefaultIsAvailable'
    BY <1>8, DefaultKept DEF ReloadVersionFailed, DefaultInv, CurInv,
       DefaultIsAvailable
  <2>2. QED
    BY <1>8, <2>1 DEF ReloadVersionFailed, DefaultInv, CurInv, DiffInv
<1>9. CASE ReloadVersionsDone
  BY <1>9 DEF ReloadVersionsDone, DefaultInv, CurInv, DiffInv,
     DefaultIsAvailable
<1>10. CASE RetireVersion
  <2> DEFINE v == Lowest(todo)
  <2>1. v \in todo
    BY <1>10, LowestIsLeast DEF RetireVersion
  <2>2. LET d == UpdateDefaultVersion(status, v)
        IN  d # 0 => status[d] = "AVAILABLE" /\ d # v
    BY UpdateDefaultVersionSpec
  <2>3. DefaultIsAvailable'
    BY <1>10, <2>2 DEF RetireVersion, DefaultIsAvailable
  <2>4. QED
    BY <1>10, <2>1, <2>3 DEF RetireVersion, DefaultInv, CurInv, DiffInv
<1>11. CASE RetireVersionUnloaded
  <2>1. DefaultIsAvailable'
    BY <1>11, DefaultKept DEF RetireVersionUnloaded, DefaultInv, CurInv,
       DefaultIsAvailable
  <2>2. QED
    BY <1>11, <2>1 DEF RetireVersionUnloaded, DefaultInv, CurInv, DiffInv
<1>12. CASE RetireVersionsDone
  BY <1>12 DEF RetireVersionsDone, DefaultInv, CurInv, DiffInv,
     DefaultIsAvailable
<1>13. CASE RetireAllVersionsBegin
  BY <1>13 DEF RetireAllVersionsBegin, Registered, DefaultInv, CurInv,
     DiffInv, DefaultIsAvailable
<1>14. CASE RetireAllVersion
  <2> DEFINE v == Lowest(todo)
  <2>1. v \in todo
    BY <1>14, LowestIsLeast DEF RetireAllVersion
  <2>2. QED
    BY <1>14, <2>1 DEF RetireAllVersion, DefaultInv, CurInv, DiffInv
<1>15. CASE RetireAllVersionUnloaded
  <2>1. DefaultIsAvailable'
    BY <1>15, DefaultRecomputed DEF RetireAllVersionUnloaded
  <2>2. QED
    BY <1>15, <2>1 DEF RetireAllVersionUnloaded, DefaultInv, CurInv, DiffInv
<1>16. CASE RetireAllVersionsDone
  BY <1>16 DEF RetireAllVersionsDone, DefaultInv, CurInv, DiffInv,
     DefaultIsAvailable
<1>17. CASE UNCHANGED vars
  BY <1>17 DEF vars, DefaultInv, CurInv, DiffInv, DefaultIsAvailable
<1>18. QED
  BY <1>1, <1>2, <1>3, <1>4, <1>5, <1>6, <1>7, <1>8, <1>9, <1>10, <1>11,
     <1>12, <1>13, <1>14, <1>15, <1>16, <1>17 DEF Next

(* Outside Model::retireAllVersions the default version is AVAILABLE in   *)
(* every reachable state, for every number of versions: addVersion and    *)
(* reloadVersions recompute it after a load, retireVersions moves it off  *)
(* a version before retireModel, and getVersionsToChange never hands an   *)
(* AVAILABLE version to reloadVersions.                                    *)
THEOREM DefaultAvailableInvariant == Spec => []DefaultAvailableDuringReconcile
<1>1. IInv => DefaultAvailableDuringReconcile
  BY DEF IInv, DefaultInv, DefaultAvailableDuringReconcile
<1>2. QED
  BY IInvInit, IInvStep, <1>1, PTL DEF Spec
-----------------------------------------------------------------------------
(***************************************************************************)
(* DefaultIsHighestWhenIdle.  Every call of the reconciliation keeps the  *)
(* default equal to updateDefaultVersion() of the current states, except  *)
(* retireAllVersions, which starts retireModel without moving the default *)
(* and recomputes it only after the unload.  The steps that do not        *)
(* recompute it change one version between two states that are not        *)
(* AVAILABLE, which IInv guarantees: the version addVersion starts is     *)
(* unregistered, the one reloadVersions starts is END or LOADING, and a   *)
(* failed load or a finished unload ends a LOADING or UNLOADING version.  *)
(***************************************************************************)
\* The default equals updateDefaultVersion() except while retireAllVersions
\* unloads a version.
HighestInv ==
  (phase # "retireAll" \/ cur = 0) =>
    defaultVersion = UpdateDefaultVersion(status, 0)

\* The versions updateDefaultVersion chooses among.
Candidates(st, ignored) == {v \in Versions : v # ignored /\ st[v] = "AVAILABLE"}

\* updateDefaultVersion depends only on the set of candidate versions.
LEMMA SameCandidatesSameDefault ==
  ASSUME NEW s1, NEW s2, NEW i1, NEW i2, Candidates(s1, i1) = Candidates(s2, i2)
  PROVE  UpdateDefaultVersion(s1, i1) = UpdateDefaultVersion(s2, i2)
<1> DEFINE A1 == {v \in Versions : v # i1 /\ s1[v] = "AVAILABLE"}
           A2 == {v \in Versions : v # i2 /\ s2[v] = "AVAILABLE"}
           Top(A) == IF A = {} THEN 0 ELSE CHOOSE v \in A : \A w \in A : w <= v
<1>1. UpdateDefaultVersion(s1, i1) = Top(A1)
  BY DEF UpdateDefaultVersion
<1>2. UpdateDefaultVersion(s2, i2) = Top(A2)
  BY DEF UpdateDefaultVersion
<1>3. A1 = A2
  BY DEF Candidates
<1> HIDE DEF A1, A2, Top
<1>4. Top(A1) = Top(A2)
  BY <1>3
<1>5. QED
  BY <1>1, <1>2, <1>4

(* Moving a version that is not AVAILABLE to another state that is not    *)
(* AVAILABLE leaves updateDefaultVersion() alone.                          *)
LEMMA NonAvailableChange ==
  ASSUME NEW D, NEW st \in [Versions -> D], NEW v, NEW s,
         s # "AVAILABLE", v \in Versions => st[v] # "AVAILABLE"
  PROVE  UpdateDefaultVersion([st EXCEPT ![v] = s], 0) =
         UpdateDefaultVersion(st, 0)
<1>1. Candidates([st EXCEPT ![v] = s], 0) = Candidates(st, 0)
  BY DEF Candidates
<1>2. QED
  BY <1>1, SameCandidatesSameDefault

(* retireVersions: updateDefaultVersion(version) before retireModel gives *)
(* the value updateDefaultVersion() has once the version is UNLOADING.     *)
LEMMA IgnoredThenUnloading ==
  ASSUME NEW D, NEW st \in [Versions -> D], NEW v, NEW s, s # "AVAILABLE"
  PROVE  UpdateDefaultVersion([st EXCEPT ![v] = s], 0) =
         UpdateDefaultVersion(st, v)
<1>1. Candidates([st EXCEPT ![v] = s], 0) = Candidates(st, v)
  BY DEF Candidates, Versions
<1>2. QED
  BY <1>1, SameCandidatesSameDefault

LEMMA HighestInit == Init => HighestInv
<1> SUFFICES ASSUME Init PROVE defaultVersion = UpdateDefaultVersion(status, 0)
  BY DEF HighestInv
<1>1. {w \in Versions : w # 0 /\ status[w] = "AVAILABLE"} = {}
  BY DEF Init, Absent
<1>2. QED
  BY <1>1 DEF Init, UpdateDefaultVersion

LEMMA HighestStep == IInv /\ HighestInv /\ [Next]_vars => HighestInv'
<1> SUFFICES ASSUME IInv, HighestInv, [Next]_vars PROVE HighestInv'
  OBVIOUS
<1> DEFINE SD == UpdateDefaultVersion(status, 0)
           St == ModelVersionState \cup {Absent}
<1>0. status \in [Versions -> St]
  BY DEF IInv, TypeOK
<1>1. CASE Reconcile
  BY <1>1 DEF Reconcile, HighestInv
<1>2. CASE AddVersion
  <2> DEFINE v == Lowest(todo)
  <2>1. status[v] = Absent
    BY <1>2, LowestIsLeast DEF AddVersion, IInv, DiffInv, TypeOK
  <2>2. UpdateDefaultVersion(status', 0) = SD
    BY <1>0, <1>2, <2>1, NonAvailableChange DEF AddVersion, Absent
  <2>3. QED
    BY <1>2, <2>2 DEF AddVersion, HighestInv
<1>3. CASE AddVersionLoaded \/ ReloadVersionLoaded \/ RetireAllVersionUnloaded
  BY <1>3 DEF AddVersionLoaded, ReloadVersionLoaded, RetireAllVersionUnloaded,
     HighestInv
<1>4. CASE AddVersionFailed \/ ReloadVersionFailed \/ RetireVersionUnloaded
  <2>1. phase # "retireAll" /\ cur # 0 /\ status[cur] \in {"LOADING", "UNLOADING"}
    BY <1>4 DEF AddVersionFailed, ReloadVersionFailed, RetireVersionUnloaded,
       IInv, CurInv
  <2>2. status' = [status EXCEPT ![cur] = "END"]
    BY <1>4 DEF AddVersionFailed, ReloadVersionFailed, RetireVersionUnloaded
  <2>3. UpdateDefaultVersion(status', 0) = SD
    BY <1>0, <2>1, <2>2, NonAvailableChange
  <2>4. UNCHANGED <<defaultVersion, phase>>
    BY <1>4 DEF AddVersionFailed, ReloadVersionFailed, RetireVersionUnloaded
  <2>5. QED
    BY <2>1, <2>3, <2>4 DEF HighestInv
<1>5. CASE AddVersionsDone \/ ReloadVersionsDone \/ RetireVersionsDone
  BY <1>5 DEF AddVersionsDone, ReloadVersionsDone, RetireVersionsDone,
     HighestInv
<1>6. CASE ReloadVersion
  <2> DEFINE v == Lowest(todo)
  <2>1. status[v] \in NotServing
    BY <1>6, LowestIsLeast DEF ReloadVersion, IInv, DiffInv, TypeOK
  <2>2. UpdateDefaultVersion(status', 0) = SD
    BY <1>0, <1>6, <2>1, NonAvailableChange DEF ReloadVersion, NotServing
  <2>3. QED
    BY <1>6, <2>2 DEF ReloadVersion, HighestInv
<1>7. CASE RetireVersion
  <2> DEFINE v == Lowest(todo)
  <2>1. UpdateDefaultVersion(status', 0) = UpdateDefaultVersion(status, v)
    BY <1>0, <1>7, IgnoredThenUnloading DEF RetireVersion
  <2>2. QED
    BY <1>7, <2>1 DEF RetireVersion, HighestInv
<1>8. CASE RetireAllVersionsBegin
  BY <1>8 DEF RetireAllVersionsBegin, HighestInv, IInv, CurInv
<1>9. CASE RetireAllVersion
  <2>1. cur' # 0
    BY <1>9, LowestIsLeast DEF RetireAllVersion, IInv, TypeOK, Versions
  <2>2. QED
    BY <1>9, <2>1 DEF RetireAllVersion, HighestInv
<1>10. CASE RetireAllVersionsDone
  BY <1>10 DEF RetireAllVersionsDone, HighestInv
<1>11. CASE UNCHANGED vars
  BY <1>11 DEF vars, HighestInv
<1>12. QED
  BY <1>1, <1>2, <1>3, <1>4, <1>5, <1>6, <1>7, <1>8, <1>9, <1>10, <1>11
     DEF Next

(* Whenever the reconciliation thread is between Model calls, the default *)
(* version is the highest AVAILABLE version (updateDefaultVersion()), for *)
(* every number of versions and every sequence of successful and failed   *)
(* loads, reloads, retirements and retireAllVersions calls.                *)
THEOREM DefaultHighestInvariant == Spec => []DefaultIsHighestWhenIdle
<1>1. IInv /\ HighestInv => DefaultIsHighestWhenIdle
  BY DEF HighestInv, DefaultIsHighestWhenIdle
<1>2. QED
  BY IInvInit, IInvStep, HighestInit, HighestStep, <1>1, PTL DEF Spec
-----------------------------------------------------------------------------
(***************************************************************************)
(* DefaultNeverLowerWhileStarting.  In the start and reload calls the     *)
(* default changes only when a load succeeds, and then to                 *)
(* updateDefaultVersion() of a map with one more AVAILABLE version; by    *)
(* HighestInv it was updateDefaultVersion() of the map before, and a      *)
(* maximum over more versions is no lower.                                 *)
(***************************************************************************)
\* updateDefaultVersion returns a version no lower than any candidate.
LEMMA UpdateDefaultVersionIsMax ==
  ASSUME NEW st, NEW ignored, NEW w \in Versions, w # ignored,
         st[w] = "AVAILABLE"
  PROVE  w <= UpdateDefaultVersion(st, ignored)
<1> DEFINE avail == {v \in Versions : v # ignored /\ st[v] = "AVAILABLE"}
<1>1. w \in avail
  OBVIOUS
<1>2. \E m \in avail : \A x \in avail : x <= m
  <2>1. avail \in SUBSET (0..MaxVersion) /\ avail # {}
    BY <1>1 DEF Versions
  <2>2. QED
    BY <2>1, MaxVersionAssumption, BoundedNatSetHasGreatest
<1>3. UpdateDefaultVersion(st, ignored) =
        CHOOSE v \in avail : \A x \in avail : x <= v
  BY <1>1 DEF UpdateDefaultVersion
<1>4. QED
  BY <1>1, <1>2, <1>3

(* A successful load, which makes one version AVAILABLE, never lowers     *)
(* updateDefaultVersion().                                                 *)
LEMMA LoadRaisesDefault ==
  ASSUME NEW D, NEW st \in [Versions -> D], NEW v
  PROVE  UpdateDefaultVersion(st, 0) <=
         UpdateDefaultVersion([st EXCEPT ![v] = "AVAILABLE"], 0)
<1> DEFINE d == UpdateDefaultVersion(st, 0)
           st2 == [st EXCEPT ![v] = "AVAILABLE"]
<1>1. /\ d \in 0..MaxVersion
      /\ d # 0 => st[d] = "AVAILABLE"
  BY UpdateDefaultVersionSpec
<1>2. UpdateDefaultVersion(st2, 0) \in 0..MaxVersion
  BY UpdateDefaultVersionSpec
<1>3. CASE d = 0
  BY <1>2, <1>3
<1>4. CASE d # 0
  <2>1. d \in Versions /\ st2[d] = "AVAILABLE"
    BY <1>1, <1>4 DEF Versions
  <2>2. QED
    BY <1>4, <2>1, UpdateDefaultVersionIsMax DEF Versions
<1>5. QED
  BY <1>3, <1>4

(* Start before retire (spec section 4.3): no step of                     *)
(* Model::addVersions or Model::reloadVersions lowers the default version *)
(* or drops it to 0, for every number of versions and every outcome of    *)
(* the loads, so a consumer resolving the default during a rollover never *)
(* falls back to an older version.                                         *)
THEOREM DefaultNeverLowers == Spec => DefaultNeverLowerWhileStarting
<1>1. IInv /\ HighestInv /\ [Next]_vars =>
        [(phase \in {"start", "reload"}) => defaultVersion' >= defaultVersion]_vars
  <2> SUFFICES ASSUME IInv, HighestInv, [Next]_vars,
                      phase \in {"start", "reload"}
               PROVE  defaultVersion' >= defaultVersion
    OBVIOUS
  <2>0. /\ status \in [Versions -> ModelVersionState \cup {Absent}]
        /\ defaultVersion \in Nat
    BY DEF IInv, TypeOK
  <2>1. CASE AddVersionLoaded \/ ReloadVersionLoaded
    <3>2. defaultVersion = UpdateDefaultVersion(status, 0)
      BY DEF HighestInv
    <3>3. /\ status' = [status EXCEPT ![cur] = "AVAILABLE"]
          /\ defaultVersion' = UpdateDefaultVersion(status', 0)
      BY <2>1 DEF AddVersionLoaded, ReloadVersionLoaded
    <3>4. QED
      BY <2>0, <3>2, <3>3, LoadRaisesDefault
  <2>5. CASE RetireVersion \/ RetireAllVersionUnloaded
    BY <2>5 DEF RetireVersion, RetireAllVersionUnloaded
  <2>6. CASE UNCHANGED defaultVersion
    BY <2>0, <2>6
  <2>7. QED
    BY <2>1, <2>5, <2>6
       DEF Next, vars, Reconcile, AddVersion, AddVersionFailed, AddVersionsDone,
       ReloadVersion, ReloadVersionFailed, ReloadVersionsDone,
       RetireVersionUnloaded, RetireVersionsDone, RetireAllVersionsBegin,
       RetireAllVersion, RetireAllVersionsDone
<1>2. QED
  BY <1>1, IInvInit, IInvStep, HighestInit, HighestStep, PTL
     DEF Spec, DefaultNeverLowerWhileStarting
=============================================================================
