----------------------------- MODULE NodeProofs -----------------------------
(***************************************************************************)
(* Proofs about Node: type correctness for every set of dependencies,     *)
(* mappings and sessions, and that a node used by a single session is     *)
(* ready only with all its inputs.                                         *)
(***************************************************************************)
EXTENDS Node, NatFacts, FiniteSetTheorems, TLAPS

(* The loop of setInputs ran to its end (no missing output) only if it    *)
(* stored the input of every pair of the mapping.                          *)
LEMMA FirstMissingOk ==
  ASSUME NEW m \in Seq(Outputs \X Inputs), NEW produced,
         FirstMissing(m, produced) > Len(m)
  PROVE  \A i \in 1..Len(m) : m[i][2] \in StoredInputs(m, produced)
<1> DEFINE missing == {i \in 1..Len(m) : m[i][1] \notin produced}
<1>1. CASE missing = {}
  <2>1. FirstMissing(m, produced) = Len(m) + 1
    BY <1>1 DEF FirstMissing
  <2>2. QED
    BY <2>1 DEF StoredInputs
<1>2. CASE missing # {}
  <2>0. missing \in SUBSET Nat
    OBVIOUS
  <2>1. \E i \in missing : \A j \in missing : i <= j
    BY <1>2, <2>0, NatSetHasLeast, Zenon
  <2>2. FirstMissing(m, produced) \in missing
    BY <1>2, <2>1 DEF FirstMissing
  <2>3. QED
    BY <2>2
<1>3. QED
  BY <1>1, <1>2

\* The pairs a setInputs call can have come from form a finite set.
LEMMA PairsFinite ==
  /\ IsFiniteSet(Deps \X Sessions)
  /\ Cardinality(Deps \X Sessions) \in Nat
BY FinitenessAssumption, FS_Product, FS_CardinalityType
-----------------------------------------------------------------------------
(***************************************************************************)
(* The inductive invariant.  isReady compares a counter with the number   *)
(* of dependencies; what makes it mean something is that the counter      *)
(* counts exactly the (dependency, session) pairs whose setInputs         *)
(* returned OK, each at most once, and that the inputs those calls stored *)
(* are never erased, since a later call overwrites an input only with     *)
(* another blob.                                                           *)
(***************************************************************************)
\* Every input mapped from a dependency whose setInputs returned OK holds a
\* blob in the node session.
CompletedInputsStored ==
  \A c \in completed : \A i \in 1..Len(Mapping[c[1]]) :
    sessionInputs[DefaultKey][Mapping[c[1]][i][2]] # NoBlob

NInv ==
  /\ TypeOK
  /\ finishedDependenciesCount = Cardinality(completed)
  /\ CompletedInputsStored

LEMMA NInvInit == Init => NInv
<1> SUFFICES ASSUME Init PROVE NInv
  OBVIOUS
<1>1. Cardinality(completed) = 0
  BY FS_EmptySet DEF Init
<1>2. QED
  BY <1>1, PairsFinite, NoBlobAssumption
     DEF Init, NInv, TypeOK, NoInputs, Keys, CompletedInputsStored
\* A setInputs call writes blobs only, so an input that holds a blob keeps one.
LEMMA StoreKeepsBlobs ==
  ASSUME NEW inputs, NEW stored, NEW blob, blob # NoBlob,
         NEW x \in Inputs, inputs[x] # NoBlob
  PROVE  Store(inputs, stored, blob)[x] # NoBlob
BY DEF Store

LEMMA NInvStep == NInv /\ [Next]_vars => NInv'
<1> SUFFICES ASSUME NInv, [Next]_vars PROVE NInv'
  OBVIOUS
<1>0. /\ IsFiniteSet(completed)
      /\ Cardinality(completed) \in Nat
  BY PairsFinite, FS_Subset, FS_CardinalityType DEF NInv, TypeOK
<1>1. CASE DependencyFinished
  <2>1. PICK dep \in Deps, s \in Sessions, produced \in SUBSET Outputs :
          /\ <<dep, s>> \notin delivered
          /\ delivered' = delivered \cup {<<dep, s>>}
          /\ SetInputs(dep, s, produced)
          /\ UNCHANGED fetchStatus
    BY <1>1 DEF DependencyFinished
  <2> DEFINE m == MappingByDependency(dep)
             stored == StoredInputs(m, produced)
             ok == FirstMissing(m, produced) > Len(m)
             blob == <<s, dep>>
  <2>2. blob \in Blobs /\ blob # NoBlob
    BY NoBlobAssumption DEF Blobs
  <2>3. /\ inputBlobs' = Store(inputBlobs, stored, blob)
        /\ sessionKeys' \subseteq sessionKeys \cup {DefaultKey}
        /\ sessionInputs' = [sessionInputs EXCEPT
                               ![DefaultKey] = Store(@, stored, blob)]
        /\ finishedDependenciesCount' =
             IF ok THEN finishedDependenciesCount + 1
             ELSE finishedDependenciesCount
        /\ completed' = IF ok THEN completed \cup {<<dep, s>>} ELSE completed
    BY <2>1 DEF SetInputs, GetNodeSession
  <2>4. /\ inputBlobs' \in [Inputs -> Blobs \cup {NoBlob}]
        /\ sessionInputs' \in [Keys -> [Inputs -> Blobs \cup {NoBlob}]]
        /\ sessionKeys' \subseteq Keys
    BY <2>2, <2>3 DEF NInv, TypeOK, Store, Keys
  <2>5. ASSUME NEW x \in Inputs, sessionInputs[DefaultKey][x] # NoBlob
        PROVE  sessionInputs'[DefaultKey][x] # NoBlob
    <3>1. sessionInputs'[DefaultKey] =
            Store(sessionInputs[DefaultKey], stored, blob)
      BY <2>3 DEF NInv, TypeOK, Keys
    <3>2. QED
      BY <2>2, <2>5, <3>1, StoreKeepsBlobs
  <2>6. ASSUME NEW c \in completed PROVE \A i \in 1..Len(Mapping[c[1]]) :
          sessionInputs'[DefaultKey][Mapping[c[1]][i][2]] # NoBlob
    <3>1. Mapping[c[1]] \in Seq(Outputs \X Inputs)
      BY MappingAssumption DEF NInv, TypeOK
    <3>2. QED
      BY <2>5, <3>1 DEF NInv, CompletedInputsStored
  <2>7. CASE ok
    <3>1. <<dep, s>> \notin completed
      BY <2>1 DEF NInv, TypeOK
    <3>2. /\ IsFiniteSet(completed \cup {<<dep, s>>})
          /\ Cardinality(completed \cup {<<dep, s>>}) = Cardinality(completed) + 1
      BY <1>0, <3>1, FS_AddElement
    <3>3. finishedDependenciesCount' = Cardinality(completed')
      BY <2>3, <2>7, <3>2 DEF NInv
    <3>4. completed' \subseteq Deps \X Sessions /\ completed' \subseteq delivered'
      BY <2>1, <2>3, <2>7 DEF NInv, TypeOK
    <3>5. Cardinality(completed') \in 0..Cardinality(Deps \X Sessions)
      BY <3>4, PairsFinite, FS_Subset, FS_CardinalityType
    <3>6. \A i \in 1..Len(m) :
            sessionInputs'[DefaultKey][m[i][2]] # NoBlob
      <4>1. m \in Seq(Outputs \X Inputs)
        BY MappingAssumption DEF MappingByDependency
      <4>2. \A i \in 1..Len(m) : m[i][2] \in stored
        BY <2>7, <4>1, FirstMissingOk
      <4>3. sessionInputs'[DefaultKey] =
              Store(sessionInputs[DefaultKey], stored, blob)
        BY <2>3 DEF NInv, TypeOK, Keys
      <4>4. QED
        BY <2>2, <4>1, <4>2, <4>3 DEF Store
    <3>7. CompletedInputsStored'
      BY <2>3, <2>6, <2>7, <3>6 DEF CompletedInputsStored, MappingByDependency
    <3>8. QED
      BY <2>1, <2>4, <3>3, <3>4, <3>5, <3>7 DEF NInv, TypeOK
  <2>8. CASE ~ok
    <3>1. UNCHANGED <<finishedDependenciesCount, completed>>
      BY <2>3, <2>8
    <3>2. CompletedInputsStored'
      BY <2>6, <3>1 DEF CompletedInputsStored
    <3>3. QED
      BY <2>1, <2>4, <3>1, <3>2 DEF NInv, TypeOK
  <2>9. QED
    BY <2>7, <2>8
<1>2. CASE FetchResults
  BY <1>2 DEF FetchResults, NInv, TypeOK, CompletedInputsStored
<1>3. CASE UNCHANGED vars
  BY <1>3 DEF vars, NInv, TypeOK, CompletedInputsStored
<1>4. QED
  BY <1>1, <1>2, <1>3 DEF Next
(* The node keeps every variable within its type for every set of         *)
(* dependencies, mappings and sessions: in particular                      *)
(* finishedDependenciesCount never exceeds the number of (dependency,     *)
(* session) pairs, because setInputs increments it only for a pair that   *)
(* finished for the first time and whose loop ran to its end.              *)
THEOREM NodeTypeCorrect == Spec => []TypeOK
<1>1. NInv => TypeOK
  BY DEF NInv
<1>2. QED
  BY NInvInit, NInvStep, <1>1, PTL DEF Spec

(* With a single session, as the pipeline runs a node, isReady implies    *)
(* that every input some dependency's mapping feeds is present in the     *)
(* node session, whatever the order in which the dependencies finished   *)
(* and whichever of them failed on a missing output.  With two sessions   *)
(* the shared counter makes this false (run node_sessions).                *)
THEOREM ReadyWithOneSession ==
  ASSUME NEW s0, Sessions = {s0}
  PROVE  Spec => []ReadyImpliesInputs
<1>1. NInv => ReadyImpliesInputs
  <2> SUFFICES ASSUME NInv, IsReady, NEW x \in RequiredInputs
               PROVE  sessionInputs[DefaultKey][x] # NoBlob
    BY DEF ReadyImpliesInputs
  <2>1. /\ IsFiniteSet(Deps \X Sessions)
        /\ Cardinality(Deps \X Sessions) = Cardinality(Deps) * Cardinality(Sessions)
    BY FinitenessAssumption, FS_Product
  <2>2. Cardinality(Sessions) = 1
    BY FS_Singleton
  <2>3. Cardinality(Deps) \in Nat
    BY FinitenessAssumption, FS_CardinalityType
  <2>4. Cardinality(completed) = Cardinality(Deps \X Sessions)
    BY <2>1, <2>2, <2>3 DEF NInv, IsReady
  <2>5. completed = Deps \X Sessions
    BY <2>1, <2>4, FS_Subset DEF NInv, TypeOK
  <2>6. PICK d \in Deps : \E i \in 1..Len(Mapping[d]) : x = Mapping[d][i][2]
    BY DEF RequiredInputs
  <2>7. <<d, s0>> \in completed
    BY <2>5
  <2>8. QED
    BY <2>6, <2>7 DEF NInv, CompletedInputsStored
<1>2. QED
  BY NInvInit, NInvStep, <1>1, PTL DEF Spec
=============================================================================
