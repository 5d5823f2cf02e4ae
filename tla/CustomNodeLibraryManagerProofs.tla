------------------- MODULE CustomNodeLibraryManagerProofs -------------------
(***************************************************************************)
(* Proofs about CustomNodeLibraryManager, for every set of names and      *)
(* paths and every bound on the handle counts.                             *)
(***************************************************************************)
EXTENDS CustomNodeLibraryManager, FiniteSetTheorems, TLAPS

\* Adding at most one element to a finite set adds at most one to its size.
LEMMA SubsetOfOneMore ==
  ASSUME NEW S, NEW T, NEW x, IsFiniteSet(S), T \subseteq S \cup {x}
  PROVE  /\ IsFiniteSet(T)
         /\ Cardinality(T) <= Cardinality(S) + 1
<1>0. /\ IsFiniteSet(S \cup {x})
      /\ Cardinality(S \cup {x}) =
         IF x \in S THEN Cardinality(S) ELSE Cardinality(S) + 1
  BY FS_AddElement
<1>1. /\ IsFiniteSet(S \cup {x})
      /\ Cardinality(S \cup {x}) <= Cardinality(S) + 1
  BY <1>0, FS_CardinalityType
<1>2. /\ IsFiniteSet(T)
      /\ Cardinality(T) <= Cardinality(S \cup {x})
  BY <1>1, FS_Subset
<1>3. QED
  BY <1>1, <1>2, FS_CardinalityType

\* Every set of names registered at a path is finite.
LEMMA BoundToFinite ==
  ASSUME NEW T \in SUBSET Names
  PROVE  IsFiniteSet(T) /\ Cardinality(T) \in Nat
BY NamesAssumption, FS_Subset, FS_CardinalityType

-----------------------------------------------------------------------------
(* The registry refinement.  Each step of the manager is a registration   *)
(* of the abstract registry (a successful loadLibrary at a path of Paths), *)
(* a removal of unconfigured names, or leaves the table alone.  The early *)
(* returns for an escaped or relative base path are what keep the         *)
(* registered paths inside Paths.                                          *)
THEOREM RegistryRefines == Spec => RegistryRefinement
<1>1. Init => Registry!Init
  BY DEF Init, Registry!Init
<1>2. [Next]_vars => [Registry!Next]_libraries
  <2> SUFFICES ASSUME [Next]_vars PROVE [Registry!Next]_libraries
    OBVIOUS
  <2>1. CASE \E n \in Names, p \in BasePaths : LoadLibrary(n, p)
    <3>1. PICK n \in Names, p \in BasePaths : LoadLibrary(n, p)
      BY <2>1
    <3>2. CASE p \in Paths /\ libraries[n] # p /\ Opened(n, p)
      <4>1. CASE libraries' = [libraries EXCEPT ![n] = p]
        BY <3>2, <4>1 DEF Registry!Next, Registry!Load
      <4>2. CASE libraries' # [libraries EXCEPT ![n] = p]
        BY <3>2, <4>2 DEF Opened, Return
      <4>3. QED
        BY <4>1, <4>2
    <3>3. CASE ~(p \in Paths /\ libraries[n] # p /\ Opened(n, p))
      BY <3>1, <3>3 DEF LoadLibrary, Return
    <3>4. QED
      BY <3>2, <3>3
  <2>2. CASE \E n \in Names : GetLibrary(n)
    BY <2>2 DEF GetLibrary, Return
  <2>3. CASE \E cfg \in SUBSET Names : UnloadLibrariesRemovedFromConfig(cfg)
    BY <2>3 DEF UnloadLibrariesRemovedFromConfig, Registry!Next, Registry!Unload
  <2>4. CASE UNCHANGED vars
    BY <2>4 DEF vars
  <2>5. QED
    BY <2>1, <2>2, <2>3, <2>4 DEF Next
<1>3. QED
  BY <1>1, <1>2, PTL DEF Spec, Registry!Spec, RegistryRefinement
-----------------------------------------------------------------------------
\* The inductive invariant: the type and the property itself.
HInv == TypeOK /\ MappedCodeStaysLoaded

\* A step that changes neither the table nor the handles keeps HInv.
LEMMA TableUnchanged ==
  ASSUME HInv, UNCHANGED <<libraries, handles>>, lastStatus' \in Statuses
  PROVE  HInv'
BY DEF HInv, TypeOK, MappedCodeStaysLoaded, BoundTo

\* A step that only erases names from the table keeps HInv.
LEMMA TableShrinks ==
  ASSUME HInv, NEW cfg \in SUBSET Names, UnloadLibrariesRemovedFromConfig(cfg)
  PROVE  HInv'
<1>1. TypeOK'
  BY DEF HInv, TypeOK, UnloadLibrariesRemovedFromConfig
<1>2. ASSUME NEW q \in BasePaths
      PROVE  handles'[q] >= Cardinality(BoundTo(q)')
  <2>1. BoundTo(q)' \subseteq BoundTo(q)
    BY NamesAssumption DEF UnloadLibrariesRemovedFromConfig, BoundTo
  <2>2. /\ IsFiniteSet(BoundTo(q))
        /\ Cardinality(BoundTo(q)) \in Nat
    BY BoundToFinite DEF BoundTo
  <2>3. /\ IsFiniteSet(BoundTo(q)')
        /\ Cardinality(BoundTo(q)') <= Cardinality(BoundTo(q))
    BY <2>1, <2>2, FS_Subset
  <2>4. Cardinality(BoundTo(q)') \in Nat
    BY <2>3, FS_CardinalityType
  <2>5. handles[q] \in Nat /\ handles[q] >= Cardinality(BoundTo(q))
    BY DEF HInv, TypeOK, MappedCodeStaysLoaded
  <2>6. handles'[q] = handles[q]
    BY DEF UnloadLibrariesRemovedFromConfig
  <2>7. QED
    BY <2>2, <2>3, <2>4, <2>5, <2>6
<1>3. QED
  BY <1>1, <1>2 DEF HInv, MappedCodeStaysLoaded

\* A successful loadLibrary of name n at path p keeps HInv.
LEMMA TableGrows ==
  ASSUME HInv, NEW n \in Names, NEW p \in Paths,
         handles[p] < MaxHandles,
         handles' = [handles EXCEPT ![p] = @ + 1],
         libraries' = [libraries EXCEPT ![n] = p],
         lastStatus' = "OK"
  PROVE  HInv'
<1>1. TypeOK'
  BY MaxHandlesAssumption DEF HInv, TypeOK, Statuses, BasePaths
<1>2. ASSUME NEW q \in BasePaths
      PROVE  handles'[q] >= Cardinality(BoundTo(q)')
  <2>1. /\ IsFiniteSet(BoundTo(q))
        /\ Cardinality(BoundTo(q)) \in Nat
    BY BoundToFinite DEF BoundTo
  <2>2. handles[q] >= Cardinality(BoundTo(q))
    BY DEF HInv, MappedCodeStaysLoaded
  <2>3. CASE q = p
    <3>1. BoundTo(q)' \subseteq BoundTo(q) \cup {n}
      BY DEF BoundTo, HInv, TypeOK
    <3>2. Cardinality(BoundTo(q)') <= Cardinality(BoundTo(q)) + 1
      BY <2>1, <3>1, SubsetOfOneMore
    <3>3. handles'[q] = handles[q] + 1
      BY <2>3 DEF HInv, TypeOK, BasePaths
    <3>4. QED
      BY <2>1, <2>2, <3>2, <3>3, BoundToFinite DEF BoundTo, HInv, TypeOK
  <2>4. CASE q # p
    <3>1. BoundTo(q)' \subseteq BoundTo(q)
      BY <2>4 DEF BoundTo, HInv, TypeOK
    <3>2. Cardinality(BoundTo(q)') <= Cardinality(BoundTo(q))
      BY <2>1, <3>1, FS_Subset
    <3>3. handles'[q] = handles[q]
      BY <2>4 DEF HInv, TypeOK, BasePaths
    <3>4. QED
      BY <2>1, <2>2, <3>2, <3>3, BoundToFinite DEF BoundTo, HInv, TypeOK
  <2>5. QED
    BY <2>3, <2>4
<1>3. QED
  BY <1>1, <1>2 DEF HInv, MappedCodeStaysLoaded

LEMMA HInvInit == Init => HInv
<1> SUFFICES ASSUME Init PROVE HInv
  OBVIOUS
<1>1. \A q \in BasePaths : BoundTo(q) = {}
  BY NamesAssumption DEF Init, BoundTo
<1>2. QED
  BY <1>1, FS_EmptySet, MaxHandlesAssumption
     DEF Init, HInv, TypeOK, MappedCodeStaysLoaded, Statuses

LEMMA HInvStep == HInv /\ [Next]_vars => HInv'
<1> SUFFICES ASSUME HInv, [Next]_vars PROVE HInv'
  OBVIOUS
<1>1. CASE \E n \in Names, p \in BasePaths : LoadLibrary(n, p)
  <2>1. PICK n \in Names, p \in BasePaths : LoadLibrary(n, p)
    BY <1>1
  <2>2. CASE p \in Paths /\ libraries[n] # p
             /\ handles[p] < MaxHandles
             /\ handles' = [handles EXCEPT ![p] = @ + 1]
             /\ libraries' = [libraries EXCEPT ![n] = p]
             /\ lastStatus' = "OK"
    BY <2>2, TableGrows
  <2>3. CASE ~(p \in Paths /\ libraries[n] # p
               /\ handles[p] < MaxHandles
               /\ handles' = [handles EXCEPT ![p] = @ + 1]
               /\ libraries' = [libraries EXCEPT ![n] = p]
               /\ lastStatus' = "OK")
    <3>1. UNCHANGED <<libraries, handles>> /\ lastStatus' \in Statuses
      BY <2>1, <2>3 DEF LoadLibrary, Opened, Return, Statuses
    <3>2. QED
      BY <3>1, TableUnchanged
  <2>4. QED
    BY <2>2, <2>3
<1>2. CASE \E n \in Names : GetLibrary(n)
  BY <1>2, TableUnchanged DEF GetLibrary, Return, Statuses
<1>3. CASE \E cfg \in SUBSET Names : UnloadLibrariesRemovedFromConfig(cfg)
  BY <1>3, TableShrinks
<1>4. CASE UNCHANGED vars
  BY <1>4 DEF vars, HInv, TypeOK, MappedCodeStaysLoaded, BoundTo
<1>5. QED
  BY <1>1, <1>2, <1>3, <1>4 DEF Next

(* Every registered NodeLibrary's code stays mapped: a path holds at least *)
(* as many open dlopen handles as names registered at it, for every       *)
(* sequence of loadLibrary, getLibrary and unloadLibrariesRemovedFromConfig *)
(* calls.  It rests on loadLibrary closing the handle on every failure    *)
(* and writing the entry only after the last dlsym succeeded.              *)
THEOREM CodeStaysMapped == Spec => []MappedCodeStaysLoaded
<1>1. HInv => MappedCodeStaysLoaded
  BY DEF HInv
<1>2. QED
  BY HInvInit, HInvStep, <1>1, PTL DEF Spec

(* The table maps every name to a base path or to no library, every      *)
(* handle count stays within 0..MaxHandles (the bound the model puts on   *)
(* the dlopen count) and every status is one loadLibrary and getLibrary   *)
(* return, for every set of names and paths and every bound.               *)
THEOREM LibTypeCorrect == Spec => []TypeOK
<1>1. HInv => TypeOK
  BY DEF HInv
<1>2. QED
  BY HInvInit, HInvStep, <1>1, PTL DEF Spec
=============================================================================
