-------------------------------- MODULE Node --------------------------------
(***************************************************************************)
(* One pipeline node (src/src/node.cpp, node.hpp, nodesession.cpp) fed by *)
(* its upstream nodes.  addDependency fixed, at construction, the          *)
(* dependencies (previous) and, for each of them, the ordered list of     *)
(* (dependency output name, node input name) pairs (blobNamesMapping).     *)
(* When a dependency finishes for a session, the pipeline calls           *)
(* setInputs(dependency, outputs) with the outputs it produced; each such *)
(* call is one step.  A blob is abstracted to the pair (session,          *)
(* dependency) that produced it.                                           *)
(***************************************************************************)
EXTENDS Naturals, Sequences, FiniteSets

CONSTANTS
  Deps,         \* the upstream nodes: previous
  Outputs,      \* output names the dependencies may produce
  Inputs,       \* the node's input names
  Mapping,      \* blobNamesMapping: dependency -> Seq(<<output, input>>)
  Sessions,     \* sessions (requests) flowing through the pipeline
  DefaultKey,   \* getSessionKey() of a default-constructed NodeSessionMetadata
  NoBlob        \* marks an input with no blob

ASSUME MappingAssumption == Mapping \in [Deps -> Seq(Outputs \X Inputs)]

\* Session keys a caller may pass to fetchResults.
Keys == Sessions \cup {DefaultKey}

Blobs == Sessions \X Deps

\* previous is a vector, and a pipeline serves finitely many sessions.
ASSUME FinitenessAssumption == IsFiniteSet(Deps) /\ IsFiniteSet(Sessions)

\* An input without a blob is told apart from every blob.
ASSUME NoBlobAssumption == NoBlob \notin Blobs

NoInputs == [x \in Inputs |-> NoBlob]

VARIABLES
  finishedDependenciesCount,
  inputBlobs,     \* Node::inputBlobs
  sessionKeys,    \* the keys of Node::nodeSessions
  sessionInputs,  \* key -> the inputs set in that NodeSession
  delivered,      \* <<dependency, session>> pairs that called setInputs
  completed,      \* those whose setInputs returned OK
  fetchStatus     \* status of the last fetchResults(sessionId)

vars == <<finishedDependenciesCount, inputBlobs, sessionKeys, sessionInputs,
          delivered, completed, fetchStatus>>

Init ==
  /\ finishedDependenciesCount = 0
  /\ inputBlobs = NoInputs
  /\ sessionKeys = {}
  /\ sessionInputs = [k \in Keys |-> NoInputs]
  /\ delivered = {}
  /\ completed = {}
  /\ fetchStatus = "NONE"

-----------------------------------------------------------------------------
\* Node::getMappingByDependency: the pairs addDependency stored for dep.
MappingByDependency(dep) == Mapping[dep]

\* Node::getNodeSession: the session under key is found, or created and
\* emplaced.
GetNodeSession(key) == sessionKeys \cup {key}

\* Node::isReady: as many successful setInputs calls as dependencies.
IsReady == finishedDependenciesCount = Cardinality(Deps)

\* The index of the first pair of the mapping whose output is missing from
\* produced, or Len + 1 when none is.
FirstMissing(m, produced) ==
  LET missing == {i \in 1..Len(m) : m[i][1] \notin produced}
  IN  IF missing = {} THEN Len(m) + 1
      ELSE CHOOSE i \in missing : \A j \in missing : i <= j

\* The inputs the loop sets before it stops: those of the pairs before the
\* first missing output.
StoredInputs(m, produced) == {m[i][2] : i \in 1..(FirstMissing(m, produced) - 1)}

\* Inputs x in `stored` now hold blob.
Store(inputs, stored, blob) ==
  [x \in Inputs |-> IF x \in stored THEN blob ELSE inputs[x]]

\* Mutant: the counter counts down, as if it held the outstanding
\* dependencies, from its initial 0.
SetInputsDecrement(dep, s, produced) ==
  LET m == MappingByDependency(dep)
      stored == StoredInputs(m, produced)
      ok == FirstMissing(m, produced) > Len(m)
  IN  /\ inputBlobs' = Store(inputBlobs, stored, <<s, dep>>)
      /\ sessionKeys' = IF stored = {} THEN sessionKeys
                        ELSE GetNodeSession(DefaultKey)
      /\ sessionInputs' = [sessionInputs EXCEPT
                             ![DefaultKey] = Store(@, stored, <<s, dep>>)]
      /\ finishedDependenciesCount' =
           IF ok THEN finishedDependenciesCount - 1
           ELSE finishedDependenciesCount
      /\ completed' = IF ok THEN completed \cup {<<dep, s>>} ELSE completed

\* Mutant: the missing output is skipped instead of returned on, and the
\* dependency is counted as finished.
SetInputsCountOnMissing(dep, s, produced) ==
  LET m == MappingByDependency(dep)
      stored == {m[i][2] : i \in {j \in 1..Len(m) : m[j][1] \in produced}}
  IN  /\ inputBlobs' = Store(inputBlobs, stored, <<s, dep>>)
      /\ sessionKeys' = IF stored = {} THEN sessionKeys
                        ELSE GetNodeSession(DefaultKey)
      /\ sessionInputs' = [sessionInputs EXCEPT
                             ![DefaultKey] = Store(@, stored, <<s, dep>>)]
      /\ finishedDependenciesCount' = finishedDependenciesCount + 1
      /\ completed' = completed \cup {<<dep, s>>}

(* Node::setInputs(dependency, inputs).  For each pair of the dependency's *)
(* mapping in order: a missing output returns INVALID_MISSING_INPUT at    *)
(* once; otherwise the blob goes to inputBlobs and to the node session    *)
(* that getNodeSession finds or lazily creates for a default               *)
(* NodeSessionMetadata, whatever session the blob belongs to.  Only when  *)
(* the loop ends is finishedDependenciesCount incremented.                 *)
SetInputs(dep, s, produced) ==
  LET m == MappingByDependency(dep)
      stored == StoredInputs(m, produced)
      ok == FirstMissing(m, produced) > Len(m)
  IN  /\ inputBlobs' = Store(inputBlobs, stored, <<s, dep>>)
      /\ sessionKeys' = IF stored = {} THEN sessionKeys
                        ELSE GetNodeSession(DefaultKey)
      /\ sessionInputs' = [sessionInputs EXCEPT
                             ![DefaultKey] = Store(@, stored, <<s, dep>>)]
      /\ finishedDependenciesCount' =
           IF ok THEN finishedDependenciesCount + 1
           ELSE finishedDependenciesCount
      /\ completed' = IF ok THEN completed \cup {<<dep, s>>} ELSE completed

(* A dependency finishes for session s, once per session, with any subset *)
(* of the outputs, and the pipeline routes them with setInputs.            *)
DependencyFinished ==
  \E dep \in Deps, s \in Sessions, produced \in SUBSET Outputs :
    /\ <<dep, s>> \notin delivered
    /\ delivered' = delivered \cup {<<dep, s>>}
    /\ SetInputs(dep, s, produced)
    /\ UNCHANGED fetchStatus

(* Node::fetchResults(sessionId): it->second is read before `it` is       *)
(* compared with end().  For an unknown key that read is undefined: the   *)
(* compiler may drop the comparison, which was reached only after the     *)
(* dereference, and the call then uses whatever the end node holds.  Both *)
(* outcomes are possible.                                                  *)
FetchResults ==
  \E key \in Keys :
    /\ \/ key \in sessionKeys /\ fetchStatus' = "OK"
       \/ key \notin sessionKeys
          /\ fetchStatus' \in {"UNKNOWN_ERROR", "INVALID_READ"}
    /\ UNCHANGED <<finishedDependenciesCount, inputBlobs, sessionKeys,
                   sessionInputs, delivered, completed>>

Next == DependencyFinished \/ FetchResults

Spec == Init /\ [][Next]_vars

-----------------------------------------------------------------------------
TypeOK ==
  /\ finishedDependenciesCount \in 0..Cardinality(Deps \X Sessions)
  /\ inputBlobs \in [Inputs -> Blobs \cup {NoBlob}]
  /\ sessionKeys \subseteq Keys
  /\ sessionInputs \in [Keys -> [Inputs -> Blobs \cup {NoBlob}]]
  /\ delivered \subseteq Deps \X Sessions
  /\ completed \subseteq delivered
  /\ fetchStatus \in {"NONE", "OK", "UNKNOWN_ERROR", "INVALID_READ"}

\* Every input name some dependency's mapping feeds.
RequiredInputs == UNION {{Mapping[d][i][2] : i \in 1..Len(Mapping[d])} : d \in Deps}

(* Spec section 4.4: a node is ready (isReady) only once every required   *)
(* input is present in its node session, whatever the order in which its *)
(* dependencies finished and whichever of them failed on a missing        *)
(* output.                                                                 *)
ReadyImpliesInputs ==
  IsReady => \A x \in RequiredInputs : sessionInputs[DefaultKey][x] # NoBlob

(* Spec section 4.4 and 7: a missing required output aborts that          *)
(* session's routing with no partial input committed, so every input of  *)
(* the node session comes from a setInputs call that returned OK.          *)
NoPartialCommit ==
  \A x \in Inputs :
    LET b == sessionInputs[DefaultKey][x]
    IN  b # NoBlob => <<b[2], b[1]>> \in completed

=============================================================================
