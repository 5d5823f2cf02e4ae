------------------------------ MODULE VersionOps ------------------------------
(***************************************************************************)
(* The version numbers of one model and the two helpers every loop over   *)
(* its versions uses: the ascending order of the sorted versions vectors, *)
(* and Model::updateDefaultVersion (src/src/model.cpp).                    *)
(***************************************************************************)
EXTENDS Naturals

CONSTANT MaxVersion    \* versions are 1..MaxVersion, 0 means "no version"

ASSUME MaxVersionAssumption == MaxVersion \in Nat \ {0}

Versions == 1..MaxVersion

\* Mutant: the loop starts one past the first element of the vector.
LowestOffByOne(S) == (CHOOSE v \in S : \A w \in S : v <= w) + 1

\* The versions vectors are sorted, so each loop visits its versions in
\* ascending order.
Lowest(S) == CHOOSE v \in S : \A w \in S : v <= w

\* Mutant: the loop stops at the first AVAILABLE version, the lowest.
UpdateDefaultVersionFirstFound(st, ignoredVersion) ==
  LET avail == {v \in Versions : v # ignoredVersion /\ st[v] = "AVAILABLE"}
  IN  IF avail = {} THEN 0 ELSE CHOOSE v \in avail : \A w \in avail : v <= w

\* Model::updateDefaultVersion(ignoredVersion): the highest AVAILABLE version
\* other than ignoredVersion, or 0 when there is none.
UpdateDefaultVersion(st, ignoredVersion) ==
  LET avail == {v \in Versions : v # ignoredVersion /\ st[v] = "AVAILABLE"}
  IN  IF avail = {} THEN 0 ELSE CHOOSE v \in avail : \A w \in avail : w <= v

=============================================================================
