-------------------------- MODULE LibraryRegistry ---------------------------
(***************************************************************************)
(* What the extension library registry promises (spec section 4.5), with  *)
(* the loading mechanism left out: a table from library name to the path  *)
(* its code was loaded from.  A load registers a name at a valid path; a  *)
(* reload after a configuration change drops the names no longer          *)
(* configured.  RebindAllowed says whether a load may move a name that is *)
(* already registered to another path; the spec says it may not.          *)
(***************************************************************************)
CONSTANTS
  Names,          \* library names that configurations use
  Paths,          \* full, non-escaping library paths
  NoLib,          \* marks a name with no registered library
  RebindAllowed   \* BOOLEAN

VARIABLE libraries  \* name -> path, or NoLib

Init == libraries = [n \in Names |-> NoLib]

\* A successful load of name at path.
Load(name, path) ==
  /\ libraries[name] = NoLib \/ RebindAllowed
  /\ libraries' = [libraries EXCEPT ![name] = path]

\* The names outside the configured set are dropped.
Unload(configured) ==
  libraries' = [n \in Names |-> IF n \in configured THEN libraries[n] ELSE NoLib]

Next ==
  \/ \E n \in Names, p \in Paths : Load(n, p)
  \/ \E configured \in SUBSET Names : Unload(configured)

Spec == Init /\ [][Next]_libraries
=============================================================================
