---------------------- MODULE CustomNodeLibraryManager ----------------------
(***************************************************************************)
(* CustomNodeLibraryManager (src/src/dags/custom_node_library_manager.cpp): *)
(* the table of custom node libraries, filled by loadLibrary from the      *)
(* pipeline configuration and trimmed by unloadLibrariesRemovedFromConfig *)
(* after each reload.  The calls come from the configuration reload path  *)
(* one at a time, so each call is one step.  The code of a library is      *)
(* abstracted to its path, and dlopen/dlclose to a per-path count of open *)
(* handles: dlopen of a path already open only raises its count, and the  *)
(* code stays mapped while the count is positive.                          *)
(***************************************************************************)
EXTENDS Naturals, FiniteSets

CONSTANTS
  Names,         \* library names used by pipeline configurations
  Paths,         \* full, non-escaping paths of library files
  EscapedPath,   \* a base_path containing ".."
  RelativePath,  \* a base_path that is not a full path
  NoLib,         \* no library registered under a name
  MaxHandles     \* bound on the dlopen count of one path

ASSUME MaxHandlesAssumption == MaxHandles \in Nat \ {0}

BasePaths == Paths \cup {EscapedPath, RelativePath}

\* Finitely many names are configured, and "no library" is not a path.
ASSUME NamesAssumption == IsFiniteSet(Names) /\ NoLib \notin BasePaths

\* The StatusCodes loadLibrary and getLibrary return.
Statuses == {"OK", "PATH_INVALID", "NODE_LIBRARY_ALREADY_LOADED",
             "NODE_LIBRARY_LOAD_FAILED_OPEN", "NODE_LIBRARY_LOAD_FAILED_SYM",
             "NODE_LIBRARY_MISSING", "NONE"}

VARIABLES
  libraries,   \* the libraries map: name -> basePath of its NodeLibrary
  handles,     \* path -> number of dlopen calls not matched by a dlclose
  lastStatus   \* status returned by the last call

vars == <<libraries, handles, lastStatus>>

Init ==
  /\ libraries = [n \in Names |-> NoLib]
  /\ handles = [p \in BasePaths |-> 0]
  /\ lastStatus = "NONE"

\* An early return: the call leaves the table and the handles alone.
Return(status) ==
  /\ lastStatus' = status
  /\ UNCHANGED <<libraries, handles>>

\* Mutant: the dlopen failure path also calls dlclose on the handle.
OpenedCloseOnOpenFailure(name, basePath) ==
  \/ /\ handles' = [handles EXCEPT ![basePath] = @ - 1]
     /\ lastStatus' = "NODE_LIBRARY_LOAD_FAILED_OPEN"
     /\ UNCHANGED libraries
  \/ Return("NODE_LIBRARY_LOAD_FAILED_SYM")
  \/ /\ handles[basePath] < MaxHandles
     /\ handles' = [handles EXCEPT ![basePath] = @ + 1]
     /\ libraries' = [libraries EXCEPT ![name] = basePath]
     /\ lastStatus' = "OK"

\* The outcomes of dlopen followed by the six dlsym lookups, for a call
\* that got past the early returns: the handle is closed again on every
\* failure, so only a full success leaves one more handle open.
Opened(name, basePath) ==
  \/ Return("NODE_LIBRARY_LOAD_FAILED_OPEN")
  \/ Return("NODE_LIBRARY_LOAD_FAILED_SYM")
  \/ /\ handles[basePath] < MaxHandles
     /\ handles' = [handles EXCEPT ![basePath] = @ + 1]
     /\ libraries' = [libraries EXCEPT ![name] = basePath]
     /\ lastStatus' = "OK"

\* Mutant: the entry is written before the last dlsym is checked, and the
\* failure path then closes the handle.
LoadLibraryRegisterBeforeSyms(name, basePath) ==
  /\ basePath \in Paths /\ libraries[name] # basePath
  /\ handles[basePath] < MaxHandles
  /\ libraries' = [libraries EXCEPT ![name] = basePath]
  /\ \/ /\ handles' = [handles EXCEPT ![basePath] = @ + 1]
        /\ lastStatus' = "OK"
     \/ /\ UNCHANGED handles
        /\ lastStatus' = "NODE_LIBRARY_LOAD_FAILED_SYM"

\* Mutant: the isPathEscaped check is missing.
LoadLibraryNoEscapeCheck(name, basePath) ==
  \/ /\ basePath = RelativePath
     /\ Return("PATH_INVALID")
  \/ /\ basePath # RelativePath /\ libraries[name] = basePath
     /\ Return("NODE_LIBRARY_ALREADY_LOADED")
  \/ /\ basePath # RelativePath /\ libraries[name] # basePath
     /\ Opened(name, basePath)

(* loadLibrary(name, basePath).  The path checks and the "already loaded" *)
(* test return first; only the same name at the same path is "already     *)
(* loaded".  Then dlopen and the dlsym lookups (Opened); on success        *)
(* libraries[name] is (over)written with the new NodeLibrary, whatever it *)
(* held before.                                                            *)
LoadLibrary(name, basePath) ==
  \/ /\ basePath = EscapedPath
     /\ Return("PATH_INVALID")
  \/ /\ basePath = RelativePath
     /\ Return("PATH_INVALID")
  \/ /\ basePath \in Paths /\ libraries[name] = basePath
     /\ Return("NODE_LIBRARY_ALREADY_LOADED")
  \/ /\ basePath \in Paths /\ libraries[name] # basePath
     /\ Opened(name, basePath)

(* getLibrary(name): a lookup.                                              *)
GetLibrary(name) ==
  Return(IF libraries[name] = NoLib THEN "NODE_LIBRARY_MISSING" ELSE "OK")

(* unloadLibrariesRemovedFromConfig: the loaded names not in the config   *)
(* are erased from the map; their handles are not closed.                 *)
UnloadLibrariesRemovedFromConfig(librariesInConfig) ==
  /\ libraries' = [n \in Names |->
                     IF n \in librariesInConfig THEN libraries[n] ELSE NoLib]
  /\ UNCHANGED <<handles, lastStatus>>

Next ==
  \/ \E n \in Names, p \in BasePaths : LoadLibrary(n, p)
  \/ \E n \in Names : GetLibrary(n)
  \/ \E cfg \in SUBSET Names : UnloadLibrariesRemovedFromConfig(cfg)

Spec == Init /\ [][Next]_vars

-----------------------------------------------------------------------------
TypeOK ==
  /\ libraries \in [Names -> BasePaths \cup {NoLib}]
  /\ handles \in [BasePaths -> 0..MaxHandles]
  /\ lastStatus \in Statuses

\* The names registered at path p.
BoundTo(p) == {n \in Names : libraries[n] = p}

(* The function pointers of a registered NodeLibrary point into code that *)
(* is still mapped: every path some name is registered at has at least as *)
(* many open handles as names, whatever sequence of loads, failed loads,  *)
(* reloads at other paths and unloads came before.                         *)
MappedCodeStaysLoaded ==
  \A p \in BasePaths : handles[p] >= Cardinality(BoundTo(p))

\* The registry as spec section 4.5 describes it, with and without rebinding.
Registry == INSTANCE LibraryRegistry WITH RebindAllowed <- TRUE
StrictRegistry == INSTANCE LibraryRegistry WITH RebindAllowed <- FALSE

(* loadLibrary and unloadLibrariesRemovedFromConfig implement a registry  *)
(* that only ever registers names at full, non-escaping paths, registers  *)
(* nothing on a failed load, and only drops names on unload.               *)
RegistryRefinement == Registry!Spec

(* Spec section 4.5: a load of a registered name at a different path      *)
(* returns AlreadyLoadedDifferentPath and leaves the original registration *)
(* untouched, so a name is never rebound to new code.                      *)
NoRebindRefinement == StrictRegistry!Spec
=============================================================================
